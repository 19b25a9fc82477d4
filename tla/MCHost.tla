------------------------------- MODULE MCHost -------------------------------
(***************************************************************************)
(* HostWords, Calls and Selector: what a translated contract and its host  *)
(* give each other.  The three share no state: a behaviour is one of them, *)
(* and the other two keep their initial states.                            *)
(***************************************************************************)
EXTENDS HostWords, Calls, Selector

\* HostWords: words of five bytes, accounts of four.
MCByte == {0, 1}
MCTopSet == {1}
MCAccounts == {<<1, 0, 0, 0>>, <<0, 1, 1, 0>>}
MCWords == {<<1, 0, 0, 0, 0>>, <<0, 1, 0, 1, 1>>}
MCJunk == {<<0, 1, 1, 0, 1>>}
AllOps == {"PUSH", "ADDRESS", "COINBASE", "CALLER", "ORIGIN", "GAS", "GASLIMIT", "NUMBER",
           "TIMESTAMP", "GASPRICE", "DIFFICULTY", "CALLVALUE", "CODESIZE", "CALLDATASIZE",
           "RETURNDATASIZE", "SHA3", "CALLDATALOAD", "BLOCKHASH", "BALANCE", "EXTCODESIZE",
           "EXTCODECOPY", "CALL", "CALLCODE", "DELEGATECALL", "STATICCALL", "CREATE",
           "SUICIDE", "LOG", "MSTORE", "MSTORE8", "MLOAD", "SSTORE", "SLOAD"}

\* Calls: gas operands around the 63rd and 64th bit of a 3-bit i64.
MCGasWords == {0, 3, 4, 7, 8, 11}

\* Selector: words of four bytes with selectors of two.  The first conversion
\* is of every kind; another load or conversion may follow it.
LoadThen(off, op, arg, const, next, own, again) ==
  [off |-> off, op |-> op, arg |-> arg, const |-> const, next |-> next, own |-> own, again |-> again,
   load |-> TRUE]
Load(off, op, arg, const, next, again) == LoadThen(off, op, arg, const, next, TRUE, again)

MCOffsets == {0, 1, 3}
MCItems ==
  {OtherConversion}
    \cup {Load(o, "lshr", a, c, "none", g) : o \in MCOffsets, a \in 1..3, c \in BOOLEAN, g \in BOOLEAN}
    \cup {Load(o, "udiv", a, TRUE, n, g) : o \in MCOffsets, a \in 1..3,
            n \in {"mask", "constant", "variable", "none"}, g \in BOOLEAN}
    \cup {Load(o, "other", 0, FALSE, "none", g) : o \in MCOffsets, g \in BOOLEAN}
    \cup {LoadThen(o, "lshr", 2, TRUE, "none", FALSE, TRUE) : o \in MCOffsets}
    \cup {LoadThen(o, "udiv", 2, TRUE, "mask", FALSE, TRUE) : o \in MCOffsets}
MCSeconds == {OtherConversion, Load(0, "lshr", 2, TRUE, "none", TRUE), Load(1, "udiv", 2, TRUE, "mask", FALSE)}

MCPrograms == {<<a>> : a \in MCItems} \cup {<<a, b>> : a \in MCItems, b \in MCSeconds}
MCCallData == {<<>>, <<1>>, <<1, 0>>, <<0, 1, 1>>, <<1, 1, 0, 1>>, <<0, 1, 0, 1, 1>>, <<1, 0, 1, 1, 0, 1, 1>>}

VARIABLE machine

\* What a machine that stands still is left at.
CallsStart == CallsInit /\ ~deep
SelectorStart ==
  /\ code = <<OtherConversion>> /\ named = 1 /\ pos = 2 /\ length = <<WordBytes>> /\ cut = {}
  /\ phase = "pass" /\ data = <<>> /\ pc = 1 /\ loaded = Idle

MCInit ==
  \/ machine = "words" /\ Init /\ CallsStart /\ SelectorStart
  \/ machine = "calls" /\ Init /\ CallsInit /\ SelectorStart
  \/ machine = "selector" /\ Init /\ CallsStart /\ SelectorInit

MCNext ==
  \/ machine = "words" /\ Next /\ UNCHANGED <<machine, callsVars, selectorVars>>
  \/ machine = "calls" /\ CallsNext /\ UNCHANGED <<machine, vars, selectorVars>>
  \/ machine = "selector" /\ SelectorNext /\ UNCHANGED <<machine, vars, callsVars>>

MCSpec == MCInit /\ [][MCNext]_<<machine, vars, callsVars, selectorVars>>

\* A contract of more than three instructions is followed if it goes through
\* storage, with operands of these sources only.  A value below the top is for
\* SSTORE alone, and from the third instruction on comes from these sources too.
StoredSources == {"PUSH", "ADDRESS", "CALLER", "CALLVALUE"}
LongOnlyWithStorage ==
  /\ steps >= 3 =>
       \A j \in 1..(Len(stack) - 1) : stack[j].from \in StoredSources
  /\ steps >= 4 =>
       /\ storage # <<>>
       /\ \A k \in DOMAIN storage : {storage[k].from, storage[k].key} \subseteq StoredSources
       /\ \A j \in DOMAIN stack : stack[j].from \in StoredSources
=============================================================================
