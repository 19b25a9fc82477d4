----------------------------- MODULE HostWords -----------------------------
(***************************************************************************)
(* The instructions whose operands or results cross to the host, lowered   *)
(* by compileBasicBlock (WASMCompiler.cpp): their types (a value keeps the *)
(* width it came with), their byte order (the host stores addresses and    *)
(* hashes big-endian and numbers little-endian, wasm memory is             *)
(* little-endian, emitEndianConvert turns one into the other), and the     *)
(* stack slots they pass by reference, which start out undefined.  A value *)
(* too narrow for its use is broken IR, which verifyModule (CodeGen.cpp)   *)
(* refuses: there is no contract then.                                     *)
(*                                                                         *)
(* Every value is carried with the word the EVM has in its place (want)    *)
(* and with the instruction it comes from, so that a contract can be       *)
(* compared with its translation at the host.  An integer is the sequence  *)
(* of its bytes, least significant first; widths are in bytes.             *)
(* EXTCODEHASH, SELFBALANCE, CHAINID, BASEFEE and CREATE2 are left out: no *)
(* engine answers them (see Linking).                                      *)
(***************************************************************************)
EXTENDS Naturals, Sequences

CONSTANTS
  Byte,       \* the values of a byte, 0 among them
  WordLen,    \* i256
  AddrLen,    \* i160
  HalfLen,    \* i128
  LongLen,    \* i64
  IntLen,     \* i32
  TopSet,     \* bytes whose top bit is set
  Accounts,   \* addresses, most significant byte first
  Words,      \* words a contract pushes or the host returns
  Junk,       \* contents of a stack slot nobody wrote
  Ops,        \* the instructions the contract may hold
  MaxStack, MaxSteps

Bytes(n) == [1..n -> Byte]
Word == Bytes(WordLen)

ASSUME ByteAssumption == Byte \subseteq Nat /\ 0 \in Byte /\ TopSet \subseteq Byte \ {0}
ASSUME WidthAssumption ==
  /\ {WordLen, AddrLen, HalfLen, LongLen, IntLen} \subseteq Nat
  /\ 0 < IntLen /\ IntLen < LongLen /\ LongLen < HalfLen /\ HalfLen < AddrLen /\ AddrLen < WordLen
ASSUME DataAssumption ==
  Accounts \subseteq Bytes(AddrLen) /\ Words \subseteq Word /\ Junk \subseteq Word
ASSUME MaxStepsAssumption == MaxSteps \in Nat

(***************************************************************************)
(* Casts, and EEIModule::initBswapI256 with EEIModule::emitEndianConvert.  *)
(***************************************************************************)
Zext(s, n) == [i \in 1..n |-> IF i <= Len(s) THEN s[i] ELSE 0]
Trunc(s, n) == [i \in 1..n |-> s[i]]
Shl(s, k) == [i \in DOMAIN s |-> IF i <= k THEN 0 ELSE s[i - k]]
LShr(s, k) == [i \in DOMAIN s |-> IF i + k \in DOMAIN s THEN s[i + k] ELSE 0]
AndByte(s, j) == [i \in DOMAIN s |-> IF i = j THEN s[i] ELSE 0]

\* Lane k of the byte swap of n bytes, 0 <= k < n: the byte it moves, alone.
Lane(s, k) ==
  LET n == Len(s)
      moved == IF 2 * k < n THEN Shl(s, n - 1 - 2 * k) ELSE LShr(s, 2 * k - (n - 1))
  IN  IF k \in {0, n - 1} THEN moved ELSE AndByte(moved, n - k)

\* The or of the lanes.  At most one of them has a byte that is not zero in
\* any place, and their maximum is their or.
bswap256(s) ==
  [i \in DOMAIN s |->
     LET bytes == {Lane(s, k)[i] : k \in 0..(Len(s) - 1)}
     IN  CHOOSE b \in bytes : \A c \in bytes : b >= c]

\* A constant is swapped by APInt::byteSwap, with the same result, except for
\* a single byte, which LLVM does not swap (see MSTORE8).
emitEndianConvert(s) ==
  Trunc(bswap256(Shl(Zext(s, WordLen), WordLen - Len(s))), Len(s))

Turned(s) == [i \in DOMAIN s |-> s[Len(s) + 1 - i]]
Zero == [i \in 1..WordLen |-> 0]
-----------------------------------------------------------------------------
VARIABLES
  stack,     \* values: v as translated, want as in the EVM, from its origin
  memory,    \* bytes of the contract's memory
  expected,  \* the same bytes in the EVM
  origin,    \* for each offset, where the word stored there comes from
  storage,   \* the host's storage, keys and values as it sees them
  evmStorage,\* the same in the EVM
  host,      \* the last operand the host received
  steps

vars == <<stack, memory, expected, origin, storage, evmStorage, host, steps>>

Offsets == {0, 1}
MemoryLen == WordLen + 1
Nothing == [op |-> "none", got |-> <<>>, want |-> <<>>, from |-> "none", len |-> 0]

Init ==
  /\ stack = <<>>
  /\ memory = [a \in 0..(MemoryLen - 1) |-> 0] /\ expected = memory
  /\ origin = [p \in Offsets |-> "PUSH"]
  /\ storage = <<>> /\ evmStorage = <<>>
  /\ host = Nothing /\ steps = 0

\* Sources of a word that is the EVM's with its account turned round, and of
\* one that is not determined by the EVM's.
TurnedSources == {"ADDRESS", "COINBASE", "CREATE"}
Undetermined == {"failed CREATE", "unknown BLOCKHASH", "mixed"}
Agreeing(from) == from \notin TurnedSources \union Undetermined
KeysAgree == \A k \in DOMAIN storage : Agreeing(storage[k].key)

Item(v, want, from) == [want |-> want, from |-> from, v |-> v, const |-> FALSE]
Literal(v, want, from) == [want |-> want, from |-> from, v |-> v, const |-> TRUE]
Top == stack[Len(stack)]
Below == SubSeq(stack, 1, Len(stack) - 1)
Room == Len(stack) < MaxStack
Data == <<memory, expected, origin, storage, evmStorage>>
Translated == host.op \notin {"ill-typed", "i8 swap"}
Count(op) == Translated /\ op \in Ops /\ steps < MaxSteps /\ steps' = steps + 1

\* What the host got from the operand it, and what the EVM gives it.
Given(op, it, got, want) ==
  [op |-> op, got |-> got, want |-> want, from |-> it.from, len |-> Len(it.v)]

(***************************************************************************)
(* Instructions that push a value of the host.                             *)
(***************************************************************************)
Push(it) == Room /\ Count(it.from) /\ stack' = Append(stack, it) /\ UNCHANGED <<Data, host>>

PUSH(w) == Push(Literal(w, w, "PUSH"))

\* storeAddress, loaded as an i160, extended.
AddressRead(op, a) ==
  Push(Item(Zext(a, WordLen), Zext(Turned(a), WordLen), op))
\* ... and converted first.
CallerRead(op, a) ==
  Push(Item(Zext(emitEndianConvert(a), WordLen), Zext(Turned(a), WordLen), op))

\* getGasLeft, getBlockGasLimit, getBlockNumber, getBlockTimestamp return an
\* i64 and getTxGasPrice stores an i128, extended; getBlockDifficulty a word.
NumberRead(op, w) ==
  LET len == CASE op = "GASPRICE" -> HalfLen [] op = "DIFFICULTY" -> WordLen [] OTHER -> LongLen
      n == Trunc(w, len)
  IN  Push(Item(Zext(n, WordLen), Zext(n, WordLen), op))

\* CALLVALUE is left an i128, the sizes an i32; that of the code is a constant.
NarrowRead(op, w) ==
  LET n == Trunc(w, IF op = "CALLVALUE" THEN HalfLen ELSE IntLen)
  IN  Push(Item(n, Zext(n, WordLen), op))
CODESIZE(w) == Push(Literal(Trunc(w, IntLen), Zext(Trunc(w, IntLen), WordLen), "CODESIZE"))

\* SHA3 and CALLDATALOAD read 32 bytes of the host, most significant first.
BytesRead(op, b) == Push(Item(emitEndianConvert(b), Turned(b), op))

(***************************************************************************)
(* Instructions that hand the host an account.  CreateTruncOrBitCast makes *)
(* no wider value of a narrow one: the module is ill-typed.                *)
(***************************************************************************)
Converting == {"EXTCODESIZE", "CALL", "CALLCODE", "DELEGATECALL", "STATICCALL"}
Plain == {"BALANCE", "EXTCODECOPY"}
IllTyped(it) == host' = Given("ill-typed", it, <<>>, it.want)

ReachedConverted(op, it) ==
  Given(op, it, emitEndianConvert(Trunc(it.v, AddrLen)), Turned(Trunc(it.want, AddrLen)))
Reached(op, it) ==
  LET addr == Trunc(it.v, AddrLen)
  IN  Given(op, it, IF op \in Converting THEN emitEndianConvert(addr) ELSE addr,
            Turned(Trunc(it.want, AddrLen)))

\* The value of a call or a creation is an i128.
ValueSent(it) == Given("value", it, Trunc(it.v, HalfLen), it.want)

\* others: pairs of another operand and the width it is cut to.  BALANCE pushes
\* an i128, EXTCODESIZE an i32, the calls a word (1 or 0) and EXTCODECOPY
\* nothing.  What the calls and EXTCODECOPY write to memory lies outside the
\* modelled part (see MemoryOps and EEI for these).
AccountUsed(op, w, others) ==
  LET narrow == {use \in others \union {<<Top, AddrLen>>} : Len(use[1].v) < use[2]}
      n == CASE op = "BALANCE" -> Trunc(w, HalfLen)
             [] op = "EXTCODESIZE" -> Trunc(w, IntLen)
             [] OTHER -> Zext(Trunc(w, 1), WordLen)
  IN  /\ stack # <<>> /\ Count(op) /\ UNCHANGED Data
      /\ \/ \E use \in narrow : IllTyped(use[1]) /\ stack' = Below
         \/ /\ narrow = {}
            /\ \/ host' = Reached(op, Top)
               \/ \E use \in others : use[2] = HalfLen /\ host' = ValueSent(use[1])
            /\ stack' = IF op = "EXTCODECOPY" THEN Below
                        ELSE Append(Below, Item(n, Zext(n, WordLen), op))

\* What a call takes beside the account does not lie on the modelled stack: it
\* is of every type a value can have.
Operands(w) ==
  {Item(w, Zext(w, WordLen), "DIFFICULTY"),
   Item(Trunc(w, HalfLen), Zext(Trunc(w, HalfLen), WordLen), "CALLVALUE"),
   Item(Trunc(w, IntLen), Zext(Trunc(w, IntLen), WordLen), "CALLDATASIZE")}

CALL(op, w, gas, value) == AccountUsed(op, w, {<<gas, LongLen>>, <<value, HalfLen>>})
DELEGATECALL(op, w, gas) == AccountUsed(op, w, {<<gas, LongLen>>})

\* The operand itself becomes the pointer from which the host reads the
\* beneficiary; only pointers into the modelled memory are followed.
Pointer(s) == IF \A i \in 2..IntLen : s[i] = 0 THEN s[1] ELSE MemoryLen
SUICIDE ==
  /\ stack # <<>> /\ Count("SUICIDE") /\ Pointer(Top.v) + AddrLen <= MemoryLen
  /\ host' = Given("SUICIDE", Top, [i \in 1..AddrLen |-> memory[Pointer(Top.v) + i - 1]],
                   Turned(Trunc(Top.want, AddrLen)))
  /\ stack' = Below /\ UNCHANGED Data

\* CREATE pushes the i160 the host stored, or on failure what is in the slot.
CREATE(a, created) ==
  /\ stack # <<>> /\ Count("CREATE")
  /\ IF Len(Top.v) < HalfLen
       THEN IllTyped(Top) /\ stack' = Below
       ELSE /\ host' = ValueSent(Top)
            /\ stack' = Append(Below,
                 IF created THEN Item(Zext(a, WordLen), Zext(Turned(a), WordLen), "CREATE")
                            ELSE Item(Zext(a, WordLen), Zero, "failed CREATE"))
  /\ UNCHANGED Data

\* The number is compared as a word with the largest signed i64, truncated to
\* an i64, and the hash read from a slot the host fills only for a block it knows.
Big(s) == s[LongLen] \in TopSet \/ \E i \in (LongLen + 1)..Len(s) : s[i] # 0
BLOCKHASH(b, known) ==
  /\ stack # <<>> /\ Count("BLOCKHASH")
  /\ IF Len(Top.v) < WordLen
       THEN IllTyped(Top) /\ stack' = Below
       ELSE /\ host' = Given("number", Top, Trunc(Top.v, LongLen), Trunc(Top.want, LongLen))
            /\ stack' = Append(Below,
                 IF Big(Top.v) THEN Item(Zero, Zero, "BLOCKHASH")
                 ELSE IF known THEN Item(emitEndianConvert(b), Turned(b), "BLOCKHASH")
                 ELSE Item(emitEndianConvert(b), Zero, "unknown BLOCKHASH"))
  /\ UNCHANGED Data

\* Each topic in a slot of its own type, of which the host reads 32 bytes.
LOG(rest) ==
  /\ stack # <<>> /\ Count("LOG")
  /\ host' = Given("topic", Top,
                   [i \in 1..WordLen |-> IF i <= Len(Top.v) THEN Top.v[i] ELSE rest[i]],
                   Turned(Top.want))
  /\ stack' = Below /\ UNCHANGED Data

(***************************************************************************)
(* Memory and storage.                                                     *)
(***************************************************************************)
Written(m, p, s) == [a \in DOMAIN m |-> IF a \in p..(p + Len(s) - 1) THEN s[a - p + 1] ELSE m[a]]
Origins(p, from) == [q \in Offsets |-> IF q = p THEN from ELSE "mixed"]

MstoreBytes(s) == emitEndianConvert(Zext(s, WordLen))
MSTORE(p) ==
  /\ stack # <<>> /\ Count("MSTORE")
  /\ memory' = Written(memory, p, MstoreBytes(Top.v))
  /\ expected' = Written(expected, p, Turned(Top.want))
  /\ origin' = Origins(p, Top.from)
  /\ stack' = Below /\ UNCHANGED <<storage, evmStorage, host>>

\* The low byte of a constant is a constant, and the translator ends in its swap.
MSTORE8(p) ==
  /\ stack # <<>> /\ Count("MSTORE8") /\ stack' = Below
  /\ \/ /\ Top.const
        /\ host' = Given("i8 swap", Top, <<>>, Top.want) /\ UNCHANGED Data
     \/ /\ ~Top.const
        /\ memory' = Written(memory, p, emitEndianConvert(Trunc(Top.v, 1)))
        /\ expected' = Written(expected, p, <<Top.want[1]>>)
        /\ origin' = [q \in Offsets |-> "mixed"]
        /\ UNCHANGED <<storage, evmStorage, host>>

MLOAD(p) ==
  LET read(m) == [i \in 1..WordLen |-> m[p + i - 1]]
  IN  /\ Room /\ Count("MLOAD")
      /\ stack' = Append(stack, Item(emitEndianConvert(read(memory)),
                                     Turned(read(expected)), origin[p]))
      /\ UNCHANGED <<Data, host>>

\* Key and value are extended, converted and passed by reference.
SlotUnextended(s) == Zext(emitEndianConvert(s), WordLen)
Slot(s) == emitEndianConvert(Zext(s, WordLen))
Put(m, k, x) == [j \in DOMAIN m \union {k} |-> IF j = k THEN x ELSE m[j]]
\* Where the keys that reached a slot come from; a source that does not agree
\* is kept, as the EVM has an entry elsewhere from then on.
KeySource(it) ==
  LET slot == Slot(it.v)
  IN  IF slot \in DOMAIN storage /\ ~Agreeing(storage[slot].key) THEN storage[slot].key ELSE it.from
SSTORE ==
  /\ Len(stack) >= 2 /\ Count("SSTORE")
  /\ LET value == stack[Len(stack) - 1]
     IN  /\ storage' = Put(storage, Slot(Top.v),
                           [v |-> Slot(value.v), from |-> value.from, key |-> KeySource(Top)])
         /\ evmStorage' = Put(evmStorage, Turned(Top.want), Turned(value.want))
  /\ stack' = SubSeq(stack, 1, Len(stack) - 2)
  /\ UNCHANGED <<memory, expected, origin, host>>

\* SLOAD does not extend the key: a narrow one does not go into the slot.
SLOAD ==
  LET k == emitEndianConvert(Top.v)
      found == IF k \in DOMAIN storage THEN storage[k] ELSE [v |-> Zero, from |-> "PUSH", key |-> "PUSH"]
      e == Turned(Top.want)
      from == IF Agreeing(Top.from) /\ KeysAgree THEN found.from ELSE "mixed"
  IN  /\ stack # <<>> /\ Count("SLOAD") /\ UNCHANGED Data
      /\ \/ Len(Top.v) < WordLen /\ IllTyped(Top) /\ stack' = Below
         \/ /\ Len(Top.v) = WordLen /\ host' = Given("slot", Top, k, e)
            /\ stack' = Append(Below, Item(emitEndianConvert(found.v),
                            IF e \in DOMAIN evmStorage THEN Turned(evmStorage[e]) ELSE Zero, from))

Next ==
  \/ \E w \in Words :
       \/ PUSH(w)
       \/ \E op \in {"GAS", "GASLIMIT", "NUMBER", "TIMESTAMP", "GASPRICE", "DIFFICULTY"} :
            NumberRead(op, w)
       \/ \E op \in {"CALLVALUE", "CALLDATASIZE", "RETURNDATASIZE"} : NarrowRead(op, w)
       \/ CODESIZE(w)
       \/ \E op \in {"SHA3", "CALLDATALOAD"} : BytesRead(op, w)
       \/ \E op \in Plain \union {"EXTCODESIZE"} : AccountUsed(op, w, {})
       \/ \E op \in {"CALL", "CALLCODE"}, gas, value \in Operands(w) : CALL(op, w, gas, value)
       \/ \E op \in {"DELEGATECALL", "STATICCALL"}, gas \in Operands(w) : DELEGATECALL(op, w, gas)
       \/ BLOCKHASH(w, TRUE)
  \/ \E a \in Accounts :
       \/ \E op \in {"ADDRESS", "COINBASE"} : AddressRead(op, a)
       \/ \E op \in {"CALLER", "ORIGIN"} : CallerRead(op, a)
       \/ CREATE(a, TRUE)
  \/ \E j \in Junk :
       \/ CREATE(Trunc(j, AddrLen), FALSE)
       \/ BLOCKHASH(j, FALSE)
       \/ LOG(j)
  \/ \E p \in Offsets : MSTORE(p) \/ MSTORE8(p) \/ MLOAD(p)
  \/ SSTORE \/ SLOAD \/ SUICIDE

Spec == Init /\ [][Next]_vars
-----------------------------------------------------------------------------
(***************************************************************************)
(* Properties.                                                             *)
(***************************************************************************)

\* Values are an i256, an i128 or an i32, and memory and storage hold bytes.
TypeOK ==
  /\ \A i \in DOMAIN stack :
       /\ stack[i].v \in UNION {Bytes(n) : n \in {WordLen, HalfLen, IntLen}}
       /\ stack[i].want \in Word
  /\ \A a \in DOMAIN memory : memory[a] \in Byte /\ expected[a] \in Byte
  /\ \A k \in DOMAIN storage : k \in Word /\ storage[k].v \in Word
  /\ steps \in 0..MaxSteps

\* emitEndianConvert turns the bytes of a value of any width, and through
\* memory and storage a contract's words stay the EVM's, whatever type they
\* came with: MSTORE and SSTORE extend, MLOAD and SLOAD convert back.  Only
\* the accounts of ADDRESS, COINBASE and CREATE are turned round.
WordsAgree ==
  /\ \A i \in DOMAIN stack :
       LET it == stack[i]
       IN  /\ Agreeing(it.from) => Zext(it.v, WordLen) = it.want
           /\ it.from \in TurnedSources =>
                Zext(it.v, WordLen) = Zext(Turned(Trunc(it.want, AddrLen)), WordLen)
  /\ \A p \in Offsets : Agreeing(origin[p]) =>
       \A a \in p..(p + WordLen - 1) : memory[a] = expected[a]

\* An account obtained by one instruction and used by another, kept on the
\* stack, in memory or in storage meanwhile, is the account the EVM means
\* exactly when both convert or neither does: ADDRESS, COINBASE and CREATE go
\* with BALANCE and EXTCODECOPY, everything else with the calls and EXTCODESIZE.
AccountsReached ==
  (host.op \in Converting \union Plain /\ host.from \notin Undetermined) =>
    (host.got = host.want <=>
       \/ (host.from \in TurnedSources) <=> (host.op \in Plain)
       \/ Turned(host.want) = host.want)

\* The host's storage is the EVM's as long as keys and values are: narrow
\* keys and values are extended by SSTORE.  SLOAD asks for the key SSTORE used.
StorageAgrees ==
  /\ (KeysAgree /\ \A k \in DOMAIN storage : Agreeing(storage[k].from)) =>
       evmStorage = [k \in DOMAIN storage |-> storage[k].v]
  /\ (host.op = "slot" /\ Agreeing(host.from)) => host.got = host.want

\* The value of a call or a creation reaches the host unless it needs more
\* than 128 bits, which are cut off; a topic reaches it back to front.
OperandsReached ==
  Agreeing(host.from) =>
    /\ host.op = "value" =>
         (Zext(host.got, WordLen) = host.want
            <=> \A i \in (HalfLen + 1)..WordLen : host.want[i] = 0)
    /\ (host.op = "topic" /\ host.len = WordLen) => host.got = Turned(host.want)

\* A contract is refused only where CALLVALUE, BALANCE or a size, left in the
\* type the host returned, is used as an account, a block number, a storage
\* key, the gas of a call or the value of a call or a creation; and the
\* translator ends only where MSTORE8 stores a constant.
RefusedOnlyNarrow ==
  /\ host.op = "ill-typed" =>
       host.from \in {"CALLVALUE", "CODESIZE", "CALLDATASIZE", "RETURNDATASIZE", "BALANCE",
                     "EXTCODESIZE"}
  /\ host.op = "i8 swap" => host.from \in {"PUSH", "CODESIZE"}

\* What a contract and its host exchange is what the EVM would exchange, or the
\* exception is one of those named above.
ExchangesAgree ==
  TypeOK /\ WordsAgree /\ AccountsReached /\ OperandsReached /\ RefusedOnlyNarrow
=============================================================================
