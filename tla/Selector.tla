------------------------------ MODULE Selector ------------------------------
(***************************************************************************)
(* CALLDATALOAD as compileBasicBlock lowers it (WASMCompiler.cpp), the     *)
(* pass calldataCopyPass, which prepare adds when the options say runtime  *)
(* code (Optimizer.cpp), and the host function behind it (eei.cpp).        *)
(*                                                                         *)
(* A word is loaded by a copy of call data into a fresh stack slot and a   *)
(* conversion of its byte order.  The pass looks for the load whose word   *)
(* is reduced to the function selector and lets it copy those bytes only.  *)
(* The slot is not initialised, so every byte that is not copied is        *)
(* whatever the stack held.                                                *)
(***************************************************************************)
EXTENDS Integers, Sequences

CONSTANTS
  WordBytes,  \* 32
  SigBytes,   \* 4, the bytes of a selector
  DataByte,
  Programs,   \* what main converts, in the order of its blocks
  CallData

DataWord == [1..WordBytes -> DataByte]

ASSUME SelectorAssumption ==
  /\ SigBytes \in Nat \ {0} /\ WordBytes \in Nat /\ SigBytes < WordBytes
  /\ 0 \in DataByte /\ CallData \subseteq Seq(DataByte)

(***************************************************************************)
(* A conversion of byte order: that of a load of call data at off, with    *)
(* the instructions after it, or of anything else (MLOAD, SLOAD, CALLER).  *)
(* op is lshr or udiv by 8 * arg bits, the operand a constant or not; next *)
(* is the instruction after that: an and with the mask of a selector or    *)
(* with something else as its first operand, or not an and.  own: that     *)
(* instruction takes the word loaded; the pass looks only at what follows. *)
(* again: the word was duplicated and is used elsewhere too.               *)
(* The pass knows a load by its callDataCopy: a CALLDATACOPY before an     *)
(* MLOAD at a constant address is one as well.  That of a word and of its  *)
(* destination loads the word and leaves it in memory (again); the MLOAD   *)
(* of another place is not its own.                                        *)
(***************************************************************************)
Loads == [load : {TRUE}, off : Nat, op : {"lshr", "udiv", "other"}, arg : 0..WordBytes,
          const : BOOLEAN, next : {"mask", "constant", "variable", "none"}, own : BOOLEAN,
          again : BOOLEAN]
OtherConversion == [load |-> FALSE]

ASSUME ProgramsAssumption == Programs \subseteq Seq(Loads \cup {OtherConversion})

VARIABLES
  code,
  named,   \* the conversion emitted first: its result has the name ".reverse"
  pos,     \* position of the pass
  length,  \* what each load asks of callDataCopy
  cut,     \* the loads whose udiv and and the pass replaced by lshr
  phase,   \* "pass", "run", "trap", "crashed" (the translator)
  data,    \* the call data
  pc, loaded

selectorVars == <<code, named, pos, length, cut, phase, data, pc, loaded>>

Idle == [k |-> 0, word |-> <<>>, got |-> <<>>]

\* prepare: without isRtcode the pass is not added.
PassStart(isRtcode) == IF isRtcode THEN 1 ELSE Len(code) + 1

\* Blocks are emitted breadth first and lie in the order of the bytecode, so
\* that any of them may hold the first conversion; LLVM numbers the names after.
SelectorInit ==
  /\ code \in Programs /\ named \in DOMAIN code
  /\ \E isRtcode \in BOOLEAN : pos = PassStart(isRtcode)
  /\ cut = {} /\ phase = "pass"
  /\ length = [k \in DOMAIN code |-> WordBytes]
  /\ data = <<>> /\ pc = 1 /\ loaded = Idle

-----------------------------------------------------------------------------
(***************************************************************************)
(* The pass, one iteration of its loop per step.                           *)
(***************************************************************************)
Candidate(k) == code[k].load /\ k = named
SelectorShift(k) == code[k].op = "lshr" /\ code[k].const /\ code[k].arg = WordBytes - SigBytes
MaskedQuotient(k) == code[k].op = "udiv" /\ code[k].next = "mask"

\* getSExtValue and getZExtValue of an operand that is not a ConstantInt.
NullOperand(k) ==
  \/ code[k].op = "lshr" /\ ~code[k].const
  \/ code[k].op = "udiv" /\ code[k].next = "variable"

InPass == phase = "pass" /\ pos <= Len(code)

Skip ==
  /\ InPass
  /\ Candidate(pos) => ~(SelectorShift(pos) \/ MaskedQuotient(pos) \/ NullOperand(pos))
  /\ pos' = pos + 1 /\ UNCHANGED <<code, named, length, cut, phase, data, pc, loaded>>

Shortened == [length EXCEPT ![pos] = SigBytes]
Shorten ==
  /\ InPass /\ Candidate(pos) /\ SelectorShift(pos)
  /\ length' = Shortened /\ pos' = Len(code) + 1
  /\ UNCHANGED <<code, named, cut, phase, data, pc, loaded>>

Replace ==
  /\ InPass /\ Candidate(pos) /\ MaskedQuotient(pos)
  /\ length' = Shortened /\ cut' = cut \cup {pos} /\ pos' = Len(code) + 1
  /\ UNCHANGED <<code, named, phase, data, pc, loaded>>

Crash ==
  /\ InPass /\ Candidate(pos) /\ NullOperand(pos)
  /\ phase' = "crashed" /\ UNCHANGED <<code, named, pos, length, cut, data, pc, loaded>>

-----------------------------------------------------------------------------
(***************************************************************************)
(* The contract.                                                           *)
(***************************************************************************)
StartCall(d) ==
  /\ phase = "pass" /\ pos > Len(code)
  /\ phase' = "run" /\ data' = d
  /\ UNCHANGED <<code, named, pos, length, cut, pc, loaded>>

Shr(w, n) == [j \in 1..WordBytes |-> IF j <= n THEN 0 ELSE w[j - n]]
Masked(w) == [j \in 1..WordBytes |-> IF j <= WordBytes - SigBytes THEN 0 ELSE w[j]]

\* What the instructions after the load make of the word.
Reduced(item, w) ==
  IF item.op = "other" \/ ~item.own THEN w
  ELSE IF item.op = "udiv" /\ item.next = "mask" THEN Masked(Shr(w, item.arg))
  ELSE Shr(w, item.arg)
\* Where the quotient was another's, that is lost for the selector of this word.
Emitted(k, w) == IF k \in cut /\ code[k].own THEN Shr(w, WordBytes - SigBytes) ELSE Reduced(code[k], w)

\* eeiCallDataCopy: the copy ends with the call data and traps beyond it.
CopiedLenWhole(off, n) == IF off + n <= Len(data) THEN n ELSE 0
CopiedLen(off, n) == IF off + n <= Len(data) THEN n ELSE Len(data) - off

LoadedSlot(off, n, stale) ==
  [j \in 1..WordBytes |-> IF j <= CopiedLen(off, n) THEN data[off + j] ELSE stale[j]]

CALLDATALOAD(stale) ==
  /\ phase = "run" /\ pc <= Len(code) /\ code[pc].load /\ code[pc].off <= Len(data)
  /\ LET w == LoadedSlot(code[pc].off, length[pc], stale)
     IN loaded' = [k |-> pc, word |-> w, got |-> Emitted(pc, w)]
  /\ pc' = pc + 1 /\ UNCHANGED <<code, named, pos, length, cut, phase, data>>

Trap ==
  /\ phase = "run" /\ pc <= Len(code) /\ code[pc].load /\ code[pc].off > Len(data)
  /\ phase' = "trap" /\ UNCHANGED <<code, named, pos, length, cut, data, pc, loaded>>

Convert ==
  /\ phase = "run" /\ pc <= Len(code) /\ ~code[pc].load
  /\ pc' = pc + 1 /\ loaded' = Idle
  /\ UNCHANGED <<code, named, pos, length, cut, phase, data>>

SelectorNext ==
  \/ Skip \/ Shorten \/ Replace \/ Crash
  \/ \E d \in CallData : StartCall(d)
  \/ \E stale \in DataWord : CALLDATALOAD(stale)
  \/ Trap \/ Convert

SelectorSpec == SelectorInit /\ [][SelectorNext]_selectorVars
-----------------------------------------------------------------------------
SelectorTypeOK ==
  /\ \A k \in DOMAIN code : code[k] \in Loads \/ code[k] = OtherConversion
  /\ named \in DOMAIN code /\ pos \in 1..(Len(code) + 1) /\ pc \in 1..(Len(code) + 1)
  /\ length \in [DOMAIN code -> {SigBytes, WordBytes}] /\ cut \subseteq DOMAIN code
  /\ phase \in {"pass", "run", "trap", "crashed"} /\ data \in Seq(DataByte)
  /\ loaded.k \in {0} \cup DOMAIN code
  /\ loaded.k # 0 => loaded.word \in DataWord /\ loaded.got \in DataWord

\* The word the EVM loads: zeros follow the call data.
EVMWord(off) == [j \in 1..WordBytes |-> IF off + j <= Len(data) THEN data[off + j] ELSE 0]
Want == Reduced(code[loaded.k], EVMWord(code[loaded.k].off))
TakesSelector(item) ==
  /\ item.own /\ item.arg = WordBytes - SigBytes
  /\ item.op = "lshr" \/ (item.op = "udiv" /\ item.next = "mask")
Reaches(n) == code[loaded.k].off + n <= Len(data)

\* A contract dispatches on the selector the EVM would see: whatever the pass
\* did to the load, and whatever the slot held before, call data that holds the
\* selector gives it exactly (calldataCopyPass, CALLDATALOAD, eeiCallDataCopy).
SelectorExact ==
  loaded.k # 0 /\ TakesSelector(code[loaded.k]) /\ Reaches(SigBytes) => loaded.got = Want

\* What the contract computes from a load differs from the EVM's value for
\* three reasons only: the call data ends before the word, whose other bytes
\* are then stale and not zero; the pass took the quotient by something else
\* for the selector; or it shortened the load because of a shift of another
\* word.  A second use of the word differs only where the pass shortened the
\* load, or, again, for want of call data.
DifferenceExplained ==
  loaded.k # 0 =>
    /\ loaded.got # Want =>
         \/ ~Reaches(WordBytes)
         \/ loaded.k \in cut /\ ~TakesSelector(code[loaded.k])
         \/ length[loaded.k] = SigBytes /\ ~code[loaded.k].own
    /\ code[loaded.k].again /\ loaded.word # EVMWord(code[loaded.k].off) =>
         ~Reaches(WordBytes) \/ length[loaded.k] = SigBytes

\* Loads of call data, shortened by the pass or not: the selector is exact, and
\* what differs otherwise is accounted for.
LoadsAgree == SelectorTypeOK /\ SelectorExact /\ DifferenceExplained
=============================================================================
