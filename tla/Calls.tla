------------------------------- MODULE Calls -------------------------------
(***************************************************************************)
(* What a translated contract sees of its calls: the lowering of CALL,     *)
(* CALLCODE, DELEGATECALL, STATICCALL, CREATE, SHA3 (a call of contract 9) *)
(* and RETURNDATACOPY together with the host's m_lastReturnData (eeiCall,  *)
(* eeiCreate, eeiReturnDataCopy), step by step beside the EVM.             *)
(* Return data is the number of the call it belongs to and its length; a   *)
(* byte of the output range, the call whose data it holds.                 *)
(***************************************************************************)
EXTENDS Naturals

CONSTANTS
  MaxLen,     \* longest return data and output range; SHA3 returns HashLen
  HashLen,
  GasMod,     \* 2^64
  GasWords,   \* gas operands
  Cap,        \* maxCallGas
  MaxCalls

ASSUME LenAssumption == MaxLen \in Nat /\ HashLen \in 1..MaxLen
ASSUME GasAssumption ==
  /\ GasMod \in Nat /\ GasMod % 2 = 0 /\ GasWords \subseteq Nat
  /\ Cap \in Nat /\ 2 * Cap < GasMod
ASSUME MaxCallsAssumption == MaxCalls \in Nat

VARIABLES
  deep,      \* the frame is at depth 1024
  calls,     \* calls made so far, SHA3 included
  last,      \* m_lastReturnData
  evmLast,   \* the return data of the EVM
  disturbed, \* a refused call or a SHA3 has come since the last completed call
  out,       \* the output range: by, whose data, and stale, copied while disturbed
  evmOut,    \* by in the EVM
  pushed,    \* the last call: the word pushed, the gas it got, in both, and the
             \* gas operand and the length of the output range
  hash,      \* the last SHA3: "none", "right" or "stale"
  status     \* "running", "short" or "gas": trapped in returnDataCopy or eeiCall

callsVars == <<deep, calls, last, evmLast, disturbed, out, evmOut, pushed, hash, status>>

NoData == [by |-> 0, len |-> 0]
DataOf(n, len) == [by |-> n, len |-> len]
Smaller(a, b) == IF a <= b THEN a ELSE b

CallsInit ==
  /\ deep \in BOOLEAN /\ calls = 0
  /\ last = NoData /\ evmLast = NoData /\ disturbed = FALSE
  /\ out = [i \in 1..MaxLen |-> [by |-> 0, stale |-> FALSE]] /\ evmOut = [i \in 1..MaxLen |-> 0]
  /\ pushed = [ours |-> 0, evm |-> 0, gas |-> 0, evmGas |-> 0, operand |-> 0, size |-> 0]
  /\ hash = "none" /\ status = "running"

\* The operand is truncated to an i64 which must not be negative.
TruncatedGas(g) == g % GasMod
Negative(g) == 2 * TruncatedGas(g) >= GasMod

\* m_lastReturnData after a call: unchanged when the host refused it.
LastAfter(refused, n, len) == IF refused THEN last ELSE DataOf(n, len)

\* returnDataCopy(outOff, 0, size): all of it or a trap.
CopyFits(d, size) == size <= d.len
CopiedWhole(o, d, stale, size) ==
  [i \in 1..MaxLen |-> IF i <= d.len THEN [by |-> d.by, stale |-> stale] ELSE o[i]]
Copied(o, d, stale, size) ==
  [i \in 1..MaxLen |-> IF i <= size THEN [by |-> d.by, stale |-> stale] ELSE o[i]]
EvmCopied(o, d, size) ==
  [i \in 1..MaxLen |-> IF i <= Smaller(size, d.len) THEN d.by ELSE o[i]]

\* The word pushed is 1 exactly for a return code of 0 (select on icmp eq).
Pushed(outcome) == IF outcome = "success" THEN 1 ELSE 0

\* CALL and its like: the call, the result, and then the copy to the output
\* range whatever the call returned.
Call(g, poor, outcome, len, size) ==
  LET n == calls + 1
      refused == deep \/ poor
      d == LastAfter(refused, n, len)
      e == IF refused THEN NoData ELSE DataOf(n, len)
  IN  /\ status = "running" /\ calls < MaxCalls
      /\ calls' = n
      /\ IF Negative(g)
           THEN /\ status' = "gas"
                /\ UNCHANGED <<deep, last, evmLast, disturbed, out, evmOut, pushed, hash>>
           ELSE /\ last' = d /\ evmLast' = e
                /\ disturbed' = refused
                /\ pushed' = [ours |-> IF refused THEN 0 ELSE Pushed(outcome),
                              evm |-> IF ~refused /\ outcome = "success" THEN 1 ELSE 0,
                              gas |-> IF refused THEN 0 ELSE Smaller(TruncatedGas(g), Cap),
                              evmGas |-> IF refused THEN 0 ELSE Smaller(g, Cap),
                              operand |-> g, size |-> size]
                /\ status' = IF CopyFits(d, size) THEN "running" ELSE "short"
                /\ out' = IF CopyFits(d, size) THEN Copied(out, d, refused, size) ELSE out
                /\ evmOut' = EvmCopied(evmOut, e, size)
                /\ UNCHANGED <<deep, hash>>

\* CREATE: no output range; only a failed creation has return data.
CreatedDataKept(n, outcome, len) == DataOf(n, len)
CreatedData(n, outcome, len) == IF outcome = "success" THEN NoData ELSE DataOf(n, len)
Create(poor, outcome, len) ==
  LET n == calls + 1
      refused == deep \/ poor
      ours == CreatedData(n, outcome, len)
  IN  /\ status = "running" /\ calls < MaxCalls
      /\ calls' = n
      /\ last' = IF refused THEN last ELSE ours
      /\ evmLast' = IF refused \/ outcome = "success" THEN NoData ELSE DataOf(n, len)
      /\ disturbed' = refused
      /\ UNCHANGED <<deep, out, evmOut, pushed, hash, status>>

\* solidity.keccak256: callStatic of contract 9 with all gas, then 32 bytes
\* of return data, its return code unused.  Failing, it returns none.
Sha3(failed) ==
  LET n == calls + 1
      d == LastAfter(deep, n, IF failed THEN 0 ELSE HashLen)
  IN  /\ status = "running" /\ calls < MaxCalls
      /\ calls' = n
      /\ last' = d /\ disturbed' = TRUE
      /\ hash' = IF ~CopyFits(d, HashLen) THEN hash ELSE IF d.by = n THEN "right" ELSE "stale"
      /\ status' = IF CopyFits(d, HashLen) THEN "running" ELSE "short"
      /\ UNCHANGED <<deep, evmLast, out, evmOut, pushed>>

\* RETURNDATACOPY to the output range: both trap beyond the data.
ReturnDataCopy(size) ==
  /\ status = "running" /\ size <= evmLast.len
  /\ status' = IF CopyFits(last, size) THEN "running" ELSE "short"
  /\ out' = IF CopyFits(last, size) THEN Copied(out, last, disturbed, size) ELSE out
  /\ evmOut' = EvmCopied(evmOut, evmLast, size)
  /\ UNCHANGED <<deep, calls, last, evmLast, disturbed, pushed, hash>>

Outcomes == {"success", "revert", "failure"}

CallsNext ==
  \/ \E g \in GasWords, poor \in BOOLEAN, outcome \in Outcomes, len, size \in 0..MaxLen :
       Call(g, poor, outcome, len, size)
  \/ \E poor \in BOOLEAN, outcome \in Outcomes, len \in 0..MaxLen : Create(poor, outcome, len)
  \/ \E failed \in BOOLEAN : Sha3(failed)
  \/ \E size \in 0..MaxLen : ReturnDataCopy(size)

CallsSpec == CallsInit /\ [][CallsNext]_callsVars
-----------------------------------------------------------------------------
(***************************************************************************)
(* Properties.                                                             *)
(***************************************************************************)

\* Return data and output name calls that were made.
CallsTypeOK ==
  /\ last.by \in 0..calls /\ evmLast.by \in 0..calls
  /\ last.len \in 0..MaxLen /\ evmLast.len \in 0..MaxLen
  /\ disturbed \in BOOLEAN /\ (last.by = 0 => last.len = 0)
  /\ \A i \in 1..MaxLen : out[i].by \in 0..calls /\ evmOut[i] \in 0..calls
  /\ status \in {"running", "short", "gas"} /\ hash \in {"none", "right", "stale"}

\* RETURNDATASIZE and RETURNDATACOPY see what they see in the EVM until a call
\* is refused (eeiCall and eeiCreate return early and keep m_lastReturnData)
\* or a SHA3 comes in between (it is itself a call).
ReturnDataAgrees == (status = "running" /\ ~disturbed) => last = evmLast

\* A byte of the output range that differs from the EVM's was copied by a
\* refused call, or by RETURNDATACOPY after one or after a SHA3.
OutputDiffersOnlyStale ==
  status = "running" => \A i \in 1..MaxLen : out[i].by # evmOut[i] => out[i].stale

\* A translated contract traps in returnDataCopy, where the EVM does not, only
\* if the output range is longer than what the call returned, or the return
\* data is not the EVM's any more.
TrapsExplained == status = "short" => disturbed \/ pushed.size > evmLast.len

\* The gas a call gets is never more than in the EVM, and the same whenever
\* the operand fits 64 bits; a larger operand loses its upper part.
GasForwarded ==
  /\ pushed.gas <= pushed.evmGas
  /\ pushed.operand < GasMod => pushed.gas = pushed.evmGas
  /\ pushed.ours = pushed.evm

\* SHA3 never yields bytes of older return data, though its callStatic can be
\* refused and the copy follows regardless: the depth that refuses it refuses
\* every call of the frame, so there is no return data and the copy traps.  So
\* it does when contract 9 fails.
HashNeverStale == hash # "stale" /\ (deep => hash = "none" /\ last = NoData)

\* Every difference between a sequence of calls as translated and as the EVM
\* makes it has one of the causes named above: a refused call, a hash in
\* between, an output range longer than the data, or a gas operand too wide.
CallsExplained ==
  /\ CallsTypeOK
  /\ OutputDiffersOnlyStale
  /\ TrapsExplained
  /\ GasForwarded
  /\ HashNeverStale
=============================================================================
