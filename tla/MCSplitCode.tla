---------------------------- MODULE MCSplitCode -----------------------------
(***************************************************************************)
(* All bytecodes up to MaxAny bytes, and of up to MaxLength bytes the ones *)
(* in which the bytes of a CODECOPY, a RETURN and a PUSH1 follow each      *)
(* other and there is a JUMPDEST.  Every byte is both an instruction and   *)
(* possible push data.                                                     *)
(***************************************************************************)
EXTENDS SplitCode

CONSTANTS MaxAny, MaxLength

MCMnemonic == [b \in 0..5 |->
  <<"CODECOPY", "RETURN", "PUSH1", "PUSH2", "JUMPDEST", "JUMPI">>[b + 1]]

Splits(c) ==
  \E i, j, k \in DOMAIN c : i < j /\ j < k /\ c[i] = 0 /\ c[j] = 1 /\ c[k] = 2 /\ (\E l \in DOMAIN c : c[l] = 4)

MCPrograms ==
  UNION {[1..n -> DOMAIN MCMnemonic] : n \in 1..MaxAny}
    \cup {c \in UNION {[1..n -> DOMAIN MCMnemonic] : n \in (MaxAny + 1)..MaxLength} : Splits(c)}
=============================================================================
