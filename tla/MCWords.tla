------------------------------ MODULE MCWords ------------------------------
(***************************************************************************)
(* Words and Arith256 with words of eight bits, so that the multiplication *)
(* has halves and quarters twice over: four bytes, i128 of five bits and   *)
(* i32 of three.  The two share no state: a behaviour is one of a contract *)
(* or one of a function, and the other machine stands still.               *)
(***************************************************************************)
EXTENDS Words, Arith256

\* Indices of bytes and the first past them, and values at the signed and
\* unsigned limits of the three types.
SomeInputs == {0, 1, 3, 4, 23, 128, 255}

\* Small, around the powers of two, at the signed and the unsigned limits; all
\* words for the functions without a loop.
Edges == {0, 1, 2, 3, 7, 16, 17, 85, 127, 128, 129, 170, 254, 255}
MCOperands ==
  [f \in AllFns |-> IF f \in {"mul", "safeAdd", "safeSub"} THEN Values(W) ELSE Edges]

VARIABLE machine

Returned ==
  /\ fn = "mul" /\ a = 0 /\ b = 0 /\ pc = "done" /\ res = <<0>>
  /\ x = 0 /\ y = 0 /\ w = W /\ tmp = 0 /\ cnt = 0 /\ yLz = 0 /\ i0 = 0
  /\ i = 0 /\ yp = 0 /\ r = 0 /\ q = 0 /\ base = 0 /\ e = 0

MCInit ==
  \/ machine = "contract" /\ Init /\ Returned
  \/ machine = "function" /\ ArithInit /\ Init /\ ~safe /\ ~reaches

MCNext ==
  \/ machine = "contract" /\ Next /\ UNCHANGED <<machine, arithVars>>
  \/ machine = "function" /\ ArithNext /\ UNCHANGED <<machine, vars>>

allVars == <<machine, vars, arithVars>>

MCSpec == MCInit /\ [][MCNext]_allVars /\ WF_allVars(machine = "function" /\ MCNext)
=============================================================================
