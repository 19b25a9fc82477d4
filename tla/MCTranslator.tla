---------------------------- MODULE MCTranslator ----------------------------
(***************************************************************************)
(* The hardening passes and the command line tool that asks for them.  The *)
(* two share no state: a behaviour is one of them, and the other keeps its *)
(* initial state.                                                          *)
(***************************************************************************)
EXTENDS MCHardening, MCDriver

VARIABLE machine

\* What a machine that stands still is left at.
HardeningStart ==
  /\ Init /\ ir = Made(<< >>, {2}, << >>, {3}) /\ opts = Opt(TRUE, FALSE, FALSE)
DriverStart ==
  /\ DriverInit
  /\ \A p \in Procs : argv[p] = {} /\ input[p] = {}
  /\ \A p, q \in Procs : cwd[p] = cwd[q]

MCInit ==
  \/ machine = "hardening" /\ Init /\ DriverStart
  \/ machine = "driver" /\ DriverInit /\ HardeningStart

MCNext ==
  \/ machine = "hardening" /\ Next /\ UNCHANGED <<machine, driverVars>>
  \/ machine = "driver" /\ DriverNext /\ UNCHANGED <<machine, vars>>

MCSpec == MCInit /\ [][MCNext]_<<machine, vars, driverVars>>
=============================================================================
