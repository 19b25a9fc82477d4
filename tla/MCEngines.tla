----------------------------- MODULE MCEngines ------------------------------
(***************************************************************************)
(* Hera with one ordinary account and the three system accounts, which all *)
(* hold the same code at the start; Linking with every pair of host        *)
(* instructions and every fault; MemoryOps with two-bit addresses, a       *)
(* memory of up to the whole address space and words of two bytes.  They   *)
(* share no state: a behaviour is one of hera_execute, of a contract in    *)
(* the engines or of the interface's memory, and the other two machines    *)
(* keep an initial state.                                                  *)
(***************************************************************************)
EXTENDS Hera, Linking, MemoryOps

CONSTANTS u

MCWorlds == {[a \in Address |-> IF a = u THEN c ELSE s] :
               c \in {"evm", "wasm"}, s \in {"empty", "evm", "wasm"}}
MCOutputs == Codes
AllShapes == Faults \union {"sound"}
MCSizes == {0, 3, 4}
MCBuffers == {<< >>, <<1>>, <<1, 0, 1>>}

VARIABLE machine

\* What a machine that stands still is left at.
HeraStart == HeraInit /\ world = [a \in Address |-> "wasm"]
LinkStart ==
  /\ engine = "wabt" /\ uses = {} /\ shape = "sound"
  /\ verified = FALSE /\ at = "idle" /\ calling = None
MemoryStart == Init /\ size = 0

MCInit ==
  \/ machine = "hera" /\ HeraInit /\ LinkStart /\ MemoryStart
  \/ machine = "linking" /\ HeraStart /\ LinkInit /\ MemoryStart
  \/ machine = "memory" /\ HeraStart /\ LinkStart /\ Init

MCNext ==
  \/ machine = "hera" /\ HeraNext /\ UNCHANGED <<machine, linkVars, vars>>
  \/ machine = "linking" /\ LinkNext /\ UNCHANGED <<machine, heraVars, vars>>
  \/ machine = "memory" /\ Next /\ UNCHANGED <<machine, heraVars, linkVars>>

MCSpec == MCInit /\ [][MCNext]_<<machine, heraVars, linkVars, vars>>
=============================================================================
