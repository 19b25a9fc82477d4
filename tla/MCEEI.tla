------------------------------- MODULE MCEEI -------------------------------
(* A small instance of EEI.  The schedule keeps the order of the real one:  *)
(* call < valueStipend < valuetransfer, storageStoreChange <                *)
(* storageStoreCreate.                                                      *)
EXTENDS EEI

MCGasSchedule ==
  [storageLoad |-> 1, storageStoreCreate |-> 3, storageStoreChange |-> 2,
   log |-> 2, logData |-> 1, logTopic |-> 1, create |-> 2, call |-> 1,
   copy |-> 1, blockhash |-> 2, balance |-> 1, base |-> 1, verylow |-> 1,
   extcode |-> 1, selfdestruct |-> 2, valuetransfer |-> 3, valueStipend |-> 2,
   callNewAccount |-> 1]

MCGasArgs == {-1, 0, 4}
MCLengths == {0, 1}

\* One account with one unit; the other address is free.
CONSTANTS a, b, k

MCWorlds ==
  {[storage |-> [x \in {a, b} |-> [y \in {k} |-> 0]],
    balance |-> [x \in {a, b} |-> IF x = a THEN 1 ELSE 0],
    exists |-> {a}, marks |-> {}]}

\* A frame two calls deep runs only while no frame has credit, and a frame
\* that is not metered only while it has no caller.
FramesBound ==
  LET frames == {cur} \union {callers[i] : i \in DOMAIN callers}
  IN  /\ Len(callers) = MaxDepth => \A f \in frames : f.credit = 0
      /\ callers # <<>> => \A f \in frames : f.meter
=============================================================================
