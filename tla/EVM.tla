-------------------------------- MODULE EVM --------------------------------
(***************************************************************************)
(* The machine a contract's bytecode is written for: what the translated   *)
(* contract promises to do.  Instruction.h documents the instructions; the *)
(* machine itself is outside this repository.                              *)
(***************************************************************************)
EXTENDS Bytecode, SequencesExt

CONSTANTS
  WordSize,    \* number of words (2^256)
  Inputs,      \* values the environment may give an instruction
  StackLimit   \* most items on the stack (1024)

VARIABLES
  code,
  pc,
  stack,   \* top last
  status   \* "running", "finished", or "undone": the effects are discarded

vars == <<code, pc, stack, status>>

Running == status = "running"

Halt(how) ==
  /\ status' = how
  /\ stack' = << >>
  /\ UNCHANGED <<code, pc>>

Below(n) == SubSeq(stack, 1, Len(stack) - n)

\* The item n places below the top.
Item(n) == stack[Len(stack) - n]

\* The EVM's jump destination analysis: one walk over the code.
JumpDests ==
  LET walk[p \in 0..Len(code)] ==
        IF p = Len(code) THEN {} ELSE {p} \union walk[NextPc(code, p)]
  IN {p \in walk[0] : OpAt(code, p) = "JUMPDEST"}

Goto(p, rest) ==
  IF p \in JumpDests
  THEN pc' = p /\ stack' = rest /\ UNCHANGED <<code, status>>
  ELSE Halt("undone")

Continue(newStack) ==
  /\ pc' = NextPc(code, pc)
  /\ stack' = newStack
  /\ UNCHANGED <<code, status>>

EndOfCode == Running /\ pc = Len(code) /\ Halt("finished")

Fits(op) ==
  /\ Len(stack) >= StackOut(op)
  /\ Len(stack) - StackOut(op) + StackIn(op) <= StackLimit

Fail ==
  /\ Running /\ pc < Len(code)
  /\ OpAt(code, pc) = "INVALID" \/ ~Fits(OpAt(code, pc))
  /\ Halt("undone")

Execute(op) ==
  \/ op \in {"STOP", "RETURN", "SUICIDE"} /\ Halt("finished")
  \/ op = "REVERT" /\ Halt("undone")
  \/ op = "JUMP" /\ Goto(Item(0), Below(1))
  \/ /\ op = "JUMPI"
     /\ IF Item(1) # 0 THEN Goto(Item(0), Below(2)) ELSE Continue(Below(2))
  \/ op = "JUMPDEST" /\ Continue(stack)
  \/ op = "POP" /\ Continue(Below(1))
  \/ op = "CODECOPY" /\ Continue(Below(3))
  \/ op = "ADD" /\ Continue(Append(Below(2), (Item(0) + Item(1)) % WordSize))
  \/ op = "GAS" /\ \E v \in Inputs : Continue(Append(stack, v))
  \/ op \in {"PUSH1", "PUSH2"} /\ Continue(Append(stack, PushData(code, pc)))
  \/ op \in {"DUP1", "DUP2"} /\ Continue(Append(stack, Item(Rank(op) - 1)))
  \/ /\ op \in {"SWAP1", "SWAP2"}
     /\ Continue([stack EXCEPT ![Len(stack)] = Item(Rank(op)),
                               ![Len(stack) - Rank(op)] = Item(0)])

Init == code \in Seq(Byte) /\ pc = 0 /\ stack = << >> /\ status = "running"

Next ==
  \/ EndOfCode
  \/ Fail
  \/ /\ Running /\ pc < Len(code) /\ Fits(OpAt(code, pc))
     /\ Execute(OpAt(code, pc))

Spec == Init /\ [][Next]_vars

\* A running contract keeps running until it ends.
Live == WF_vars(Next)
=============================================================================
