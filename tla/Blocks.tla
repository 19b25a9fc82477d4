------------------------------- MODULE Blocks -------------------------------
(***************************************************************************)
(* WASMCompiler::createBasicBlocks: one pass over the bytecode that cuts   *)
(* it into basic blocks and drops code no jump can reach.  Each step is    *)
(* one iteration of its loop.                                              *)
(***************************************************************************)
EXTENDS Bytecode

CONSTANT Programs  \* the bytecodes to translate

ASSUME ProgramsAssumption == Programs \subseteq Seq(Byte) \ {<< >>}

VARIABLES
  code,    \* ExeCode
  curr,    \* the instruction the loop is at
  begin,   \* where the current block begins
  isDead,  \* no block is open: code is skipped until a JUMPDEST
  blocks   \* the blocks so far: code[first, end)

scanVars == <<code, curr, begin, isDead, blocks>>

Block == [first : Nat, end : Nat]

Scanning == curr < Len(code)

\* JUMP, RETURN, REVERT, STOP and SUICIDE: control never falls through.
Halting == {"JUMP", "RETURN", "REVERT", "STOP", "SUICIDE"}

DeadAfterNothing(op) == FALSE
DeadAfterJumpi(op) == op \in Halting \union {"JUMPI"}
DeadAfter(op) == op \in Halting

EndsBlock(op, next) ==
  \/ op \in Halting \union {"JUMPI"}
  \/ next = Len(code)
  \/ next < Len(code) /\ OpAt(code, next) = "JUMPDEST"

SkipDead ==
  /\ Scanning /\ isDead
  /\ OpAt(code, curr) # "JUMPDEST"
  /\ curr' = NextPc(code, curr)
  /\ UNCHANGED <<code, begin, isDead, blocks>>

Revives == isDead /\ OpAt(code, curr) = "JUMPDEST"

Scan ==
  LET op == OpAt(code, curr)
      next == NextPc(code, curr)
      first == IF Revives THEN curr ELSE begin
  IN /\ Scanning
     /\ isDead => op = "JUMPDEST"
     /\ curr' = next
     /\ isDead' = DeadAfter(op)
     /\ \/ /\ EndsBlock(op, next)
           /\ blocks' = Append(blocks, [first |-> first, end |-> next])
           /\ begin' = next
        \/ /\ ~EndsBlock(op, next)
           /\ begin' = first
           /\ UNCHANGED blocks
     /\ UNCHANGED code

\* The cases compileBasicBlock adds to the jump table.
JumpTableAll == {blocks[i].first : i \in 1..Len(blocks)}
JumpTable ==
  {blocks[i].first : i \in {j \in 1..Len(blocks) : OpAt(code, blocks[j].first) = "JUMPDEST"}}

ScanInit ==
  /\ code \in Programs
  /\ curr = 0 /\ begin = 0 /\ isDead = FALSE
  /\ blocks = << >>

ScanNext == SkipDead \/ Scan

ScanSpec == ScanInit /\ [][ScanNext]_scanVars

-----------------------------------------------------------------------------
\* The loop of createBasicBlocks stays inside the code, whatever push data is cut off.
ScanTypeOK ==
  /\ code \in Programs
  /\ curr \in 0..Len(code) /\ begin \in 0..Len(code)
  /\ isDead \in BOOLEAN
  /\ blocks \in Seq(Block)

\* Every position the loop stops at, and every end of a block, is one where an
\* instruction starts: push data is never read as an instruction.
OnBoundary ==
  {curr, begin} \union {blocks[i].first : i \in 1..Len(blocks)}
                \union {blocks[i].end : i \in 1..Len(blocks)} \subseteq InstrStarts(code)

\* What lies before curr and in no block, and not in the block being built,
\* has been dropped.
InBlock(p) ==
  \/ ~isDead /\ begin <= p /\ p < curr
  \/ \E i \in 1..Len(blocks) : blocks[i].first <= p /\ p < blocks[i].end

\* Only unreachable code is dropped: no jump can target it, and the instruction
\* before it does not fall through or is itself dropped.
DroppedIsDead ==
  LET starts == InstrStarts(code) IN
  \A p \in starts : p < curr /\ ~InBlock(p) =>
    /\ OpAt(code, p) # "JUMPDEST"
    /\ \E q \in starts :
         q < p /\ NextPc(code, q) = p /\ (OpAt(code, q) \in NoFallThrough \/ ~InBlock(q))

\* "JUMPDEST must be the first instruction of a basic block"
\* (the assertion in compileBasicBlock).
JumpdestStartsBlock ==
  \A p \in InstrStarts(code) : \A i \in 1..Len(blocks) :
    blocks[i].first < p /\ p < blocks[i].end => OpAt(code, p) # "JUMPDEST"

\* Every target the EVM accepts has a case in the jump table and nothing else
\* does, in particular no JUMPDEST byte inside push data.
JumpTableExact == ~Scanning => JumpTable = ValidJumpDests(code)

\* A block that does not start with a JUMPDEST is entered only by falling
\* through a JUMPI that ends the block before it: compileMain hands it that
\* block's registers without a merge.
OnePredecessor ==
  LET starts == InstrStarts(code) IN
  \A i \in 1..Len(blocks) : OpAt(code, blocks[i].first) # "JUMPDEST" =>
    IF i = 1 THEN blocks[i].first = 0
    ELSE /\ blocks[i - 1].end = blocks[i].first
         /\ \E q \in starts : q < Len(code) /\ NextPc(code, q) = blocks[i].first
                                /\ OpAt(code, q) = "JUMPI"
=============================================================================
