------------------------------- MODULE Lifter -------------------------------
(***************************************************************************)
(* WASMCompiler::compileMain and the contract it produces.                 *)
(*                                                                         *)
(* The compiler cuts the code into blocks (Blocks), guesses the edges      *)
(* between them (DryRun) and lowers the blocks breadth first: inside a     *)
(* block stack items are LLVM registers, between blocks they live in the   *)
(* global array mstk below spPtr, and a block that is entered by falling   *)
(* through takes items over in the registers of its predecessor.  When all *)
(* blocks are lowered the contract runs.  Its execution is modelled block  *)
(* by block, at the level of the emitted IR.                               *)
(***************************************************************************)
EXTENDS DryRun

CONSTANTS
  WordSize,    \* number of words (2^256)
  Inputs,      \* values the environment may give an instruction
  MstkWords,   \* words of mstk in use (511: spPtr is raised first, so word 0 is not)
  StackLimit   \* stack limit of the EVM (1024)

ASSUME MachineAssumption ==
  /\ WordSize \in Nat \ {0} /\ MstkWords \in Nat /\ StackLimit \in Nat
  /\ Inputs \subseteq Nat

VARIABLES
  queue,    \* waitingBlocks: a block, and the block whose registers it gets
  taken,    \* per lowered block, how many of those registers it takes over
  at,       \* the block that runs
  inside,   \* FALSE at a block boundary
  pc,       \* the instruction that runs
  locals,   \* the block's registers, top last: value and whether a constant
  mstk, sp, \* the global stack
  target,   \* the global the jump table switches on
  status    \* "running", "finished", "reverted", "trapped"; "undefined" when
            \* the contract has read or written outside mstk

lowerVars == <<queue, taken>>
runVars == <<at, inside, pc, locals, mstk, sp, target, status>>
vars == <<scanVars, dryVars, lowerVars, runVars>>

(***************************************************************************)
(* Stack needs of a block (BasicBlock::ctxDep).                            *)
(***************************************************************************)
CtxStepNet(acc, p) ==
  LET out == StackOut(OpAt(code, p))
      in == StackIn(OpAt(code, p))
  IN IF acc.now + in >= out THEN [acc EXCEPT !.now = @ + in - out]
     ELSE [prev |-> acc.prev + out - in - acc.now, now |-> 0]
CtxStep(acc, p) ==
  LET out == StackOut(OpAt(code, p))
      in == StackIn(OpAt(code, p))
  IN IF acc.now >= out THEN [acc EXCEPT !.now = @ - out + in]
     ELSE [prev |-> acc.prev + out - acc.now, now |-> in]

\* The loop of ctxDep, from a position on.
Dep == [prev : Nat, now : Nat]
CtxLoop(b) ==
  LET loop[p \in 0..Len(code)] ==
        [acc \in Dep |-> IF p >= blocks[b].end THEN acc
                         ELSE loop[NextPc(code, p)][CtxStep(acc, p)]]
  IN loop

ctxDep(b) == CtxLoop(b)[blocks[b].first][[prev |-> 0, now |-> 0]]

StkIn(b) == ctxDep(b).prev

(***************************************************************************)
(* GlobalStack in register mode: too few registers read as zero.           *)
(***************************************************************************)
Const(v) == [v |-> v, const |-> TRUE]

Top(l) == IF l = << >> THEN Const(0) ELSE Last(l)

Pop(l) == IF l = << >> THEN l ELSE Front(l)

dup(l, index) ==
  Append(l, IF index >= Len(l) THEN Const(0) ELSE l[Len(l) - index])

swap(l, index) ==
  IF Len(l) <= index + 1
  THEN l \o [i \in 1..(index + 2 - Len(l)) |-> Const(0)]
  ELSE [l EXCEPT ![Len(l)] = l[Len(l) - index - 1],
                 ![Len(l) - index - 1] = l[Len(l)]]

\* compileBasicBlock, the instructions that stay in the block; v is what the
\* environment returns.  IRBuilder folds an operation on two constants; the
\* cast that such a fold meets afterwards (in ADD) is in Words.
Lower(op, p, l, v) ==
  CASE op = "POP" -> Pop(l)
    [] op = "ADD" ->
         Append(Pop(Pop(l)),
                [v |-> (Top(l).v + Top(Pop(l)).v) % WordSize,
                 const |-> Top(l).const /\ Top(Pop(l)).const])
    [] op = "GAS" -> Append(l, [v |-> v, const |-> FALSE])
    [] op \in {"PUSH1", "PUSH2"} -> Append(l, Const(PushData(code, p)))
    [] op \in {"DUP1", "DUP2"} -> dup(l, Rank(op) - 1)
    [] op \in {"SWAP1", "SWAP2"} -> swap(l, Rank(op) - 1)
    [] op = "CODECOPY" -> Pop(Pop(Pop(l)))
    [] OTHER -> l

\* What the instructions that end a block pop.
Operands(op) ==
  CASE op \in {"JUMP", "SUICIDE"} -> 1
    [] op \in {"JUMPI", "RETURN", "REVERT"} -> 2
    [] OTHER -> 0

\* The registers left by an instruction: the compiler sees sizes, not values.
LeftBy(p, n) ==
  IF Operands(OpAt(code, p)) > 0
  THEN IF n >= Operands(OpAt(code, p)) THEN n - Operands(OpAt(code, p)) ELSE 0
  ELSE Len(Lower(OpAt(code, p), p, [i \in 1..n |-> Const(0)], 0))

\* Compilation from a position on: an undefined instruction becomes unreachable
\* and ends it.
SizeLoop(b) ==
  LET loop[p \in 0..Len(code)] ==
        [n \in Nat |-> IF p >= blocks[b].end \/ OpAt(code, p) = "INVALID" THEN n
                       ELSE loop[NextPc(code, p)][LeftBy(p, n)]]
  IN loop

LocalsOut(b) == SizeLoop(b)[blocks[b].first][StkIn(b)]

(***************************************************************************)
(* Lowering.                                                               *)
(***************************************************************************)
\* bbs_from and bbs_to of a block, as positions in edges.
Predecessors(b) == {i \in DOMAIN edges : edges[i][2] = b}
Successors(b) == {i \in DOMAIN edges : edges[i][1] = b}

\* The edges of a set in the order they were found.
InOrder(S) ==
  {s \in [1..Cardinality(S) -> S] : \A i, j \in 1..Cardinality(S) : i < j => s[i] < s[j]}

TakesRegisters(b) ==
  \/ FirstOp(b) # "JUMPDEST"
  \/ /\ Cardinality(Predecessors(b)) = 1
     /\ \A i \in Predecessors(b) : FirstOp(edges[i][1]) = "JUMPI"

Registers(b, from) ==
  IF from = 0 \/ ~TakesRegisters(b) THEN 0
  ELSE IF LocalsOut(from) <= StkIn(b) THEN LocalsOut(from) ELSE StkIn(b)

LowerSkipNoPop ==
  /\ DryDone /\ queue # << >>
  /\ Head(queue).bb = 0 \/ Head(queue).bb \in DOMAIN taken
  /\ UNCHANGED <<queue, taken>>
LowerSkip ==
  /\ DryDone /\ queue # << >>
  /\ Head(queue).bb = 0 \/ Head(queue).bb \in DOMAIN taken
  /\ queue' = Tail(queue)
  /\ UNCHANGED taken

LowerBlock ==
  LET b == Head(queue).bb
  IN /\ DryDone /\ queue # << >>
     /\ b # 0 /\ b \notin DOMAIN taken
     /\ taken' = [c \in DOMAIN taken \union {b} |->
                    IF c = b THEN Registers(b, Head(queue).from) ELSE taken[c]]
     /\ \E s \in InOrder(Successors(b)) :
          queue' = Tail(queue) \o [i \in DOMAIN s |-> [bb |-> edges[s[i]][2], from |-> b]]

\* Blocks the walk did not reach get everything from mstk.
Taken(b) == IF b \in DOMAIN taken THEN taken[b] ELSE 0

(***************************************************************************)
(* The contract.                                                           *)
(***************************************************************************)
Live == DryDone /\ queue = << >> /\ status = "running"

\* Nothing is known of a contract once it has left mstk.
Corrupt ==
  /\ status' = "undefined"
  /\ UNCHANGED <<at, inside, pc, locals, mstk, sp, target>>

\* The start of a block: registers are taken over, the rest is popped.
EnterFrom(k) ==
  LET m == StkIn(at) - k
      below == sp - k - m
  IN /\ Live /\ ~inside
     /\ \/ below < 0 /\ Corrupt
        \/ /\ below >= 0
           /\ locals' = [i \in 1..m |-> [v |-> mstk[below + i], const |-> FALSE]]
                        \o SubSeq(locals, Len(locals) - k + 1, Len(locals))
           /\ sp' = below
           /\ inside' = TRUE
           /\ UNCHANGED <<at, pc, mstk, target, status>>

Enter == EnterFrom(Taken(at))

Op == OpAt(code, pc)

Ending == Halting \union {"JUMPI", "INVALID"}

Exec ==
  /\ Live /\ inside
  /\ pc < blocks[at].end /\ Op \notin Ending
  /\ \E v \in IF Op = "GAS" THEN Inputs ELSE {0} : locals' = Lower(Op, pc, locals, v)
  /\ pc' = NextPc(code, pc)
  /\ UNCHANGED <<at, inside, mstk, sp, target, status>>

\* The registers are stored before the block's terminator.
SpillBelow(l) ==
  /\ mstk' = [i \in 1..MstkWords |-> IF sp < i /\ i <= sp + Len(l) THEN l[i - sp].v ELSE mstk[i]]
  /\ locals' = l
  /\ UNCHANGED sp
Spill(l) ==
  /\ mstk' = [i \in 1..MstkWords |-> IF sp < i /\ i <= sp + Len(l) THEN l[i - sp].v ELSE mstk[i]]
  /\ locals' = l
  /\ sp' = sp + Len(l)

Abort == status' = "reverted" /\ UNCHANGED <<at, pc>>

\* A case of the jump table, or its default.
Dispatch(p) ==
  IF p \in JumpTable THEN at' = BlockAt(p) /\ pc' = p /\ UNCHANGED status ELSE Abort

\* The llvm block after this one: the next block, or "Test", which goes to the
\* jump table.
FallThrough(t) ==
  IF at < Len(blocks)
  THEN at' = at + 1 /\ pc' = blocks[at + 1].first /\ UNCHANGED status
  ELSE Dispatch(t)

\* resolveJumps: a jump to a constant is direct, and its store to target erased.
TargetAfter(dest) == IF dest.const THEN target ELSE dest.v

Overflows(l) == sp + Len(l) > MstkWords

LeaveBlock(l, t, branch) ==
  \/ Overflows(l) /\ Corrupt
  \/ ~Overflows(l) /\ Spill(l) /\ target' = t /\ inside' = FALSE /\ branch

Jump ==
  LET dest == Top(locals)
  IN /\ Live /\ inside
     /\ pc < blocks[at].end /\ Op = "JUMP"
     /\ LeaveBlock(Pop(locals), TargetAfter(dest), Dispatch(dest.v))

JumpiTaken ==
  LET dest == Top(locals)
  IN /\ Live /\ inside
     /\ pc < blocks[at].end /\ Op = "JUMPI" /\ Top(Pop(locals)).v # 0
     /\ LeaveBlock(Pop(Pop(locals)), TargetAfter(dest), Dispatch(dest.v))

JumpiNotTaken ==
  LET dest == Top(locals)
  IN /\ Live /\ inside
     /\ pc < blocks[at].end /\ Op = "JUMPI" /\ Top(Pop(locals)).v = 0
     /\ LeaveBlock(Pop(Pop(locals)), TargetAfter(dest), FallThrough(TargetAfter(dest)))

\* A block without terminator: the next instruction is a JUMPDEST, or the code ends.
FallOut ==
  /\ Live /\ inside
  /\ pc = blocks[at].end
  /\ LeaveBlock(locals, target, FallThrough(target))

\* STOP leaves its block for the exit block, where finish is called.
Finish == status' = "finished" /\ UNCHANGED <<at, pc>>
Stop ==
  /\ Live /\ inside
  /\ pc < blocks[at].end /\ Op = "STOP"
  /\ LeaveBlock(locals, target, Finish)

\* finish, revert, selfDestruct and unreachable end the contract before the
\* registers are stored.
Outcome(op) ==
  CASE op = "REVERT" -> "reverted" [] op = "INVALID" -> "trapped" [] OTHER -> "finished"

EndExecution ==
  /\ Live /\ inside
  /\ pc < blocks[at].end /\ Op \in Ending \ {"JUMP", "JUMPI", "STOP"}
  /\ status' = Outcome(Op)
  /\ UNCHANGED <<at, inside, pc, locals, mstk, sp, target>>

-----------------------------------------------------------------------------
Init ==
  /\ ScanInit /\ DryInit
  /\ queue = << [bb |-> 1, from |-> 0] >> /\ taken = << >>
  /\ at = 1 /\ inside = FALSE /\ pc = 0 /\ locals = << >>
  /\ mstk = [i \in 1..MstkWords |-> 0] /\ sp = 0 /\ target = 0
  /\ status = "running"

Compile ==
  \/ ScanNext /\ UNCHANGED <<dryVars, lowerVars, runVars>>
  \/ DryNext /\ UNCHANGED <<scanVars, lowerVars, runVars>>
  \/ (LowerSkip \/ LowerBlock) /\ UNCHANGED <<scanVars, dryVars, runVars>>

Run ==
  /\ Enter \/ Exec \/ Jump \/ JumpiTaken \/ JumpiNotTaken \/ FallOut \/ Stop \/ EndExecution
  /\ UNCHANGED <<scanVars, dryVars, lowerVars>>

Next == Compile \/ Run

Spec == Init /\ [][Next]_vars

\* Compiler and contract are sequential programs that nothing blocks.
FairSpec == Spec /\ WF_vars(Next)

-----------------------------------------------------------------------------
\* Block indices, pc and sp are in range: mstk is never read or written outside
\* its bounds by a contract that is still running.
TypeOK ==
  /\ ScanTypeOK
  /\ seen \subseteq 1..Len(blocks) /\ DOMAIN taken \subseteq 1..Len(blocks)
  /\ ~Scanning => at \in 1..Len(blocks)
  /\ pc \in 0..Len(code) /\ inside \in BOOLEAN
  /\ sp \in 0..MstkWords
  /\ status \in {"running", "finished", "reverted", "trapped", "undefined"}

\* ctxDep predicts a block's needs: inside a block GlobalStack never runs out
\* of registers, so the zeros it would hand out are never seen.
NeverPads ==
  Live /\ inside /\ pc < blocks[at].end =>
    LET need == CASE Op \in {"SWAP1", "SWAP2"} -> Rank(Op) + 1
                  [] Op \in {"DUP1", "DUP2"} -> Rank(Op)
                  [] Op = "POP" -> 1
                  [] Op = "ADD" -> 2
                  [] Op = "CODECOPY" -> 3
                  [] OTHER -> Operands(Op)
    IN Len(locals) >= need

\* Neither of the two places a stack item can be in, registers and mstk, is ever
\* read or written where it has no item or no room.
StackSound == TypeOK /\ NeverPads

Ended == status \notin {"running", "undefined"}

\* The EVM stack a state of the contract stands for.
StackView ==
  IF Ended THEN << >>
  ELSE SubSeq(mstk, 1, sp) \o IF inside THEN [i \in 1..Len(locals) |-> locals[i].v] ELSE << >>

StatusView ==
  CASE status = "undefined" -> "running"
    [] status \in {"reverted", "trapped"} -> "undone"
    [] OTHER -> status

Machine == INSTANCE EVM WITH stack <- StackView, status <- StatusView

\* The translated contract does what the EVM does with the bytecode, as long
\* as it stays inside mstk: registers handed from block to block, items
\* spilled to mstk and direct or table jumps never show.
ImplementsEVM == Machine!Spec

\* And it does not hang where the EVM goes on.
NeverHangs == <>[](status = "undefined") \/ Machine!Live

\* "If the last code block, that will be "stop" block." (resolveJumps): a
\* contract that runs off the end of its code stops.
RunsOffToStop ==
  [][pc = Len(code) /\ inside /\ ~inside' => status' = "finished"]_vars

\* dry_run_bb executes SWAPn as its comment describes it ("SWAP1: a b c d ->
\* a b d c"): the edges it records are the ones a jump to a constant takes.
DryRunFindsConstantJumps ==
  [][Live /\ inside /\ ~inside' /\ Op \in {"JUMP", "JUMPI"} /\ Top(locals).const
       /\ status' = "running" /\ at \in seen =>
       \E i \in 1..Len(edges) : edges[i] = <<at, at'>>]_vars
=============================================================================
