------------------------------- MODULE DryRun -------------------------------
(***************************************************************************)
(* WASMCompiler::dry_run: once the blocks are known, a depth-first walk    *)
(* that executes them on a stack of constants (0 for anything unknown) and *)
(* records the edges it finds between blocks.  One step is one iteration   *)
(* of its loop.  Blocks are named by their index, 0 is nullptr.            *)
(***************************************************************************)
EXTENDS Blocks, SequencesExt

VARIABLES
  dfs,    \* the work list, top last: a block and the stack it is entered with
  seen,   \* dry_run's visited
  edges   \* bbs_to and bbs_from: pairs <<from, to>> in the order they are found

dryVars == <<dfs, seen, edges>>

\* The instructions of a block, in order.
InstrsOf(b) ==
  LET walk[p \in 0..Len(code)] ==
        IF p >= blocks[b].end THEN << >> ELSE <<p>> \o walk[NextPc(code, p)]
  IN walk[blocks[b].first]

FirstOp(b) == OpAt(code, blocks[b].first)

\* idxMap
BlockAt(p) ==
  IF \E b \in 1..Len(blocks) : blocks[b].first = p
  THEN CHOOSE b \in 1..Len(blocks) : blocks[b].first = p
  ELSE 0

balanced_stk(stk, out, in) ==
  SubSeq(stk, 1, Len(stk) - out) \o [i \in 1..in |-> 0]

\* The item dry_run_bb's SWAPn exchanges with the top, counted from the top.
SwapDepth(op) == Rank(op) + 1

\* One instruction of dry_run_bb.
DryStep(stk, p) ==
  LET op == OpAt(code, p)
      n == Rank(op)
      top == Len(stk)
  IN CASE op \in {"PUSH1", "PUSH2"} -> Append(stk, PushData(code, p))
       [] op \in {"STOP", "JUMP", "JUMPI", "INVALID"} -> stk
       [] op \in {"DUP1", "DUP2"} ->
            Append(stk, IF top >= n THEN stk[top - n + 1] ELSE 0)
       [] op \in {"SWAP1", "SWAP2"} ->
            IF top > SwapDepth(op)
            THEN [stk EXCEPT ![top] = stk[top - SwapDepth(op)],
                             ![top - SwapDepth(op)] = stk[top]]
            ELSE stk
       [] OTHER -> balanced_stk(stk, StackOut(op), StackIn(op))

dry_run_bb(b, stk) == FoldLeft(DryStep, stk, InstrsOf(b))

\* terminator(): the last byte of the block, be it push data.
Terminator(b) == OpAt(code, blocks[b].end - 1)

JumpTarget(stk) ==
  LET b == BlockAt(IF stk = << >> THEN 0 ELSE Last(stk))
  IN IF b # 0 /\ FirstOp(b) = "JUMPDEST" THEN b ELSE 0

Fallout(b) ==
  LET next == BlockAt(blocks[b].end)
  IN IF next # 0 /\ FirstOp(next) # "INVALID" THEN next ELSE 0

Visit(b, stk) == IF b = 0 THEN << >> ELSE << [bb |-> b, stk |-> stk] >>

DrySkip ==
  /\ ~Scanning /\ dfs # << >>
  /\ Last(dfs).bb \in seen
  /\ dfs' = Front(dfs)
  /\ UNCHANGED <<seen, edges>>

DryVisit ==
  LET b == Last(dfs).bb
      stk == dry_run_bb(b, Last(dfs).stk)
      to == JumpTarget(stk)
      fall == Fallout(b)
  IN /\ ~Scanning /\ dfs # << >>
     /\ b \notin seen
     /\ seen' = seen \union {b}
     /\ \/ /\ Terminator(b) = "JUMP"
           /\ edges' = Append(edges, <<b, to>>)
           /\ dfs' = Front(dfs) \o Visit(to, balanced_stk(stk, 1, 0))
        \/ /\ Terminator(b) = "JUMPI"
           /\ edges' = edges \o << <<b, fall>>, <<b, to>> >>
           /\ dfs' = Front(dfs) \o Visit(fall, balanced_stk(stk, 2, 0))
                                \o Visit(to, balanced_stk(stk, 2, 0))
        \/ /\ Terminator(b) \notin {"JUMP", "JUMPI"}
           /\ dfs' = Front(dfs)
           /\ UNCHANGED edges

DryInit == dfs = << [bb |-> 1, stk |-> << >>] >> /\ seen = {} /\ edges = << >>

DryNext == DrySkip \/ DryVisit

DryDone == ~Scanning /\ dfs = << >>
=============================================================================
