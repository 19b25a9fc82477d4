----------------------------- MODULE Hardening -----------------------------
(***************************************************************************)
(* The hardening passes of Optimizer.cpp, and contracts they changed.      *)
(*                                                                         *)
(* A contract is a control-flow graph of LLVM blocks.  Of a block only the *)
(* calls into the EEI are kept, by name; block Exit is what compileMain    *)
(* emits for STOP (finish with no data).  The reentrancy pass first looks  *)
(* for a store after an external call (DetectCalls, DetectBlock), then the *)
(* passes rewrite the graph, then the contract runs: frames of the         *)
(* contract "C", of foreign code "E" that may call it back, and of foreign *)
(* code "D" that the contract runs on its own storage.                     *)
(***************************************************************************)
EXTENDS Naturals, Sequences, FiniteSets

CONSTANTS
  NumBlocks,    \* the contract's blocks are 1..NumBlocks, 1 is main_Entry
  Contracts,    \* the contracts to harden
  OptionSets,   \* the Options given to prepare
  Libraries,    \* what code on the contract's storage writes: subsets of LibraryWrites
  MaxDepth,     \* bound on nested frames
  MaxWrites     \* bound on storage writes

Block == 1..NumBlocks
Op == {"call", "callCode", "callDelegate", "callStatic", "create", "create2",
       "storageStore", "finish", "revert", "selfDestruct", "unreachable"}
Leaves == {"finish", "revert", "selfDestruct", "unreachable"}
\* What runs foreign code, and what runs it on the contract's storage.
Calling == {"call", "callCode", "callDelegate", "callStatic", "create", "create2"}
Lending == {"callCode", "callDelegate"}
Creating == {"create", "create2"}
LibraryWrites == {"storage", "mutex"}
Pc == Block \X (Nat \ {0})

\* Blocks hold calls in order; a call that ends the message is its block's last.
Contract ==
  {c \in [code : [Block -> Seq(Op)], succ : [Block -> SUBSET Block]] :
     \A b \in Block : \A i \in 1..Len(c.code[b]) :
       c.code[b][i] \in Leaves => i = Len(c.code[b])}

Options == [checkReentrancy : BOOLEAN, EOAonly : BOOLEAN,
            checkSend : BOOLEAN, vulpc : Pc]

ASSUME HardeningAssumption ==
  /\ NumBlocks \in Nat \ {0} /\ MaxDepth \in Nat \ {0} /\ MaxWrites \in Nat
  /\ \A c \in Contracts : c \in Contract
  /\ OptionSets \subseteq Options /\ Libraries \subseteq SUBSET LibraryWrites

VARIABLES
  ir,        \* the contract's graph
  opts,      \* Options
  library,   \* what the code that the contract runs on its storage writes
  phase,     \* "calls", "dfs", "rewrite", "run"
  callList,  \* extCallList: blocks with an external call, in order
  fifo,      \* the DFS stack, top last
  visited,   \* blocks pushed once
  bug,       \* what detectBug returned
  frames,    \* the running message calls, innermost last
  world,     \* [mutex, version of the contract's other storage, doomed]
  stale      \* ghost: a write was based on storage a re-entrant frame changed

passVars == <<callList, fifo, visited, bug>>
runVars == <<frames, world, stale>>
vars == <<ir, opts, library, phase, passVars, runVars>>

World == [mutex : 0..1, version : 0..MaxWrites, doomed : BOOLEAN]
NotCalled == MaxWrites + 1

----------------------------------------------------------------------------
(* EstimateReenrancePass::detectBug *)

HasOp(b, op) == \E i \in 1..Len(ir.code[b]) : ir.code[b][i] = op

\* Only what is named ethereum.call: callCode, callDelegate, callStatic, create
\* and create2 are not seen.
IsExtCall(op) == op = "call"

CallThenStore(b) ==
  \E i, j \in 1..Len(ir.code[b]) :
    i < j /\ IsExtCall(ir.code[b][i]) /\ ir.code[b][j] = "storageStore"

CallBlocks == {b \in Block : \E i \in 1..Len(ir.code[b]) : IsExtCall(ir.code[b][i])}

\* The lists of the blocks of S; a terminator names its successors in any order.
Lists(S) == {s \in [1..Cardinality(S) -> S] : \A b \in S : \E i \in 1..Cardinality(S) : s[i] = b}

\* The list in the order of the function.
InOrder(S) == {s \in Lists(S) : \A i, j \in 1..Cardinality(S) : i < j => s[i] < s[j]}

\* The loop over all instructions: return at once on a store in a call's block.
DetectCalls ==
  /\ phase = "calls"
  /\ \/ /\ ~opts.checkReentrancy
        /\ phase' = "rewrite" /\ UNCHANGED <<callList, bug>>
     \/ /\ opts.checkReentrancy
        /\ \E b \in Block : CallThenStore(b)
        /\ bug' = TRUE /\ phase' = "rewrite" /\ UNCHANGED callList
     \/ /\ opts.checkReentrancy
        /\ \A b \in Block : ~CallThenStore(b)
        /\ callList' \in InOrder(CallBlocks) /\ phase' = "dfs" /\ UNCHANGED bug
  /\ UNCHANGED <<ir, opts, library, fifo, visited, runVars>>

DetectNextCall ==
  /\ phase = "dfs" /\ fifo = << >>
  /\ \/ /\ callList = << >>
        /\ phase' = "rewrite" /\ UNCHANGED <<callList, fifo>>
     \/ /\ callList # << >>
        /\ fifo' = <<Head(callList)>> /\ callList' = Tail(callList)
        /\ UNCHANGED phase
  /\ UNCHANGED <<ir, opts, library, visited, bug, runVars>>

Marks(dnode) == ir.succ[dnode]
UnvisitedLast(dnode) == {s \in ir.succ[dnode] \ visited : \A t \in ir.succ[dnode] : t <= s}
Unvisited(dnode) == ir.succ[dnode] \ visited

DetectBlock ==
  /\ phase = "dfs" /\ fifo # << >>
  /\ LET dnode == fifo[Len(fifo)]
     IN \/ /\ HasOp(dnode, "storageStore")
           /\ bug' = TRUE /\ phase' = "rewrite" /\ UNCHANGED <<fifo, visited>>
        \/ /\ ~HasOp(dnode, "storageStore")
           /\ \E pushed \in Lists(Unvisited(dnode)) :
                fifo' = SubSeq(fifo, 1, Len(fifo) - 1) \o pushed
           /\ visited' = visited \union Marks(dnode)
           /\ UNCHANGED <<bug, phase>>
  /\ UNCHANGED <<ir, opts, library, callList, runVars>>

----------------------------------------------------------------------------
(* The passes, in the order prepare adds them.  "check", "lock", "unlock"  *)
(* stand for the code on the mutex slot, "origin" for the comparison of    *)
(* caller and origin, "require" for the test of a call's result.           *)

GuardedInverted == opts.checkReentrancy /\ ~bug
Guarded == opts.checkReentrancy /\ bug

IsReleasingRevert(op) == op = "revert"
IsReleasing(op) == op \in {"finish", "revert"}

Locked == 1

Prologue ==
  (IF opts.EOAonly THEN <<"origin">> ELSE << >>)
  \o (IF Guarded THEN <<"check", "lock">> ELSE << >>)

Rewritten(b, i) ==
  LET op == ir.code[b][i]
  IN (IF Guarded /\ IsReleasing(op) THEN <<"unlock", op>> ELSE <<op>>)
     \o (IF opts.checkSend /\ IsExtCall(op) /\ opts.vulpc = <<b, i>>
         THEN <<"require">> ELSE << >>)

\* What the frame at position pos runs next: pos is <<block, index, part>>,
\* block 0 is the prologue.
Here(f) == IF f.blk = 0 THEN Prologue ELSE Rewritten(f.blk, f.idx)
AtEnd(f) == IF f.blk = 0 THEN f.part > Len(Prologue) ELSE f.idx > Len(ir.code[f.blk])
OpOf(f) == Here(f)[f.part]

StartRun ==
  /\ phase = "rewrite" /\ phase' = "run"
  /\ UNCHANGED <<ir, opts, library, passVars, runVars>>

----------------------------------------------------------------------------
(* Message calls of the contract and of foreign code *)

\* eoa: the frame's caller is the account that sent the transaction.
NewFrame(who, static, eoa, w) ==
  [who |-> who, blk |-> 0, idx |-> 1, part |-> 1, static |-> static, eoa |-> eoa,
   snap |-> w, ok |-> TRUE, seen |-> NotCalled]

Top == frames[Len(frames)]
Below == SubSeq(frames, 1, Len(frames) - 1)
Running == phase = "run" /\ frames # << >>
InC == Running /\ Top.who = "C"
OpIs(op) == InC /\ ~AtEnd(Top) /\ OpOf(Top) = op

Advanced(f) ==
  IF f.part < Len(Here(f)) \/ f.blk = 0
  THEN [f EXCEPT !.part = @ + 1]
  ELSE [f EXCEPT !.idx = @ + 1, !.part = 1]

\* The innermost frame ended: its caller learns whether it succeeded.
Popped(ok) ==
  IF Below = << >> THEN << >>
  ELSE [Below EXCEPT ![Len(Below)].ok = ok]

Unchanging == UNCHANGED <<ir, opts, library, phase, passVars>>

\* A transaction: an account calls the contract or foreign code.
Transaction ==
  /\ phase = "run" /\ frames = << >> /\ ~world.doomed
  /\ \E who \in {"C", "E"} : frames' = <<NewFrame(who, FALSE, TRUE, world)>>
  /\ Unchanging /\ UNCHANGED <<world, stale>>

\* A failed frame: the host restores the state of before the call.
Fail ==
  /\ frames' = Popped(FALSE)
  /\ world' = Top.snap
  /\ UNCHANGED stale

Succeed ==
  /\ frames' = Popped(TRUE)
  /\ UNCHANGED <<world, stale>>

StepTo(f) == frames' = [frames EXCEPT ![Len(frames)] = f]

\* EstimateRollbackPass: only an externally owned account is its own origin.
OriginIgnored ==
  /\ OpIs("origin") /\ Unchanging
  /\ StepTo(Advanced(Top)) /\ UNCHANGED <<world, stale>>
Origin ==
  /\ OpIs("origin") /\ Unchanging
  /\ \/ Top.eoa /\ StepTo(Advanced(Top)) /\ UNCHANGED <<world, stale>>
     \/ ~Top.eoa /\ Fail

CheckMutexNever ==
  /\ OpIs("check") /\ Unchanging
  /\ StepTo(Advanced(Top)) /\ UNCHANGED <<world, stale>>
CheckMutex ==
  /\ OpIs("check") /\ Unchanging
  /\ \/ world.mutex = 0 /\ StepTo(Advanced(Top)) /\ UNCHANGED <<world, stale>>
     \/ world.mutex # 0 /\ Fail

\* A store to the mutex slot fails like any other store in a static call.
SetMutex ==
  /\ OpIs("lock") \/ OpIs("unlock")
  /\ Unchanging
  /\ \/ Top.static /\ Fail
     \/ /\ ~Top.static
        /\ world' = [world EXCEPT !.mutex = IF OpIs("lock") THEN Locked ELSE 0]
        /\ StepTo(Advanced(Top)) /\ UNCHANGED stale

StorageStore ==
  /\ OpIs("storageStore") /\ Unchanging
  /\ \/ Top.static /\ Fail
     \/ /\ ~Top.static /\ world.version < MaxWrites
        /\ world' = [world EXCEPT !.version = @ + 1]
        /\ stale' = (stale \/ Top.seen \notin {NotCalled, world.version})
        /\ StepTo([Advanced(Top) EXCEPT
             !.seen = IF @ = NotCalled THEN @ ELSE world.version + 1])

\* Foreign code runs: in its own account, in a new one, or on the contract's
\* storage; a delegate call keeps the caller.  The host may refuse the call:
\* too deep, or too little balance.  Nothing is created in a static call.
Callee(op) ==
  NewFrame(IF op \in Lending THEN "D" ELSE "E", Top.static \/ op = "callStatic",
           op = "callDelegate" /\ Top.eoa, world)
Call ==
  \E op \in Calling :
    /\ OpIs(op) /\ Unchanging
    /\ LET f == [Advanced(Top) EXCEPT !.seen = IF @ = NotCalled THEN world.version ELSE @]
       IN \/ op \in Creating /\ Top.static /\ Fail
          \/ /\ ~(op \in Creating /\ Top.static) /\ Len(frames) < MaxDepth
             /\ frames' = Append([frames EXCEPT ![Len(frames)] = f], Callee(op))
             /\ UNCHANGED <<world, stale>>
          \/ /\ ~(op \in Creating /\ Top.static)
             /\ StepTo([f EXCEPT !.ok = FALSE]) /\ UNCHANGED <<world, stale>>

Require ==
  /\ OpIs("require") /\ Unchanging
  /\ \/ Top.ok /\ StepTo(Advanced(Top)) /\ UNCHANGED <<world, stale>>
     \/ ~Top.ok /\ Fail

\* The account is deleted when the transaction ends; until then it still runs.
SelfDestruct ==
  /\ OpIs("selfDestruct") /\ Unchanging
  /\ \/ Top.static /\ Fail
     \/ /\ ~Top.static
        /\ world' = [world EXCEPT !.doomed = TRUE]
        /\ frames' = Popped(TRUE) /\ UNCHANGED stale

Finish == OpIs("finish") /\ Unchanging /\ Succeed
RevertOrTrap == (OpIs("revert") \/ OpIs("unreachable")) /\ Unchanging /\ Fail

\* A branch to a successor; the prologue falls into the original entry block.
Branch ==
  /\ InC /\ AtEnd(Top) /\ Unchanging /\ UNCHANGED <<world, stale>>
  /\ \E b \in (IF Top.blk = 0 THEN {1} ELSE ir.succ[Top.blk]) :
       StepTo([Top EXCEPT !.blk = b, !.idx = 1, !.part = 1])

\* The gas runs out, in the body or before.
OutOfGas == InC /\ Unchanging /\ Fail

\* Foreign code calls the contract, or ends.
Foreign ==
  /\ Running /\ Top.who # "C" /\ Unchanging
  /\ \/ /\ Len(frames) < MaxDepth
        /\ \E static \in {Top.static, TRUE} :
             frames' = Append(frames, NewFrame("C", static, FALSE, world))
        /\ UNCHANGED <<world, stale>>
     \/ Succeed
     \/ Fail

\* Code on the contract's storage writes it, the mutex slot included, delegates
\* back to the contract, which keeps the caller, or destroys it.
Library ==
  /\ Running /\ Top.who = "D" /\ Unchanging /\ UNCHANGED stale
  /\ \/ /\ ~Top.static /\ "storage" \in library /\ world.version < MaxWrites
        /\ world' = [world EXCEPT !.version = @ + 1] /\ UNCHANGED frames
     \/ /\ ~Top.static /\ "mutex" \in library
        /\ \E m \in 0..1 : world' = [world EXCEPT !.mutex = m]
        /\ UNCHANGED frames
     \/ /\ Len(frames) < MaxDepth
        /\ frames' = Append(frames, NewFrame("C", Top.static, Top.eoa, world))
        /\ UNCHANGED world
     \/ /\ ~Top.static
        /\ world' = [world EXCEPT !.doomed = TRUE] /\ frames' = Popped(TRUE)

\* A contract that lends its storage to nobody has no library.
Lends(c) == \E b \in Block : \E i \in 1..Len(c.code[b]) : c.code[b][i] \in Lending

Init ==
  /\ ir \in Contracts /\ opts \in OptionSets
  /\ library \in IF Lends(ir) THEN Libraries ELSE {{}}
  /\ phase = "calls" /\ callList = << >> /\ fifo = << >> /\ visited = {}
  /\ bug = FALSE
  /\ frames = << >> /\ stale = FALSE
  /\ world = [mutex |-> 0, version |-> 0, doomed |-> FALSE]

Next ==
  \/ DetectCalls \/ DetectNextCall \/ DetectBlock \/ StartRun
  \/ Transaction \/ Foreign \/ Library \/ OutOfGas
  \/ Origin \/ CheckMutex \/ SetMutex \/ Require
  \/ StorageStore \/ Call \/ SelfDestruct \/ Finish \/ RevertOrTrap \/ Branch

Spec == Init /\ [][Next]_vars

----------------------------------------------------------------------------
(* Properties *)

Frame == [who : {"C", "D", "E"}, blk : 0..NumBlocks, idx : Nat \ {0}, part : Nat \ {0},
          static : BOOLEAN, eoa : BOOLEAN, snap : World, ok : BOOLEAN, seen : 0..NotCalled]

TypeOK ==
  /\ ir \in Contract /\ opts \in Options /\ library \subseteq LibraryWrites
  /\ phase \in {"calls", "dfs", "rewrite", "run"}
  /\ callList \in Seq(Block) /\ fifo \in Seq(Block) /\ visited \subseteq Block
  /\ bug \in BOOLEAN /\ stale \in BOOLEAN
  /\ frames \in Seq(Frame) /\ world \in World

\* The blocks a branch leads to from b, b included: the least closed set.
Reachable(b) ==
  {x \in Block : \A S \in SUBSET Block :
     b \in S /\ (\A y \in S : ir.succ[y] \subseteq S) => x \in S}

\* detectBug answers exactly whether a block with a store can be reached from
\* a block with an external call, although visited is shared by all searches.
DetectExact ==
  phase \in {"rewrite", "run"} /\ opts.checkReentrancy =>
    (bug <=> \E b \in CallBlocks : \E x \in Reachable(b) : HasOp(x, "storageStore"))

\* Between the lock of the prologue and the unlock before finish or revert.
Inside(f) ==
  /\ f.who = "C"
  /\ f.blk # 0 \/ f.part > Len(Prologue)
  /\ ~(f.blk # 0 /\ f.part = 2 /\ f.idx <= Len(ir.code[f.blk]) /\ Here(f)[1] = "unlock")

\* The mutex keeps a second frame of a guarded contract out of its body,
\* whatever foreign code does during an external call, a creation or, unless it
\* writes the mutex slot itself, on the contract's storage.
GuardExcludes ==
  Guarded /\ phase = "run" /\ "mutex" \notin library =>
    \A i, j \in 1..Len(frames) : Inside(frames[i]) /\ Inside(frames[j]) => i = j

\* What runs foreign code that may write, and is no external call to detectBug.
Unseen == {op \in Calling \ {"callStatic"} : ~IsExtCall(op)}

\* What the pass is for: a contract compiled with check-reentrancy never
\* writes storage after it ran foreign code during which its storage changed.
\* There are two exceptions: code it delegates to writes its storage itself, or
\* the analysis left it unguarded because what runs the foreign code is a
\* creation, a delegate call or a callCode, none of which it looks for.
NoStaleWrite ==
  opts.checkReentrancy /\ stale =>
    \/ library # {}
    \/ ~Guarded /\ \E b \in Block : \E op \in Unseen : HasOp(b, op)

\* The mutex is taken only while a frame of the contract is in its body, so
\* nobody is locked out for good, unless code it delegates to writes the slot; a
\* contract that was destroyed is about to lose its storage and is exempt.
MutexReleased ==
  Guarded /\ phase = "run" /\ "mutex" \notin library /\ world.mutex = 1 /\ ~world.doomed =>
    \E i \in 1..Len(frames) : Inside(frames[i])

\* With EOAonly the body of the contract runs in the outermost frame only, but
\* for a contract that an account called and that then delegates, to code that
\* delegates back to it.
OnlyAccountsEnter ==
  opts.EOAonly /\ phase = "run" =>
    \A i \in 2..Len(frames) :
      frames[i].who = "C" /\ frames[i].blk # 0 =>
        frames[1].who = "C" /\ \E b \in Block : HasOp(b, "callDelegate")

\* With check-send a contract never runs on after the call at vulpc failed.
SendChecked ==
  opts.checkSend /\ phase = "run" =>
    \A i \in 1..Len(frames) :
      LET f == frames[i]
      IN f.who = "C" /\ f.blk # 0 /\ f.blk = opts.vulpc[1]
         /\ f.idx = opts.vulpc[2] + 1
         /\ IsExtCall(ir.code[f.blk][f.idx - 1]) /\ i = Len(frames)
         => f.ok

\* The two checks that the passes insert beside the mutex hold for the rest of
\* the message: whoever calls back, and however the call at vulpc ends.
ChecksHold == TypeOK /\ OnlyAccountsEnter /\ SendChecked
=============================================================================
