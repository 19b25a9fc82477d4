-------------------------- MODULE HardeningProofs --------------------------
(***************************************************************************)
(* For every contract, every options and foreign code that calls back as   *)
(* deep and as often as it likes: detectBug is exact, the mutex it leads   *)
(* to keeps a second frame out and is given back, and the checks that the  *)
(* other passes insert hold.                                               *)
(***************************************************************************)
EXTENDS Hardening, FiniteSetTheorems, TLAPS

----------------------------------------------------------------------------
(* The invariant of the analysis *)

\* The blocks to which an external call can lead.
AfterCall == {x \in Block : \E b \in CallBlocks : x \in Reachable(b)}

Stores == {x \in Block : HasOp(x, "storageStore")}

\* The blocks the search is done with: no store, all successors marked.
Searched == {x \in Block \ Stores : ir.succ[x] \subseteq visited}

Listed(s) == {s[i] : i \in 1..Len(s)}

\* What is on a list can be reached from a call, and what can be reached from
\* a call is searched, on a list, or behind what is on a list.
SearchInv ==
  /\ bug = FALSE
  /\ Listed(fifo) \subseteq AfterCall /\ Listed(callList) \subseteq CallBlocks
  /\ visited \subseteq Searched \union Listed(fifo)
  /\ CallBlocks \subseteq Searched \union Listed(fifo) \union Listed(callList)

DetectInv ==
  /\ phase = "calls" => bug = FALSE /\ visited = {} /\ fifo = << >>
  /\ phase = "dfs" => SearchInv
  /\ DetectExact

----------------------------------------------------------------------------
(* The invariant of the run, of the stack r, the storage w and stale t *)

\* Where a frame of the contract can be.
Placed(f) ==
  f.who = "C" =>
    /\ f.blk = 0 => f.part <= Len(Prologue) + 1 /\ f.seen = NotCalled
    /\ f.blk # 0 /\ f.idx <= Len(ir.code[f.blk]) => f.part <= Len(Rewritten(f.blk, f.idx))
    /\ f.blk # 0 /\ f.idx > Len(ir.code[f.blk]) => f.part = 1 /\ f.idx = Len(ir.code[f.blk]) + 1

\* A frame that waits for a call it made is in the contract's body.
Waiting(f) == f.who = "C" => f.blk # 0 /\ Inside(f)

\* Behind the call at vulpc.
Sent(f) ==
  /\ f.who = "C" /\ f.blk # 0 /\ f.blk = opts.vulpc[1] /\ f.idx = opts.vulpc[2] + 1
  /\ IsExtCall(ir.code[f.blk][f.idx - 1])

\* About to lock.
Locking(f) == f.who = "C" /\ f.blk = 0 /\ f.part = Len(Prologue)

FramesInv(r) ==
  /\ \A i \in 1..Len(r) : Placed(r[i])
  /\ \A i \in 1..Len(r) : i < Len(r) => Waiting(r[i])

\* The mutex is there and foreign code leaves it alone.
Safe == Guarded /\ "mutex" \notin library

\* The mutex of w tells whether one of the first k frames is in the body, and
\* w has the version that a frame in the body has last seen, if only the
\* contract writes.
Agrees(r, w, k) ==
  /\ w.mutex = 0 => \A i \in 1..k : ~Inside(r[i])
  /\ w.mutex = 1 /\ ~w.doomed => \E i \in 1..k : Inside(r[i])
  /\ library = {} => \A i \in 1..k : Inside(r[i]) => r[i].seen \in {NotCalled, w.version}

\* The storage agrees with the frames, and so does what the host would restore
\* for each frame; one frame at most is in the body, and a frame about to lock
\* finds the mutex free.
MutexInv(r, w) ==
  /\ Agrees(r, w, Len(r))
  /\ \A k \in 1..Len(r) : Agrees(r, r[k].snap, k - 1)
  /\ \A i, j \in 1..Len(r) : Inside(r[i]) /\ Inside(r[j]) => i = j
  /\ \A k \in 1..Len(r) : Locking(r[k]) => w.mutex = 0

\* Without a mutex a frame that has called can no longer store, unless it called
\* only what could not write either.
Unguarded ==
  /\ opts.checkReentrancy /\ ~bug /\ library = {}
  /\ \A b \in Block : \A op \in Unseen : ~HasOp(b, op)
Quiet(f) == f.who = "C" /\ f.blk \notin AfterCall
Fresh(f, w) == Quiet(f) => f.seen \in {NotCalled, w.version}
QuietInv(r, w) ==
  /\ \A i \in 1..Len(r) : Fresh(r[i], w)
  /\ \A k \in 1..Len(r) : \A i \in 1..(k - 1) :
       Fresh(r[i], r[k].snap) /\ (Quiet(r[i]) => r[k].static)

\* An account called the contract, and the contract delegates.
Delegated(r) == r[1].who = "C" /\ \E b \in Block : HasOp(b, "callDelegate")

ChecksInv(r) ==
  /\ opts.EOAonly =>
       \A i \in 1..Len(r) : r[i].who = "C" => (r[i].blk = 0 /\ r[i].part = 1) \/ r[i].eoa
  /\ \A i \in 1..Len(r) : i # 1 /\ r[i].eoa => Delegated(r)
  /\ \A i \in 1..Len(r) : r[i].who = "D" => i # 1
  /\ opts.checkSend => \A i \in 1..Len(r) : Sent(r[i]) => r[i].ok /\ i = Len(r)

RunInv(r, w, t) ==
  /\ r \in Seq(Frame) /\ w \in World
  /\ FramesInv(r) /\ ChecksInv(r)
  /\ Safe => MutexInv(r, w)
  /\ Guarded /\ library = {} => t = FALSE
  /\ Unguarded => QuietInv(r, w) /\ t = FALSE

\* Nothing runs before the passes are done.
Idle == frames = << >> /\ stale = FALSE /\ world = [mutex |-> 0, version |-> 0, doomed |-> FALSE]

Inv ==
  /\ TypeOK /\ DetectInv
  /\ phase # "run" => Idle
  /\ RunInv(frames, world, stale)

----------------------------------------------------------------------------
(* detectBug *)

\* Blocks hold lists of calls and lead to blocks.
LEMMA IrFacts ==
  ASSUME TypeOK, NEW b \in Block
  PROVE  /\ ir.code[b] \in Seq(Op) /\ ir.succ[b] \subseteq Block
         /\ \A i \in 1..Len(ir.code[b]) : ir.code[b][i] \in Op
BY DEF TypeOK, Contract

\* A list of blocks has each of them, and only those.
LEMMA ListFacts ==
  ASSUME NEW S \in SUBSET Block, NEW s \in Lists(S)
  PROVE  s \in Seq(S) /\ Listed(s) = S
<1>1. IsFiniteSet(Block)
  BY FS_Interval, HardeningAssumption DEF Block
<1>2. IsFiniteSet(S)
  BY <1>1, FS_Subset
<1>3. Cardinality(S) \in Nat
  BY <1>2, FS_CardinalityType
<1> HIDE DEF Block
<1> DEFINE n == Cardinality(S)
<1>4. s \in [1..n -> S] /\ \A b \in S : \E i \in 1..n : s[i] = b
  BY DEF Lists
<1>5. n \in Nat
  BY <1>3
<1> HIDE DEF n
<1>6. Len(s) = n /\ s \in Seq(S)
  BY <1>4, <1>5
<1>7. Listed(s) = S
  BY <1>4, <1>5, <1>6 DEF Listed
<1> QED BY <1>6, <1>7

\* Reachable is closed under branches.
LEMMA ReachableClosed ==
  ASSUME TypeOK, NEW b \in Block
  PROVE  /\ b \in Reachable(b)
         /\ \A x \in Reachable(b) : ir.succ[x] \subseteq Reachable(b)
<1>1. b \in Reachable(b)
  BY DEF Reachable
<1>2. ASSUME NEW x \in Reachable(b), NEW y \in ir.succ[x] PROVE y \in Reachable(b)
  <2>1. x \in Block
    BY DEF Reachable
  <2>2. y \in Block
    BY <2>1, IrFacts
  <2>3. ASSUME NEW S \in SUBSET Block, b \in S, \A z \in S : ir.succ[z] \subseteq S PROVE y \in S
    <3>1. x \in S
      BY <2>3 DEF Reachable
    <3> QED BY <2>3, <3>1
  <2> QED BY <2>2, <2>3 DEF Reachable
<1> QED BY <1>1, <1>2

\* So is what an external call can lead to.
LEMMA AfterCallClosed ==
  ASSUME TypeOK
  PROVE  /\ CallBlocks \subseteq AfterCall
         /\ \A x \in AfterCall : ir.succ[x] \subseteq AfterCall
<1>1. CallBlocks \subseteq AfterCall
  BY ReachableClosed DEF AfterCall, CallBlocks
<1>2. ASSUME NEW x \in AfterCall PROVE ir.succ[x] \subseteq AfterCall
  <2>1. PICK b \in CallBlocks : x \in Reachable(b)
    BY DEF AfterCall
  <2>2. b \in Block /\ x \in Block
    BY DEF AfterCall, CallBlocks
  <2> QED BY <2>1, <2>2, ReachableClosed, IrFacts DEF AfterCall
<1> QED BY <1>1, <1>2

\* A closed set with all calls and no store contains all that calls lead to.
LEMMA ClosedSet ==
  ASSUME TypeOK, NEW S \in SUBSET Block, CallBlocks \subseteq S, \A x \in S : ir.succ[x] \subseteq S
  PROVE  AfterCall \subseteq S
BY DEF AfterCall, Reachable

\* DetectExact in terms of AfterCall.
BugMeans == bug <=> AfterCall \intersect Stores # {}

\* The two say the same once the search is over.
LEMMA ExactMeans == (phase \in {"rewrite", "run"} /\ opts.checkReentrancy => BugMeans) <=> DetectExact
BY DEF DetectExact, AfterCall, Reachable, CallBlocks, Stores, BugMeans

\* A contract keeps its blocks while the passes look at it.
LEMMA Fixed ==
  ASSUME ir' = ir
  PROVE  CallBlocks' = CallBlocks /\ AfterCall' = AfterCall /\ Stores' = Stores
<1>1. CallBlocks' = CallBlocks /\ Stores' = Stores
  BY DEF CallBlocks, Stores, HasOp, IsExtCall
<1>2. ASSUME NEW b PROVE Reachable(b)' = Reachable(b)
  BY DEF Reachable
<1>3. AfterCall' = AfterCall
  BY <1>1, <1>2 DEF AfterCall
<1> QED BY <1>1, <1>3

\* Before anything runs the invariant of the run holds.
LEMMA IdleRun == TypeOK /\ Idle => RunInv(frames, world, stale)
BY HardeningAssumption
DEF Idle, TypeOK, RunInv, FramesInv, ChecksInv, MutexInv, QuietInv, Agrees

\* The loop over all calls.
LEMMA CallsStep ==
  ASSUME Inv, DetectCalls
  PROVE  TypeOK' /\ DetectInv' /\ Idle'
<1>0. TypeOK /\ DetectInv /\ Idle /\ phase = "calls" /\ bug = FALSE /\ visited = {} /\ fifo = << >>
  BY DEF Inv, DetectCalls, DetectInv
<1>1. ir' = ir /\ opts' = opts /\ library' = library /\ visited' = visited /\ fifo' = fifo /\ Idle'
  BY <1>0 DEF DetectCalls, runVars, Idle
<1>2. CallBlocks' = CallBlocks /\ AfterCall' = AfterCall /\ Stores' = Stores
  BY <1>1, Fixed
<1>3. CASE ~opts.checkReentrancy /\ phase' = "rewrite" /\ UNCHANGED <<callList, bug>>
  <2>1. TypeOK'
    BY <1>0, <1>1, <1>3 DEF TypeOK, Idle
  <2> QED BY <1>1, <1>3, <2>1 DEF DetectInv, DetectExact
<1>4. CASE /\ \E b \in Block : CallThenStore(b)
           /\ bug' = TRUE /\ phase' = "rewrite" /\ UNCHANGED callList
  <2>1. TypeOK'
    BY <1>0, <1>1, <1>4 DEF TypeOK, Idle
  <2>2. PICK b \in Block : CallThenStore(b)
    BY <1>4
  <2>3. b \in CallBlocks /\ b \in Stores
    BY <2>2 DEF CallThenStore, CallBlocks, Stores, HasOp
  <2>4. AfterCall' \intersect Stores' # {}
    BY <1>0, <1>2, <2>3, AfterCallClosed
  <2>5. DetectExact'
    <3>1. BugMeans'
      BY <1>4, <2>4 DEF BugMeans
    <3> QED BY <3>1, ExactMeans, PTL
  <2> QED BY <1>1, <1>4, <2>1, <2>5 DEF DetectInv
<1>5. CASE callList' \in InOrder(CallBlocks) /\ phase' = "dfs" /\ UNCHANGED bug
  <2>1. CallBlocks \subseteq Block
    BY DEF CallBlocks
  <2>2. callList' \in Lists(CallBlocks)
    BY <1>5 DEF InOrder
  <2>3. callList' \in Seq(CallBlocks) /\ Listed(callList') = CallBlocks
    BY <2>1, <2>2, ListFacts
  <2>4. callList' \in Seq(Block)
    BY <2>1, <2>3
  <2>5. TypeOK'
    BY <1>0, <1>1, <1>5, <2>4 DEF TypeOK, Idle
  <2>6. Listed(callList)' = CallBlocks /\ Listed(fifo)' = {}
    BY <1>0, <1>1, <2>3 DEF Listed
  <2>7. SearchInv'
    BY <1>0, <1>1, <1>2, <1>5, <2>6 DEF SearchInv
  <2> QED BY <1>1, <1>5, <2>5, <2>7 DEF DetectInv, DetectExact
<1> QED BY <1>3, <1>4, <1>5 DEF DetectCalls

\* The next call, or the end of the search.
LEMMA NextCallStep ==
  ASSUME Inv, DetectNextCall
  PROVE  TypeOK' /\ DetectInv' /\ Idle'
<1>0. TypeOK /\ SearchInv /\ Idle /\ phase = "dfs" /\ fifo = << >>
  BY DEF Inv, DetectNextCall, DetectInv
<1>1. ir' = ir /\ opts' = opts /\ library' = library /\ visited' = visited /\ bug' = bug /\ Idle'
  BY <1>0 DEF DetectNextCall, runVars, Idle
<1>2. CallBlocks' = CallBlocks /\ AfterCall' = AfterCall /\ Stores' = Stores
  BY <1>1, Fixed
<1>3. Listed(fifo) = {} /\ bug = FALSE /\ callList \in Seq(Block)
  BY <1>0 DEF Listed, SearchInv, TypeOK
<1>4. CASE callList = << >> /\ phase' = "rewrite" /\ UNCHANGED <<callList, fifo>>
  <2>1. TypeOK'
    BY <1>0, <1>1, <1>4 DEF TypeOK, Idle
  <2>2. Listed(callList) = {}
    BY <1>4 DEF Listed
  <2>3. visited \subseteq Searched /\ CallBlocks \subseteq Searched
    BY <1>0, <1>3, <2>2 DEF SearchInv
  <2>4. Searched \subseteq Block /\ \A x \in Searched : ir.succ[x] \subseteq Searched
    BY <2>3 DEF Searched
  <2>5. AfterCall \subseteq Searched
    BY <1>0, <2>3, <2>4, ClosedSet
  <2>6. AfterCall' \intersect Stores' = {}
    BY <1>2, <2>5 DEF Searched
  <2>7. DetectExact'
    <3>1. BugMeans'
      BY <1>1, <1>3, <2>6 DEF BugMeans
    <3> QED BY <3>1, ExactMeans, PTL
  <2> QED BY <1>1, <1>4, <2>1, <2>7 DEF DetectInv
<1>5. CASE /\ callList # << >> /\ fifo' = <<Head(callList)>> /\ callList' = Tail(callList)
           /\ UNCHANGED phase
  <2>1. Head(callList) \in Listed(callList) /\ Head(callList) \in Block
    BY <1>3, <1>5 DEF Listed
  <2>2. Listed(fifo)' = {Head(callList)}
    BY <1>5 DEF Listed
  <2>3. Listed(callList)' \subseteq Listed(callList)
    <3>1. SUFFICES ASSUME NEW i \in 1..Len(Tail(callList))
                   PROVE  Tail(callList)[i] \in Listed(callList)
      BY <1>5 DEF Listed
    <3>2. i + 1 \in 1..Len(callList) /\ Tail(callList)[i] = callList[i + 1]
      BY <1>3, <1>5, <3>1
    <3> QED BY <3>2 DEF Listed
  <2>4. Listed(callList) \subseteq Listed(callList)' \union {Head(callList)}
    <3>1. SUFFICES ASSUME NEW i \in 1..Len(callList), i # 1
                   PROVE  callList[i] \in Listed(callList)'
      <4>1. Head(callList) = callList[1]
        BY <1>3, <1>5
      <4> QED BY <4>1, Zenon DEF Listed
    <3>2. i - 1 \in 1..Len(Tail(callList)) /\ Tail(callList)[i - 1] = callList[i]
      BY <1>3, <1>5, <3>1
    <3> QED BY <1>5, <3>2 DEF Listed
  <2>5. TypeOK'
    <3>1. fifo' \in Seq(Block) /\ callList' \in Seq(Block)
      BY <1>3, <1>5, <2>1
    <3> QED BY <1>0, <1>1, <1>5, <3>1 DEF TypeOK, Idle
  <2>6. Head(callList) \in CallBlocks /\ Head(callList) \in AfterCall
    BY <1>0, <2>1, AfterCallClosed DEF SearchInv
  <2>7. Searched' = Searched
    BY <1>1, <1>2 DEF Searched
  <2>8. SearchInv'
    <3>1. Listed(fifo)' \subseteq AfterCall' /\ Listed(callList)' \subseteq CallBlocks'
      BY <1>0, <1>2, <2>2, <2>3, <2>6 DEF SearchInv
    <3>2. visited' \subseteq Searched' /\ CallBlocks' \subseteq Searched' \union Listed(fifo)' \union Listed(callList)'
      BY <1>0, <1>1, <1>2, <1>3, <2>2, <2>4, <2>7 DEF SearchInv
    <3> QED BY <1>1, <1>3, <3>1, <3>2 DEF SearchInv
  <2> QED BY <1>0, <1>1, <1>5, <2>5, <2>8 DEF DetectInv, DetectExact
<1> QED BY <1>4, <1>5 DEF DetectNextCall

\* A block of the search.
LEMMA BlockStep ==
  ASSUME Inv, DetectBlock
  PROVE  TypeOK' /\ DetectInv' /\ Idle'
<1>0. TypeOK /\ SearchInv /\ Idle /\ phase = "dfs" /\ fifo # << >> /\ fifo \in Seq(Block)
  BY DEF Inv, DetectBlock, DetectInv, TypeOK
<1>1. ir' = ir /\ opts' = opts /\ library' = library /\ callList' = callList /\ Idle'
  BY <1>0 DEF DetectBlock, runVars, Idle
<1>2. CallBlocks' = CallBlocks /\ AfterCall' = AfterCall /\ Stores' = Stores
  BY <1>1, Fixed
<1> DEFINE dnode == fifo[Len(fifo)]
           rest == SubSeq(fifo, 1, Len(fifo) - 1)
<1>3. dnode \in Listed(fifo) /\ dnode \in Block /\ dnode \in AfterCall
  <2>1. Len(fifo) \in 1..Len(fifo) /\ dnode \in Block
    BY <1>0
  <2>2. dnode \in Listed(fifo)
    BY <2>1 DEF Listed
  <2> QED BY <1>0, <2>1, <2>2 DEF SearchInv
<1>4. CASE /\ HasOp(dnode, "storageStore")
           /\ bug' = TRUE /\ phase' = "rewrite" /\ UNCHANGED <<fifo, visited>>
  <2>1. TypeOK'
    BY <1>0, <1>1, <1>4 DEF TypeOK, Idle
  <2>2. dnode \in AfterCall' \intersect Stores'
    BY <1>2, <1>3, <1>4 DEF Stores
  <2>3. DetectExact'
    <3>1. BugMeans'
      BY <1>4, <2>2 DEF BugMeans
    <3> QED BY <3>1, ExactMeans, PTL
  <2> QED BY <1>1, <1>4, <2>1, <2>3 DEF DetectInv
<1>5. CASE /\ ~HasOp(dnode, "storageStore")
           /\ \E pushed \in Lists(Unvisited(dnode)) : fifo' = rest \o pushed
           /\ visited' = visited \union Marks(dnode)
           /\ UNCHANGED <<bug, phase>>
  <2>1. PICK pushed \in Lists(Unvisited(dnode)) : fifo' = rest \o pushed
    BY <1>5
  <2>2. ir.succ[dnode] \subseteq Block
    BY <1>0, <1>3, IrFacts
  <2>3. Unvisited(dnode) \subseteq Block
    BY <2>2 DEF Unvisited
  <2>4. pushed \in Seq(Unvisited(dnode)) /\ Listed(pushed) = Unvisited(dnode)
    BY <2>1, <2>3, ListFacts
  <2>5. pushed \in Seq(Block) /\ rest \in Seq(Block)
    BY <1>0, <2>3, <2>4
  <2>6. Listed(fifo)' = Listed(rest) \union Unvisited(dnode)
    <3>1. Listed(rest \o pushed) = Listed(rest) \union Listed(pushed)
      <4> HIDE DEF rest
      <4>1. ASSUME NEW i \in 1..Len(rest \o pushed)
            PROVE  (rest \o pushed)[i] \in Listed(rest) \union Listed(pushed)
        <5>1. CASE i <= Len(rest)
          BY <2>5, <5>1 DEF Listed
        <5>2. CASE i > Len(rest)
          <6>1. i - Len(rest) \in 1..Len(pushed) /\ (rest \o pushed)[i] = pushed[i - Len(rest)]
            BY <2>5, <5>2
          <6> QED BY <6>1 DEF Listed
        <5> QED BY <2>5, <5>1, <5>2
      <4>2. ASSUME NEW i \in 1..Len(rest) PROVE rest[i] \in Listed(rest \o pushed)
        <5>1. i \in 1..Len(rest \o pushed) /\ (rest \o pushed)[i] = rest[i]
          BY <2>5
        <5> QED BY <5>1 DEF Listed
      <4>3. ASSUME NEW i \in 1..Len(pushed) PROVE pushed[i] \in Listed(rest \o pushed)
        <5>1. Len(rest) + i \in 1..Len(rest \o pushed) /\ (rest \o pushed)[Len(rest) + i] = pushed[i]
          BY <2>5
        <5> QED BY <5>1 DEF Listed
      <4> QED BY <4>1, <4>2, <4>3 DEF Listed
    <3> QED BY <2>1, <2>4, <3>1 DEF Listed
  <2>7. Listed(fifo) \subseteq Listed(rest) \union {dnode} /\ Listed(rest) \subseteq Listed(fifo)
    BY <1>0 DEF Listed
  <2>8. TypeOK'
    <3>1. fifo' \in Seq(Block)
      BY <2>1, <2>5
    <3>2. visited' \subseteq Block
      BY <1>0, <1>5, <2>2 DEF TypeOK, Marks
    <3> QED BY <1>0, <1>1, <1>5, <3>1, <3>2 DEF TypeOK, Idle
  <2>9. Searched \union {dnode} \subseteq Searched'
    BY <1>1, <1>2, <1>3, <1>5 DEF Searched, Stores, Marks
  <2>10. Listed(fifo)' \subseteq AfterCall'
    <3>1. Unvisited(dnode) \subseteq AfterCall
      BY <1>0, <1>3, AfterCallClosed DEF Unvisited
    <3> QED BY <1>0, <1>2, <2>6, <2>7, <3>1 DEF SearchInv
  <2>11. visited' \subseteq Searched' \union Listed(fifo)'
    <3>1. visited \subseteq Searched \union Listed(fifo)
      BY <1>0 DEF SearchInv
    <3>2. visited' \subseteq visited \union Unvisited(dnode)
      BY <1>5 DEF Unvisited, Marks
    <3> QED BY <2>6, <2>7, <2>9, <3>1, <3>2
  <2>12. CallBlocks' \subseteq Searched' \union Listed(fifo)' \union Listed(callList)'
    <3>1. CallBlocks \subseteq Searched \union Listed(fifo) \union Listed(callList)
      BY <1>0 DEF SearchInv
    <3>2. Listed(callList)' = Listed(callList)
      BY <1>1 DEF Listed
    <3> QED BY <1>2, <2>6, <2>7, <2>9, <3>1, <3>2
  <2>13. SearchInv'
    <3>1. Listed(callList)' \subseteq CallBlocks' /\ bug' = FALSE
      BY <1>0, <1>1, <1>2, <1>5 DEF SearchInv, Listed
    <3> QED BY <2>10, <2>11, <2>12, <3>1 DEF SearchInv
  <2> QED BY <1>0, <1>1, <1>5, <2>8, <2>13 DEF DetectInv, DetectExact
<1> QED BY <1>4, <1>5 DEF DetectBlock

----------------------------------------------------------------------------
(* Where a frame is, and where it goes next *)

\* What the passes put before the entry block.
LEMMA PrologueIs ==
  ASSUME TypeOK
  PROVE  /\ Guarded /\ opts.EOAonly =>
              Len(Prologue) = 3 /\ Prologue[1] = "origin" /\ Prologue[2] = "check" /\ Prologue[3] = "lock"
         /\ Guarded /\ ~opts.EOAonly => Len(Prologue) = 2 /\ Prologue[1] = "check" /\ Prologue[2] = "lock"
         /\ ~Guarded /\ opts.EOAonly => Len(Prologue) = 1 /\ Prologue[1] = "origin"
         /\ ~Guarded /\ ~opts.EOAonly => Len(Prologue) = 0
<1>1. CASE Guarded /\ opts.EOAonly
  <2>1. Prologue = <<"origin">> \o <<"check", "lock">>
    BY <1>1 DEF Prologue
  <2> QED BY <1>1, <2>1
<1>2. CASE Guarded /\ ~opts.EOAonly
  <2>1. Prologue = << >> \o <<"check", "lock">>
    BY <1>2 DEF Prologue
  <2> QED BY <1>2, <2>1
<1>3. CASE ~Guarded /\ opts.EOAonly
  <2>1. Prologue = <<"origin">> \o << >>
    BY <1>3 DEF Prologue
  <2> QED BY <1>3, <2>1
<1>4. CASE ~Guarded /\ ~opts.EOAonly
  <2>1. Prologue = << >> \o << >>
    BY <1>4 DEF Prologue
  <2> QED BY <1>4, <2>1
<1> QED BY <1>1, <1>2, <1>3, <1>4

\* Its length, and its operations.
LEMMA PrologueLen ==
  ASSUME TypeOK
  PROVE  /\ Len(Prologue) \in Nat /\ (Guarded => Len(Prologue) >= 2)
         /\ opts.EOAonly => Len(Prologue) >= 1 /\ Prologue[1] = "origin"
BY PrologueIs

\* Which of the inserted operations is where in the prologue.
LEMMA PrologueOps ==
  ASSUME TypeOK, NEW p \in 1..Len(Prologue)
  PROVE  /\ Prologue[p] \in {"origin", "check", "lock"}
         /\ Prologue[p] = "check" => Guarded /\ p = Len(Prologue) - 1
         /\ Prologue[p] = "lock" => Guarded /\ p = Len(Prologue)
         /\ Prologue[p] = "origin" => p = 1 /\ (Guarded => Len(Prologue) = 3)
         /\ opts.EOAonly /\ p = 1 => Prologue[p] = "origin"
<1>1. CASE Guarded /\ opts.EOAonly
  <2>1. Len(Prologue) = 3 /\ Prologue[1] = "origin" /\ Prologue[2] = "check" /\ Prologue[3] = "lock"
    BY <1>1, PrologueIs
  <2>2. p \in {1, 2, 3}
    BY <2>1
  <2> QED BY <1>1, <2>1, <2>2
<1>2. CASE Guarded /\ ~opts.EOAonly
  <2>1. Len(Prologue) = 2 /\ Prologue[1] = "check" /\ Prologue[2] = "lock"
    BY <1>2, PrologueIs
  <2>2. p \in {1, 2}
    BY <2>1
  <2> QED BY <1>2, <2>1, <2>2
<1>3. CASE ~Guarded /\ opts.EOAonly
  <2>1. Len(Prologue) = 1 /\ Prologue[1] = "origin"
    BY <1>3, PrologueIs
  <2>2. p = 1
    BY <2>1
  <2> QED BY <1>3, <2>1, <2>2
<1>4. CASE ~Guarded /\ ~opts.EOAonly
  BY <1>4, PrologueIs
<1> QED BY <1>1, <1>2, <1>3, <1>4

\* What they make of a call.
Checked(b, i) == opts.checkSend /\ ir.code[b][i] = "call" /\ opts.vulpc = <<b, i>>
Releasing(b, i) == Guarded /\ ir.code[b][i] \in {"finish", "revert"}

\* A call becomes itself, after a release or before a test of its result.
LEMMA RewrittenIs ==
  ASSUME TypeOK, NEW b \in Block, NEW i \in 1..Len(ir.code[b])
  PROVE  LET w == Rewritten(b, i)
             c == ir.code[b][i]
         IN /\ Releasing(b, i) => Len(w) = 2 /\ w[1] = "unlock" /\ w[2] = c
            /\ Checked(b, i) => Len(w) = 2 /\ w[1] = c /\ w[2] = "require"
            /\ ~Releasing(b, i) /\ ~Checked(b, i) => Len(w) = 1 /\ w[1] = c
<1> DEFINE c == ir.code[b][i]
<1>1. CASE Releasing(b, i)
  <2>1. Rewritten(b, i) = <<"unlock", c>> \o << >> /\ ~Checked(b, i)
    BY <1>1 DEF Rewritten, Releasing, Checked, IsReleasing, IsExtCall
  <2> HIDE DEF c
  <2>2. Len(Rewritten(b, i)) = 2 /\ Rewritten(b, i)[1] = "unlock" /\ Rewritten(b, i)[2] = c
    BY <2>1
  <2> QED BY <1>1, <2>1, <2>2 DEF c
<1>2. CASE Checked(b, i)
  <2>1. Rewritten(b, i) = <<c>> \o <<"require">> /\ ~Releasing(b, i)
    BY <1>2 DEF Rewritten, Releasing, Checked, IsReleasing, IsExtCall
  <2> HIDE DEF c
  <2>2. Len(Rewritten(b, i)) = 2 /\ Rewritten(b, i)[1] = c /\ Rewritten(b, i)[2] = "require"
    BY <2>1
  <2> QED BY <1>2, <2>1, <2>2 DEF c
<1>3. CASE ~Releasing(b, i) /\ ~Checked(b, i)
  <2>1. Rewritten(b, i) = <<c>> \o << >>
    BY <1>3 DEF Rewritten, Releasing, Checked, IsReleasing, IsExtCall
  <2> HIDE DEF c
  <2>2. Len(Rewritten(b, i)) = 1 /\ Rewritten(b, i)[1] = c
    BY <2>1
  <2> QED BY <1>3, <2>1, <2>2 DEF c
<1> QED BY <1>1, <1>2, <1>3

\* The code of a call, one or two operations.
LEMMA RewrittenOps ==
  ASSUME TypeOK, NEW b \in Block, NEW i \in 1..Len(ir.code[b])
  PROVE  /\ Len(Rewritten(b, i)) \in {1, 2}
         /\ Rewritten(b, i)[1] \in {"unlock", ir.code[b][i]}
         /\ Rewritten(b, i)[1] = "unlock" <=> Releasing(b, i)
         /\ Releasing(b, i) => Len(Rewritten(b, i)) = 2 /\ Rewritten(b, i)[2] = ir.code[b][i]
         /\ Checked(b, i) => Len(Rewritten(b, i)) = 2
         /\ Len(Rewritten(b, i)) = 2 => Releasing(b, i) \/ (Checked(b, i) /\ Rewritten(b, i)[2] = "require")
         /\ ir.code[b][i] \in Op
<1>0. ir.code[b][i] \in Op
  BY IrFacts
<1>1. CASE Releasing(b, i)
  BY <1>0, <1>1, RewrittenIs
<1>2. CASE Checked(b, i)
  <2>1. ~Releasing(b, i)
    BY <1>2 DEF Checked, Releasing
  <2> QED BY <1>0, <1>2, <2>1, RewrittenIs DEF Op
<1>3. CASE ~Releasing(b, i) /\ ~Checked(b, i)
  BY <1>0, <1>3, RewrittenIs DEF Op
<1> QED BY <1>1, <1>2, <1>3

\* A frame at one of the prologue's operations.
LEMMA InPrologue ==
  ASSUME TypeOK, NEW f \in Frame, f.who = "C", Placed(f), ~AtEnd(f),
         OpOf(f) \in {"origin", "check", "lock"}
  PROVE  /\ f.blk = 0 /\ f.part \in 1..Len(Prologue) /\ Prologue[f.part] = OpOf(f)
         /\ f.seen = NotCalled /\ Advanced(f) = [f EXCEPT !.part = f.part + 1]
<1>1. f.blk = 0
  <2>1. SUFFICES ASSUME f.blk # 0 PROVE FALSE
    OBVIOUS
  <2>2. f.blk \in Block /\ f.idx \in 1..Len(ir.code[f.blk]) /\ f.part \in Nat \ {0}
    <3>1. f.blk \in Block /\ f.idx \in Nat \ {0} /\ f.part \in Nat \ {0}
      BY <2>1, HardeningAssumption DEF Frame, Block
    <3>2. Len(ir.code[f.blk]) \in Nat
      BY <3>1, IrFacts
    <3> QED BY <2>1, <3>1, <3>2 DEF AtEnd
  <2>3. OpOf(f) = Rewritten(f.blk, f.idx)[f.part] /\ f.part <= Len(Rewritten(f.blk, f.idx))
    BY <2>1, <2>2 DEF OpOf, Here, Placed
  <2>4. Rewritten(f.blk, f.idx)[f.part] \in Op \union {"unlock", "require"}
    <3>1. f.part \in {1, 2} /\ (f.part = 2 => Len(Rewritten(f.blk, f.idx)) = 2)
      BY <2>2, <2>3, RewrittenOps
    <3> QED BY <2>2, <3>1, RewrittenOps
  <2> QED BY <2>3, <2>4 DEF Op
<1>2. f.part \in 1..Len(Prologue)
  BY <1>1, PrologueLen DEF AtEnd, Frame
<1> QED BY <1>1, <1>2 DEF OpOf, Here, Placed, Advanced

\* A frame at an operation of the body.
LEMMA InBody ==
  ASSUME TypeOK, NEW f \in Frame, f.who = "C", Placed(f), ~AtEnd(f),
         OpOf(f) \notin {"origin", "check", "lock"}
  PROVE  /\ f.blk \in Block /\ f.blk # 0 /\ f.idx \in 1..Len(ir.code[f.blk])
         /\ f.part \in 1..Len(Rewritten(f.blk, f.idx)) /\ f.part \in {1, 2}
         /\ OpOf(f) = Rewritten(f.blk, f.idx)[f.part] /\ Here(f) = Rewritten(f.blk, f.idx)
<1>1. f.blk # 0
  <2>1. SUFFICES ASSUME f.blk = 0 PROVE FALSE
    OBVIOUS
  <2>2. f.part \in 1..Len(Prologue)
    BY <2>1, PrologueLen DEF AtEnd, Frame
  <2> QED BY <2>1, <2>2, PrologueOps DEF OpOf, Here
<1>2. f.blk \in Block /\ f.idx \in Nat \ {0} /\ f.part \in Nat \ {0}
  BY <1>1, HardeningAssumption DEF Frame, Block
<1>3. Len(ir.code[f.blk]) \in Nat
  BY <1>2, IrFacts
<1>4. f.idx \in 1..Len(ir.code[f.blk])
  BY <1>1, <1>2, <1>3 DEF AtEnd
<1>5. f.part <= Len(Rewritten(f.blk, f.idx)) /\ Len(Rewritten(f.blk, f.idx)) \in {1, 2}
  BY <1>1, <1>2, <1>4, RewrittenOps DEF Placed
<1>6. Here(f) = Rewritten(f.blk, f.idx)
  BY <1>1 DEF Here
<1> QED BY <1>1, <1>2, <1>4, <1>5, <1>6 DEF OpOf

\* The operations of the body, by what the passes made of them.
LEMMA BodyOps ==
  ASSUME TypeOK, NEW f \in Frame, f.who = "C", Placed(f), ~AtEnd(f),
         OpOf(f) \notin {"origin", "check", "lock"}
  PROVE  /\ OpOf(f) \in Calling \union {"storageStore", "selfDestruct", "unreachable"} =>
              f.part = 1 /\ ir.code[f.blk][f.idx] = OpOf(f) /\ ~Releasing(f.blk, f.idx)
         /\ OpOf(f) = "unlock" => f.part = 1 /\ Releasing(f.blk, f.idx)
         /\ OpOf(f) = "require" => f.part = 2 /\ Checked(f.blk, f.idx)
         /\ OpOf(f) \in {"finish", "revert"} /\ Guarded => f.part = 2 /\ Releasing(f.blk, f.idx)
<1>1. /\ f.blk \in Block /\ f.idx \in 1..Len(ir.code[f.blk])
      /\ f.part \in 1..Len(Rewritten(f.blk, f.idx)) /\ f.part \in {1, 2}
      /\ OpOf(f) = Rewritten(f.blk, f.idx)[f.part]
  BY InBody
<1> DEFINE c == ir.code[f.blk][f.idx]
           w == Rewritten(f.blk, f.idx)
<1>2. c \in Op
  BY <1>1, RewrittenOps
<1>3. CASE Releasing(f.blk, f.idx)
  <2>1. w[1] = "unlock" /\ w[2] = c /\ c \in {"finish", "revert"}
    BY <1>1, <1>3, RewrittenIs DEF Releasing
  <2>2. OpOf(f) = IF f.part = 1 THEN "unlock" ELSE c
    BY <1>1, <2>1
  <2> QED BY <1>1, <1>3, <2>1, <2>2 DEF Calling
<1>4. CASE Checked(f.blk, f.idx)
  <2>1. w[1] = c /\ w[2] = "require" /\ c = "call" /\ ~Releasing(f.blk, f.idx)
    BY <1>1, <1>4, RewrittenIs DEF Checked, Releasing
  <2>2. OpOf(f) = IF f.part = 1 THEN "call" ELSE "require"
    BY <1>1, <2>1
  <2> QED BY <1>1, <1>4, <2>1, <2>2 DEF Calling
<1>5. CASE ~Releasing(f.blk, f.idx) /\ ~Checked(f.blk, f.idx)
  <2>1. Len(w) = 1 /\ w[1] = c
    BY <1>1, <1>5, RewrittenIs
  <2>2. f.part = 1 /\ OpOf(f) = c
    BY <1>1, <2>1
  <2> QED BY <1>2, <1>5, <2>2 DEF Op, Releasing, Calling
<1> QED BY <1>3, <1>4, <1>5

\* A frame that runs an operation of the body: where it goes, whether it is
\* still in the body, and how it gets behind the call at vulpc.
LEMMA BodyAdvance ==
  ASSUME TypeOK, NEW f \in Frame, f.who = "C", Placed(f), ~AtEnd(f),
         OpOf(f) \notin {"origin", "check", "lock"}
  PROVE  LET g == Advanced(f)
         IN /\ g \in Frame /\ Placed(g) /\ g.blk = f.blk /\ g.blk # 0
            /\ g.who = "C" /\ g.snap = f.snap /\ g.ok = f.ok /\ g.seen = f.seen
            /\ g.static = f.static /\ g.eoa = f.eoa
            /\ Inside(g) <=> ~(f.part = 1 /\ Releasing(f.blk, f.idx))
            /\ Inside(f) <=> ~(f.part = 2 /\ Releasing(f.blk, f.idx))
            /\ opts.checkSend /\ Sent(g) => OpOf(f) = "require" \/ (OpOf(f) = "unlock" /\ Sent(f))
<1>1. /\ f.blk \in Block /\ f.blk # 0 /\ f.idx \in 1..Len(ir.code[f.blk])
      /\ f.part \in 1..Len(Rewritten(f.blk, f.idx)) /\ f.part \in {1, 2}
      /\ OpOf(f) = Rewritten(f.blk, f.idx)[f.part] /\ Here(f) = Rewritten(f.blk, f.idx)
  BY InBody
<1>2. /\ Len(Rewritten(f.blk, f.idx)) \in {1, 2}
      /\ Rewritten(f.blk, f.idx)[1] = "unlock" <=> Releasing(f.blk, f.idx)
  BY <1>1, RewrittenOps
<1>3. Len(ir.code[f.blk]) \in Nat
  BY <1>1, IrFacts
<1>4. Inside(f) <=> ~(f.part = 2 /\ Releasing(f.blk, f.idx))
  BY <1>1, <1>2, <1>3 DEF Inside
<1>5. CASE f.part = 1 /\ Len(Rewritten(f.blk, f.idx)) = 2
  <2> DEFINE g == [f EXCEPT !.part = 2]
  <2>1. Advanced(f) = g
    BY <1>1, <1>5 DEF Advanced
  <2>2. /\ g \in Frame /\ g.blk = f.blk /\ g.who = "C" /\ g.snap = f.snap /\ g.ok = f.ok
        /\ g.seen = f.seen /\ g.part = 2 /\ g.idx = f.idx /\ g.static = f.static /\ g.eoa = f.eoa
    BY DEF Frame
  <2> HIDE DEF g
  <2>3. Placed(g)
    <3>1. /\ Len(Rewritten(g.blk, g.idx)) = 2 /\ g.blk # 0
          /\ g.idx \in Nat /\ Len(ir.code[g.blk]) \in Nat /\ g.idx <= Len(ir.code[g.blk])
      BY <1>1, <1>3, <1>5, <2>2
    <3> QED BY <2>2, <3>1 DEF Placed
  <2>4. Inside(g) <=> ~Releasing(f.blk, f.idx)
    <3>1. Here(g) = Rewritten(f.blk, f.idx)
      BY <1>1, <2>2 DEF Here
    <3> QED BY <1>1, <1>2, <1>3, <2>2, <3>1 DEF Inside
  <2>5. ASSUME opts.checkSend, Sent(g) PROVE OpOf(f) = "unlock" /\ Sent(f)
    <3>1. Sent(f)
      BY <2>2, <2>5 DEF Sent
    <3>2. ~Checked(f.blk, f.idx)
      <4>1. opts.vulpc[2] \in Nat /\ f.idx = opts.vulpc[2] + 1
        BY <3>1 DEF TypeOK, Options, Pc, Sent
      <4>2. opts.vulpc = <<f.blk, f.idx>> => opts.vulpc[2] = f.idx
        OBVIOUS
      <4>3. f.idx \in Nat
        BY <1>1, <1>3
      <4> QED BY <4>1, <4>2, <4>3 DEF Checked
    <3>3. Releasing(f.blk, f.idx)
      BY <1>1, <1>5, <3>2, RewrittenOps
    <3> QED BY <1>1, <1>2, <1>5, <3>1, <3>3
  <2> QED BY <1>1, <1>4, <1>5, <2>1, <2>2, <2>3, <2>4, <2>5
<1>6. CASE f.part = Len(Rewritten(f.blk, f.idx))
  <2> DEFINE g == [f EXCEPT !.idx = f.idx + 1, !.part = 1]
  <2>1. Advanced(f) = g
    BY <1>1, <1>2, <1>6 DEF Advanced
  <2>2. /\ g \in Frame /\ g.blk = f.blk /\ g.who = "C" /\ g.snap = f.snap /\ g.ok = f.ok
        /\ g.seen = f.seen /\ g.part = 1 /\ g.idx = f.idx + 1 /\ g.static = f.static /\ g.eoa = f.eoa
    <3>1. f.idx + 1 \in Nat \ {0} /\ 1 \in Nat \ {0}
      BY <1>1, <1>3
    <3>2. g \in Frame
      BY <3>1 DEF Frame
    <3>3. /\ g.blk = f.blk /\ g.who = "C" /\ g.snap = f.snap /\ g.ok = f.ok
          /\ g.seen = f.seen /\ g.part = 1 /\ g.idx = f.idx + 1 /\ g.static = f.static /\ g.eoa = f.eoa
      BY DEF Frame
    <3> QED BY <3>2, <3>3
  <2> HIDE DEF g
  <2>3. Placed(g)
    <3>1. g.idx \in 1..Len(ir.code[f.blk]) => Len(Rewritten(f.blk, g.idx)) \in {1, 2}
      BY <1>1, RewrittenOps
    <3>2. g.idx \in Nat /\ g.idx >= 1 /\ g.idx <= Len(ir.code[g.blk]) + 1 /\ Len(ir.code[g.blk]) \in Nat
      BY <1>1, <1>3, <2>2
    <3>3. g.idx <= Len(ir.code[g.blk]) => 1 <= Len(Rewritten(g.blk, g.idx))
      <4>1. g.idx <= Len(ir.code[g.blk]) => Len(Rewritten(g.blk, g.idx)) \in {1, 2}
        BY <2>2, <3>1, <3>2
      <4>2. \A n \in {1, 2} : 1 <= n
        OBVIOUS
      <4> QED BY <4>1, <4>2
    <3>4. g.blk # 0 /\ g.part = 1
      BY <1>1, <2>2
    <3>5. g.idx > Len(ir.code[g.blk]) => g.idx = Len(ir.code[g.blk]) + 1
      BY <3>2
    <3> QED BY <3>3, <3>4, <3>5 DEF Placed
  <2>4. Inside(g)
    BY <1>1, <2>2 DEF Inside
  <2>5. ~(f.part = 1 /\ Releasing(f.blk, f.idx))
    BY <1>1, <1>6, RewrittenOps
  <2>6. ASSUME opts.checkSend, Sent(g) PROVE OpOf(f) = "require"
    <3>1. g.blk = opts.vulpc[1] /\ g.idx = opts.vulpc[2] + 1 /\ ir.code[g.blk][g.idx - 1] = "call"
      BY <2>6 DEF Sent, IsExtCall
    <3>2. opts.vulpc[2] \in Nat /\ f.idx \in Nat /\ opts.vulpc \in Block \X (Nat \ {0})
      BY <1>1, <1>3 DEF TypeOK, Options, Pc
    <3>3. g.idx - 1 = f.idx /\ opts.vulpc[2] = f.idx
      BY <2>2, <3>1, <3>2
    <3>4. opts.vulpc = <<f.blk, f.idx>> /\ ir.code[f.blk][f.idx] = "call"
      BY <2>2, <3>1, <3>2, <3>3
    <3>5. Checked(f.blk, f.idx)
      BY <2>6, <3>4 DEF Checked
    <3>6. ~Releasing(f.blk, f.idx)
      BY <3>5 DEF Checked, Releasing
    <3> QED BY <1>1, <1>6, <3>5, <3>6, RewrittenOps
  <2> QED BY <1>1, <1>4, <2>1, <2>2, <2>3, <2>4, <2>5, <2>6
<1>7. (f.part = 1 /\ Len(Rewritten(f.blk, f.idx)) = 2) \/ f.part = Len(Rewritten(f.blk, f.idx))
  <2>1. ASSUME NEW n \in {1, 2}, NEW k \in 1..n PROVE (k = 1 /\ n = 2) \/ k = n
    OBVIOUS
  <2> QED BY <1>1, <1>2, <2>1
<1> QED BY <1>5, <1>6, <1>7

----------------------------------------------------------------------------
(* Stacks of frames *)

\* Frames that differ only in what their last call returned, and what they
\* would restore.
Alike(f, g) ==
  /\ f.who = g.who /\ f.blk = g.blk /\ f.idx = g.idx /\ f.part = g.part /\ f.seen = g.seen
  /\ f.static = g.static /\ f.eoa = g.eoa

\* The invariant says the same of frames that are alike.
LEMMA AlikeSame ==
  ASSUME NEW f, NEW g, Alike(f, g)
  PROVE  /\ Placed(f) <=> Placed(g)
         /\ Inside(f) <=> Inside(g)
         /\ Waiting(f) <=> Waiting(g)
         /\ Sent(f) <=> Sent(g)
         /\ Locking(f) <=> Locking(g)
<1>1. f.who = g.who /\ f.blk = g.blk /\ f.idx = g.idx /\ f.part = g.part /\ f.seen = g.seen
  BY DEF Alike
<1>2. Here(f) = Here(g)
  BY <1>1 DEF Here
<1>3. Inside(f) <=> Inside(g)
  BY <1>1, <1>2 DEF Inside
<1>4. Placed(f) <=> Placed(g)
  BY <1>1 DEF Placed
<1>5. Sent(f) <=> Sent(g)
  BY <1>1 DEF Sent
<1>6. (Waiting(f) <=> Waiting(g)) /\ (Locking(f) <=> Locking(g))
  BY <1>1, <1>3 DEF Waiting, Locking
<1> QED BY <1>3, <1>4, <1>5, <1>6

\* Without its innermost frame.
PopOf(r, ok) ==
  LET b == SubSeq(r, 1, Len(r) - 1) IN IF b = << >> THEN << >> ELSE [b EXCEPT ![Len(b)].ok = ok]

\* The frames that are left are the ones that were there, but for the result.
LEMMA PopFacts ==
  ASSUME NEW r \in Seq(Frame), r # << >>, NEW ok \in BOOLEAN
  PROVE  /\ PopOf(r, ok) \in Seq(Frame) /\ Len(PopOf(r, ok)) = Len(r) - 1
         /\ \A i \in 1..(Len(r) - 1) : Alike(PopOf(r, ok)[i], r[i]) /\ PopOf(r, ok)[i].snap = r[i].snap
<1> DEFINE b == SubSeq(r, 1, Len(r) - 1)
<1>0. Len(r) \in Nat /\ Len(r) >= 1
  OBVIOUS
<1>1. b \in Seq(Frame) /\ Len(b) = Len(r) - 1 /\ \A i \in 1..(Len(r) - 1) : b[i] = r[i]
  <2> DEFINE m == Len(r) - 1
  <2>1. m \in Nat /\ m <= Len(r)
    BY <1>0
  <2> HIDE DEF m
  <2>2. SubSeq(r, 1, m) \in Seq(Frame) /\ Len(SubSeq(r, 1, m)) = m
    BY <2>1
  <2>3. \A i \in 1..m : SubSeq(r, 1, m)[i] = r[i]
    BY <2>1
  <2> QED BY <2>2, <2>3 DEF m
<1>2. \A i \in 1..(Len(r) - 1) : r[i] \in Frame
  BY <1>0
<1>3. PopOf(r, ok) = IF b = << >> THEN << >> ELSE [b EXCEPT ![Len(b)].ok = ok]
  BY DEF PopOf
<1> HIDE DEF b
<1>4. CASE b = << >>
  <2>1. Len(r) - 1 = 0
    BY <1>1, <1>4
  <2> QED BY <1>3, <1>4, <2>1
<1>5. CASE b # << >>
  <2> DEFINE n == Len(b)
             g == [b[n] EXCEPT !.ok = ok]
  <2>1. n \in Nat /\ n \in 1..n /\ b[n] \in Frame
    BY <1>1, <1>5
  <2>2. PopOf(r, ok) = [b EXCEPT ![n] = g]
    BY <1>3, <1>5
  <2>3. g \in Frame /\ Alike(g, b[n]) /\ g.snap = b[n].snap
    BY <2>1 DEF Frame, Alike
  <2> HIDE DEF g
  <2>4. /\ [b EXCEPT ![n] = g] \in Seq(Frame) /\ Len([b EXCEPT ![n] = g]) = n
        /\ \A i \in 1..n : [b EXCEPT ![n] = g][i] = IF i = n THEN g ELSE b[i]
    BY <1>1, <2>1, <2>3
  <2>5. \A i \in 1..n : Alike(b[i], b[i])
    BY DEF Alike
  <2> QED BY <1>0, <1>1, <2>2, <2>3, <2>4, <2>5
<1> QED BY <1>4, <1>5

\* The innermost frame ends: what is left agrees with w2 if w2 agrees with the
\* frames below it.
LEMMA PopKeeps ==
  ASSUME NEW r, NEW w, NEW t, RunInv(r, w, t), r # << >>, NEW ok \in BOOLEAN,
         NEW w2 \in World, Safe => Agrees(r, w2, Len(r) - 1),
         Unguarded => \A i \in 1..(Len(r) - 1) : Fresh(r[i], w2)
  PROVE  RunInv(PopOf(r, ok), w2, t)
<1> DEFINE s == PopOf(r, ok)
           n == Len(r) - 1
<1>0. r \in Seq(Frame) /\ FramesInv(r) /\ ChecksInv(r)
  BY DEF RunInv
<1>1. /\ s \in Seq(Frame) /\ Len(s) = n /\ n \in Nat /\ Len(r) = n + 1
      /\ \A i \in 1..n : Alike(s[i], r[i]) /\ s[i].snap = r[i].snap
  BY <1>0, PopFacts
<1> HIDE DEF s, n
<1>2. \A i \in 1..n : i \in 1..Len(r) /\ i < Len(r) /\ i # Len(r)
  BY <1>1
<1>3. \A i \in 1..n : /\ Placed(s[i]) /\ Waiting(s[i])
                      /\ Inside(s[i]) <=> Inside(r[i])
                      /\ Sent(s[i]) <=> Sent(r[i])
                      /\ Waiting(r[i]) /\ s[i].who = r[i].who /\ s[i].blk = r[i].blk
                      /\ s[i].part = r[i].part /\ s[i].seen = r[i].seen
                      /\ s[i].static = r[i].static /\ s[i].eoa = r[i].eoa
  BY <1>0, <1>1, <1>2, AlikeSame DEF FramesInv, Alike
<1>4. FramesInv(s)
  BY <1>1, <1>3 DEF FramesInv
<1>5. ChecksInv(s)
  <2>1. \A i \in 1..n : 1 \in 1..n
    BY <1>1
  <2> QED BY <1>0, <1>1, <1>2, <1>3, <2>1 DEF ChecksInv, Delegated
<1>6. ASSUME NEW k \in 0..n, NEW v, Agrees(r, v, k) PROVE Agrees(s, v, k)
  <2>1. 1..k \subseteq 1..n
    BY <1>1
  <2> QED BY <1>3, <1>6, <2>1 DEF Agrees
<1>7. ASSUME Safe PROVE MutexInv(s, w2)
  <2>1. MutexInv(r, w)
    BY <1>7 DEF RunInv
  <2>2. Agrees(s, w2, n)
    <3>1. Agrees(r, w2, n) /\ n \in 0..n
      BY <1>1, <1>7 DEF n
    <3> QED BY <1>6, <3>1
  <2>3. \A k \in 1..n : Agrees(s, s[k].snap, k - 1)
    <3>1. \A k \in 1..n : k - 1 \in 0..n /\ Agrees(r, r[k].snap, k - 1)
      BY <1>1, <1>2, <2>1 DEF MutexInv
    <3> QED BY <1>1, <1>6, <3>1
  <2>4. \A i, j \in 1..n : Inside(s[i]) /\ Inside(s[j]) => i = j
    BY <1>2, <1>3, <2>1 DEF MutexInv
  <2>5. \A k \in 1..n : ~Locking(s[k])
    BY <1>3 DEF Locking, Waiting
  <2> QED BY <1>1, <2>1, <2>2, <2>3, <2>4, <2>5 DEF MutexInv
<1>8. ASSUME Unguarded PROVE QuietInv(s, w2) /\ t = FALSE
  <2>1. QuietInv(r, w) /\ t = FALSE
    BY <1>8 DEF RunInv
  <2>2. \A i \in 1..n : (Quiet(s[i]) <=> Quiet(r[i])) /\ \A v : Fresh(s[i], v) <=> Fresh(r[i], v)
    BY <1>3 DEF Quiet, Fresh
  <2>3. \A i \in 1..n : Fresh(r[i], w2)
    BY <1>8 DEF n
  <2>4. \A k \in 1..n : \A i \in 1..(k - 1) : i \in 1..n
    BY <1>1
  <2> QED BY <1>1, <1>2, <1>3, <2>1, <2>2, <2>3, <2>4 DEF QuietInv
<1> QED BY <1>1, <1>4, <1>5, <1>7, <1>8 DEF RunInv, s

\* A new frame on top of frames that wait.
LEMMA PushKeeps ==
  ASSUME TypeOK, NEW r, NEW w, NEW t, RunInv(r, w, t),
         r # << >> => Waiting(r[Len(r)]) /\ (opts.checkSend => ~Sent(r[Len(r)])),
         NEW who \in {"C", "D", "E"}, NEW static \in BOOLEAN, NEW eoa \in BOOLEAN,
         who = "D" => r # << >>, r # << >> /\ eoa => Delegated(r),
         Unguarded /\ r # << >> => (r[Len(r)].static \/ Quiet(r[Len(r)]) => static)
  PROVE  RunInv(Append(r, NewFrame(who, static, eoa, w)), w, t)
<1> DEFINE g == NewFrame(who, static, eoa, w)
           s == Append(r, g)
           n == Len(r) + 1
<1>0. r \in Seq(Frame) /\ w \in World /\ FramesInv(r) /\ ChecksInv(r) /\ Len(r) \in Nat
  BY DEF RunInv
<1>1. /\ g \in Frame /\ g.who = who /\ g.blk = 0 /\ g.part = 1 /\ g.seen = NotCalled /\ g.snap = w
      /\ g.static = static /\ g.eoa = eoa
  BY <1>0, HardeningAssumption DEF NewFrame, Frame, NotCalled
<1> HIDE DEF g
<1>2. /\ s \in Seq(Frame) /\ Len(s) = n /\ n \in Nat /\ n = Len(r) + 1 /\ s[n] = g
      /\ \A i \in 1..Len(r) : s[i] = r[i]
  BY <1>0, <1>1
<1> HIDE DEF s, n
<1>3. \A i \in 1..n : i \in 1..Len(r) \/ i = n
  BY <1>0, <1>2
<1>4. \A i \in 1..Len(r) : Placed(r[i]) /\ Waiting(r[i]) /\ (opts.checkSend => ~Sent(r[i]))
  <2>1. \A i \in 1..Len(r) : Placed(r[i]) /\ (i < Len(r) => Waiting(r[i]))
    BY <1>0 DEF FramesInv
  <2>2. opts.checkSend => \A i \in 1..Len(r) : Sent(r[i]) => i = Len(r)
    BY <1>0 DEF ChecksInv
  <2>3. \A i \in 1..Len(r) : i < Len(r) \/ (i = Len(r) /\ r # << >>)
    BY <1>0
  <2> QED BY <1>0, <2>1, <2>2, <2>3
<1>5. Placed(g) /\ ~Sent(g) /\ (Guarded => ~Inside(g) /\ ~Locking(g))
  <2>1. Placed(g)
    BY <1>1, PrologueLen DEF Placed
  <2>2. ASSUME Guarded PROVE ~(1 > Len(Prologue)) /\ 1 # Len(Prologue)
    <3>1. Len(Prologue) \in Nat /\ Len(Prologue) >= 2
      BY <2>2, PrologueLen
    <3> QED BY <3>1
  <2> QED BY <1>1, <2>1, <2>2 DEF Inside, Locking, Sent
<1>6. FramesInv(s)
  <2>1. \A i \in 1..n : i < n => i \in 1..Len(r)
    BY <1>0, <1>2
  <2> QED BY <1>2, <1>3, <1>4, <1>5, <2>1 DEF FramesInv
<1>7. ChecksInv(s)
  <2>1. r = << >> => n = 1
    BY <1>2
  <2>2. r # << >> => 1 \in 1..Len(r) /\ s[1] = r[1] /\ n # 1
    BY <1>0, <1>2
  <2>3. /\ opts.EOAonly =>
             \A i \in 1..n : s[i].who = "C" => (s[i].blk = 0 /\ s[i].part = 1) \/ s[i].eoa
        /\ \A i \in 1..n : s[i].who = "D" => i # 1
    BY <1>0, <1>1, <1>2, <1>3, <2>2 DEF ChecksInv
  <2>5. \A i \in 1..n : i # 1 /\ s[i].eoa => Delegated(s)
    <3>1. SUFFICES ASSUME NEW i \in 1..n, i # 1, s[i].eoa PROVE Delegated(s)
      OBVIOUS
    <3>2. r # << >>
      BY <1>3, <2>1, <3>1
    <3>3. Delegated(r)
      BY <1>0, <1>1, <1>2, <1>3, <3>1, <3>2 DEF ChecksInv
    <3> QED BY <2>2, <3>2, <3>3 DEF Delegated
  <2>4. opts.checkSend => \A i \in 1..n : ~Sent(s[i])
    BY <1>2, <1>3, <1>4, <1>5
  <2> QED BY <1>2, <2>3, <2>4, <2>5 DEF ChecksInv
<1>8. ASSUME NEW k \in 0..Len(r), NEW v, Agrees(r, v, k) PROVE Agrees(s, v, k)
  <2>1. \A i \in 1..k : s[i] = r[i]
    BY <1>0, <1>2
  <2> QED BY <1>8, <2>1 DEF Agrees
<1>9. ASSUME Safe PROVE MutexInv(s, w)
  <2>0. Guarded
    BY <1>9 DEF Safe
  <2>1. MutexInv(r, w)
    BY <1>9 DEF RunInv
  <2>2. Agrees(s, w, n)
    <3>1. Agrees(r, w, Len(r))
      BY <2>1 DEF MutexInv
    <3>2. Agrees(s, w, Len(r)) /\ \A i \in 1..Len(r) : i \in 1..n
      BY <1>0, <1>2, <1>8, <3>1
    <3>3. ~Inside(s[n])
      BY <1>2, <1>5, <2>0
    <3> QED BY <1>3, <3>2, <3>3 DEF Agrees
  <2>3. \A k \in 1..n : Agrees(s, s[k].snap, k - 1)
    <3>1. ASSUME NEW k \in 1..Len(r) PROVE Agrees(s, s[k].snap, k - 1)
      <4>1. k - 1 \in 0..Len(r) /\ Agrees(r, r[k].snap, k - 1) /\ s[k] = r[k]
        BY <1>0, <1>2, <2>1 DEF MutexInv
      <4> QED BY <1>8, <4>1
    <3>2. Agrees(s, s[n].snap, n - 1)
      <4>1. n - 1 = Len(r) /\ Len(r) \in 0..Len(r) /\ s[n].snap = w /\ Agrees(r, w, Len(r))
        BY <1>0, <1>1, <1>2, <2>1 DEF MutexInv
      <4> QED BY <1>8, <4>1
    <3> QED BY <1>3, <3>1, <3>2
  <2>4. \A i, j \in 1..n : Inside(s[i]) /\ Inside(s[j]) => i = j
    <3>1. ~Inside(s[n])
      BY <1>2, <1>5, <2>0
    <3> QED BY <1>2, <1>3, <2>1, <3>1 DEF MutexInv
  <2>5. \A k \in 1..n : ~Locking(s[k])
    BY <1>2, <1>3, <1>4, <1>5, <2>0 DEF Locking, Waiting
  <2> QED BY <1>2, <2>1, <2>2, <2>3, <2>4, <2>5 DEF MutexInv
<1>10. ASSUME Unguarded PROVE QuietInv(s, w) /\ t = FALSE
  <2>1. QuietInv(r, w) /\ t = FALSE
    BY <1>10 DEF RunInv
  <2>2. \A i \in 1..n : Fresh(s[i], w)
    BY <1>1, <1>2, <1>3, <2>1 DEF QuietInv, Fresh
  <2>3. ASSUME NEW i \in 1..Len(r) PROVE Quiet(r[i]) => static
    <3>1. r # << >> /\ Len(r) \in 1..Len(r) /\ (i = Len(r) \/ i \in 1..(Len(r) - 1))
      BY <1>0
    <3>2. i # Len(r) /\ Quiet(r[i]) => r[Len(r)].static
      BY <2>1, <3>1 DEF QuietInv
    <3> QED BY <1>10, <3>1, <3>2
  <2>4. ASSUME NEW k \in 1..n, NEW i \in 1..(k - 1)
        PROVE  Fresh(s[i], s[k].snap) /\ (Quiet(s[i]) => s[k].static)
    <3>1. i \in 1..Len(r) /\ s[i] = r[i]
      BY <1>0, <1>2
    <3>2. CASE k = n
      BY <1>1, <1>2, <2>1, <2>3, <3>1, <3>2 DEF QuietInv
    <3>3. CASE k # n
      BY <1>2, <1>3, <2>1, <3>1, <3>3 DEF QuietInv
    <3> QED BY <3>2, <3>3
  <2> QED BY <1>2, <2>1, <2>2, <2>4 DEF QuietInv
<1>11. Guarded /\ library = {} => t = FALSE
  BY DEF RunInv
<1> QED BY <1>11, <1>0, <1>2, <1>6, <1>7, <1>9, <1>10 DEF RunInv, s, g

\* What the mutex needs when the innermost frame goes from f to g and the
\* storage from w to w2.
MoveOK(f, w, g, w2) ==
  /\ Inside(g) => Inside(f) \/ w.mutex = 0
  /\ w2.mutex = 0 => ~Inside(g) /\ (Inside(f) \/ w.mutex = 0)
  /\ w2.mutex = 1 /\ ~w2.doomed => Inside(g) \/ (w.mutex = 1 /\ ~w.doomed /\ ~Inside(f))
  /\ library = {} => /\ Inside(g) => g.seen \in {NotCalled, w2.version}
                     /\ Inside(f) \/ w2.version = w.version
  /\ Locking(g) => w2.mutex = 0

\* And what is needed without a mutex.
Calm(f, w, g, w2) == Fresh(g, w2) /\ (w2.version = w.version \/ ~f.static)

\* What no step of a frame changes.
Same(g, f) == g.who = f.who /\ g.snap = f.snap /\ g.static = f.static /\ g.eoa = f.eoa

\* The innermost frame goes on.
LEMMA MoveKeeps ==
  ASSUME NEW r, NEW w, NEW t, RunInv(r, w, t), r # << >>,
         NEW g \in Frame, Same(g, r[Len(r)]), Placed(g),
         opts.EOAonly => g.eoa, opts.checkSend /\ Sent(g) => g.ok,
         NEW w2 \in World, NEW t2,
         Unguarded => Calm(r[Len(r)], w, g, w2) /\ t2 = FALSE,
         Safe => MoveOK(r[Len(r)], w, g, w2), Guarded /\ library = {} => t2 = FALSE
  PROVE  RunInv([r EXCEPT ![Len(r)] = g], w2, t2)
<1> DEFINE n == Len(r)
           s == [r EXCEPT ![n] = g]
           f == r[n]
<1>0. r \in Seq(Frame) /\ FramesInv(r) /\ ChecksInv(r) /\ n \in Nat /\ n \in 1..n
  BY DEF RunInv
<1>1. s \in Seq(Frame) /\ Len(s) = n /\ s[n] = g /\ \A i \in 1..n : i # n => s[i] = r[i]
  BY <1>0
<1>h. Len(r) = n
  OBVIOUS
<1>g. g.who = r[n].who /\ g.snap = r[n].snap /\ g.static = r[n].static /\ g.eoa = r[n].eoa
  BY DEF Same
<1> HIDE DEF s, n
<1>2. FramesInv(s)
  <2>1. \A i \in 1..n : i < n => i # n
    BY <1>0
  <2> QED BY <1>0, <1>1, <1>h, <2>1 DEF FramesInv
<1>3. ChecksInv(s)
  <2>1. \A i \in 1..n : s[i].who = r[i].who /\ s[i].eoa = r[i].eoa
    BY <1>1, <1>g
  <2>2. 1 \in 1..n
    BY <1>0
  <2>3. \A i \in 1..n : i # 1 /\ s[i].eoa => Delegated(s)
    BY <1>0, <1>h, <2>1, <2>2 DEF ChecksInv, Delegated
  <2>4. \A i \in 1..n : s[i].who = "D" => i # 1
    BY <1>0, <1>h, <2>1 DEF ChecksInv
  <2> QED BY <1>0, <1>1, <1>h, <2>3, <2>4 DEF ChecksInv
<1>4. ASSUME NEW k \in 0..(n - 1), NEW v, Agrees(r, v, k) PROVE Agrees(s, v, k)
  <2>1. \A i \in 1..k : i \in 1..n /\ i # n
    BY <1>0
  <2>2. \A i \in 1..k : s[i] = r[i]
    BY <1>1, <2>1
  <2> QED BY <1>4, <2>2 DEF Agrees
<1>5. ASSUME Safe PROVE MutexInv(s, w2)
  <2>1. MutexInv(r, w)
    BY <1>5 DEF RunInv
  <2>2. Agrees(r, w, n) /\ \A i, j \in 1..n : Inside(r[i]) /\ Inside(r[j]) => i = j
    BY <1>h, <2>1 DEF MutexInv
  <2>3. MoveOK(f, w, g, w2)
    BY <1>5, <1>h
  <2> HIDE DEF f
  <2>f. r[n] = f
    BY DEF f
  <2>4. Inside(f) \/ w.mutex = 0 => \A i \in 1..n : i # n => ~Inside(r[i])
    BY <1>0, <2>2, <2>f DEF Agrees
  <2>5. \A i, j \in 1..n : Inside(s[i]) /\ Inside(s[j]) => i = j
    <3>1. SUFFICES ASSUME NEW i \in 1..n, NEW j \in 1..n, Inside(s[i]), Inside(s[j]), i # j PROVE FALSE
      OBVIOUS
    <3>2. CASE i # n /\ j # n
      BY <1>1, <2>2, <3>1, <3>2
    <3>3. CASE i = n
      BY <1>1, <2>3, <2>4, <3>1, <3>3 DEF MoveOK
    <3>4. CASE j = n
      BY <1>1, <2>3, <2>4, <3>1, <3>4 DEF MoveOK
    <3> QED BY <3>2, <3>3, <3>4
  <2>6. w2.mutex = 0 => \A i \in 1..n : ~Inside(s[i])
    BY <1>1, <2>3, <2>4 DEF MoveOK
  <2>7. w2.mutex = 1 /\ ~w2.doomed => \E i \in 1..n : Inside(s[i])
    <3>1. CASE Inside(g)
      BY <1>0, <1>1, <3>1
    <3>2. CASE w.mutex = 1 /\ ~w.doomed /\ ~Inside(f)
      <4>1. PICK i \in 1..n : Inside(r[i])
        BY <2>2, <3>2 DEF Agrees
      <4>2. i # n
        BY <2>f, <3>2, <4>1
      <4> QED BY <1>1, <4>1, <4>2
    <3> QED BY <2>3, <3>1, <3>2 DEF MoveOK
  <2>8. library = {} => \A i \in 1..n : Inside(s[i]) => s[i].seen \in {NotCalled, w2.version}
    <3>0. SUFFICES ASSUME library = {}
                   PROVE  \A i \in 1..n : Inside(s[i]) => s[i].seen \in {NotCalled, w2.version}
      OBVIOUS
    <3>1. ASSUME NEW i \in 1..n, i # n, Inside(s[i]) PROVE s[i].seen \in {NotCalled, w2.version}
      <4>1. s[i] = r[i] /\ Inside(r[i])
        BY <1>1, <3>1
      <4>2. ~Inside(f)
        BY <2>4, <3>1, <4>1
      <4>3. w2.version = w.version /\ r[i].seen \in {NotCalled, w.version}
        BY <2>2, <2>3, <3>0, <4>1, <4>2 DEF MoveOK, Agrees
      <4> QED BY <4>1, <4>3
    <3>2. Inside(s[n]) => s[n].seen \in {NotCalled, w2.version}
      BY <1>1, <2>3, <3>0 DEF MoveOK
    <3> QED BY <3>1, <3>2
  <2>9. Agrees(s, w2, n)
    BY <2>6, <2>7, <2>8 DEF Agrees
  <2>10. \A k \in 1..n : Agrees(s, s[k].snap, k - 1)
    <3>1. ASSUME NEW k \in 1..n PROVE Agrees(s, s[k].snap, k - 1)
      <4>1. Agrees(r, r[k].snap, k - 1)
        BY <1>h, <2>1 DEF MutexInv
      <4>2. s[k].snap = r[k].snap
        BY <1>1, <1>g
      <4>3. k - 1 \in 0..(n - 1)
        BY <1>0
      <4> QED BY <1>4, <4>1, <4>2, <4>3
    <3> QED BY <3>1
  <2>11. \A k \in 1..n : Locking(s[k]) => w2.mutex = 0
    <3>1. \A k \in 1..n : k # n => Waiting(s[k])
      <4>1. \A k \in 1..n : k # n => k < n
        BY <1>0
      <4> QED BY <1>1, <1>2, <4>1 DEF FramesInv
    <3>2. Locking(s[n]) => w2.mutex = 0
      BY <1>1, <2>3 DEF MoveOK
    <3> QED BY <3>1, <3>2 DEF Locking, Waiting
  <2> QED BY <1>1, <2>5, <2>9, <2>10, <2>11 DEF MutexInv
<1>6. ASSUME Unguarded PROVE QuietInv(s, w2)
  <2>1. QuietInv(r, w) /\ Calm(r[n], w, g, w2)
    BY <1>6, <1>h DEF RunInv
  <2>2. \A k \in 1..n : \A i \in 1..(k - 1) : i \in 1..n /\ i # n
    BY <1>0
  <2>3. \A k \in 1..n : s[k].snap = r[k].snap /\ s[k].static = r[k].static
    BY <1>1, <1>g
  <2>4. \A k \in 1..n : \A i \in 1..(k - 1) : Fresh(s[i], s[k].snap) /\ (Quiet(s[i]) => s[k].static)
    BY <1>1, <1>h, <2>1, <2>2, <2>3 DEF QuietInv
  <2>5. ASSUME NEW i \in 1..n, i # n PROVE Fresh(s[i], w2)
    <3>1. s[i] = r[i] /\ i \in 1..(n - 1) /\ Fresh(r[i], w) /\ n \in 1..Len(r)
      BY <1>0, <1>1, <1>h, <2>1, <2>5 DEF QuietInv
    <3>2. Quiet(r[i]) => r[n].static
      BY <2>1, <3>1 DEF QuietInv
    <3> QED BY <2>1, <3>1, <3>2 DEF Calm, Fresh
  <2>6. Fresh(s[n], w2)
    BY <1>1, <2>1 DEF Calm
  <2>7. \A i \in 1..n : Fresh(s[i], w2)
    BY <2>5, <2>6
  <2> QED BY <1>1, <2>4, <2>7 DEF QuietInv
<1> QED BY <1>1, <1>2, <1>3, <1>5, <1>6 DEF RunInv, s, n

\* It goes on with the storage as it is and stays in the body, or out of it.
LEMMA StayOK ==
  ASSUME NEW r, NEW w, MutexInv(r, w), w \in World, NEW f, f = r[Len(r)], Len(r) \in Nat \ {0},
         NEW g, Inside(g) <=> Inside(f),
         library = {} => (Inside(g) => g.seen \in {NotCalled, w.version}),
         Locking(g) => w.mutex = 0
  PROVE  MoveOK(f, w, g, w)
<1>1. w.mutex = 0 => ~Inside(f)
  <2>1. Len(r) \in 1..Len(r)
    OBVIOUS
  <2> QED BY <2>1 DEF MutexInv, Agrees
<1> QED BY <1>1 DEF MoveOK

----------------------------------------------------------------------------
(* The steps of the run *)

\* The invariant of the run in the next state: the contract stays as it is.
LEMMA Carry ==
  ASSUME Unchanging, NEW r, NEW w, NEW t, frames' = r, world' = w, stale' = t, RunInv(r, w, t)
  PROVE  RunInv(frames, world, stale)'
<1>0. ir' = ir /\ opts' = opts /\ bug' = bug /\ library' = library
  BY DEF Unchanging, passVars
<1>1. (Guarded' <=> Guarded) /\ Prologue' = Prologue /\ (Safe' <=> Safe)
  BY <1>0 DEF Guarded, Prologue, Safe
<1>2. AfterCall' = AfterCall
  BY <1>0, Fixed
<1>3. Unguarded' <=> Unguarded
  BY <1>0 DEF Unguarded, HasOp, Unseen, IsExtCall
<1>4. ASSUME NEW i PROVE Inside(frames[i])' <=> Inside(r[i])
  BY <1>0, <1>1 DEF Inside, Here, Rewritten, IsReleasing, IsExtCall
<1>5. ASSUME NEW i PROVE Placed(frames[i])' <=> Placed(r[i])
  BY <1>0, <1>1 DEF Placed, Rewritten, IsReleasing, IsExtCall
<1>6. ASSUME NEW i PROVE Sent(frames[i])' <=> Sent(r[i])
  BY <1>0 DEF Sent, IsExtCall
<1>7. ASSUME NEW i PROVE (Waiting(frames[i])' <=> Waiting(r[i])) /\ (Locking(frames[i])' <=> Locking(r[i]))
  BY <1>1, <1>4 DEF Waiting, Locking
<1>8. FramesInv(frames)'
  BY <1>5, <1>7 DEF FramesInv, RunInv
<1>9. ChecksInv(frames)'
  BY <1>0, <1>6 DEF ChecksInv, RunInv, Delegated, HasOp
<1>10. ASSUME NEW k, NEW v, Agrees(r, v, k) PROVE Agrees(frames, v, k)'
  BY <1>0, <1>4, <1>10 DEF Agrees
<1>11. ASSUME Safe PROVE MutexInv(frames, world)'
  <2>1. MutexInv(r, w)
    BY <1>11 DEF RunInv
  <2>2. Agrees(frames, world, Len(frames))'
    BY <1>0, <1>4, <2>1 DEF MutexInv, Agrees
  <2>3. ASSUME NEW k \in 1..Len(r) PROVE Agrees(frames, frames[k].snap, k - 1)'
    BY <1>0, <1>4, <2>1 DEF MutexInv, Agrees
  <2>4. \A i, j \in 1..Len(r) : Inside(frames[i])' /\ Inside(frames[j])' => i = j
    BY <1>4, <2>1 DEF MutexInv
  <2>5. \A k \in 1..Len(r) : Locking(frames[k])' => w.mutex = 0
    BY <1>7, <2>1 DEF MutexInv
  <2> QED BY <2>2, <2>3, <2>4, <2>5 DEF MutexInv
<1>12. ASSUME Unguarded PROVE QuietInv(frames, world)'
  <2>1. QuietInv(r, w)
    BY <1>12 DEF RunInv
  <2>2. \A i : (Quiet(frames[i])' <=> Quiet(r[i])) /\ (Fresh(frames[i], world)' <=> Fresh(r[i], w))
    BY <1>2 DEF Quiet, Fresh
  <2>3. \A i, k : Fresh(frames[i], frames[k].snap)' <=> Fresh(r[i], r[k].snap)
    BY <1>2 DEF Quiet, Fresh
  <2> QED BY <2>1, <2>2, <2>3 DEF QuietInv
<1>13. /\ frames' \in Seq(Frame) /\ world' \in World
       /\ (Guarded /\ library = {}) \/ Unguarded => stale' = FALSE
  BY DEF RunInv
<1> QED BY <1>0, <1>1, <1>3, <1>8, <1>9, <1>11, <1>12, <1>13 DEF RunInv

\* The running frame of the contract.
LEMMA TopFacts ==
  ASSUME Inv, InC
  PROVE  /\ frames # << >> /\ frames \in Seq(Frame) /\ Len(frames) \in Nat \ {0}
         /\ Top \in Frame /\ Top.who = "C" /\ Placed(Top) /\ Top = frames[Len(frames)]
         /\ opts.EOAonly /\ ~(Top.blk = 0 /\ Top.part = 1) => Top.eoa
         /\ opts.checkSend /\ Sent(Top) => Top.ok
         /\ Safe /\ library = {} /\ Inside(Top) => Top.seen \in {NotCalled, world.version}
         /\ Unguarded => Fresh(Top, world) /\ stale = FALSE
         /\ Guarded /\ library = {} => stale = FALSE /\ Safe
         /\ Safe => MutexInv(frames, world) /\ (Locking(Top) => world.mutex = 0)
<1> DEFINE n == Len(frames)
<1>0. frames # << >> /\ Top.who = "C" /\ Top = frames[n]
  BY DEF InC, Running, Top
<1>1. frames \in Seq(Frame) /\ FramesInv(frames) /\ ChecksInv(frames)
  BY DEF Inv, RunInv
<1>2. n \in Nat /\ n \in 1..n /\ n # 0 /\ frames[n] \in Frame
  BY <1>0, <1>1
<1> HIDE DEF n
<1>h. Len(frames) = n
  BY DEF n
<1>3. Placed(Top)
  BY <1>0, <1>1, <1>2, <1>h DEF FramesInv
<1>4. opts.EOAonly /\ ~(Top.blk = 0 /\ Top.part = 1) => Top.eoa
  BY <1>0, <1>1, <1>2, <1>h DEF ChecksInv
<1>5. opts.checkSend /\ Sent(Top) => Top.ok
  BY <1>0, <1>1, <1>2, <1>h DEF ChecksInv
<1>6. Unguarded => Fresh(Top, world) /\ stale = FALSE
  BY <1>0, <1>2, <1>h DEF Inv, RunInv, QuietInv
<1>7. Safe => /\ MutexInv(frames, world)
              /\ library = {} /\ Inside(Top) => Top.seen \in {NotCalled, world.version}
              /\ Locking(Top) => world.mutex = 0
  BY <1>0, <1>2, <1>h DEF Inv, RunInv, MutexInv, Agrees
<1>8. Guarded /\ library = {} => stale = FALSE /\ Safe
  BY DEF Inv, RunInv, Safe
<1> QED BY <1>8, <1>0, <1>1, <1>2, <1>3, <1>4, <1>5, <1>6, <1>7, <1>h

\* A failed frame, whichever way it failed.
LEMMA FailKeeps ==
  ASSUME Inv, Running, Fail, Unchanging
  PROVE  RunInv(frames, world, stale)' /\ stale' = stale
<1>1. RunInv(frames, world, stale) /\ frames # << >> /\ frames \in Seq(Frame) /\ Top = frames[Len(frames)]
  BY DEF Inv, Running, RunInv, Top
<1>2. Len(frames) \in 1..Len(frames) /\ Top \in Frame
  BY <1>1
<1>3. Top.snap \in World
  BY <1>2 DEF Frame
<1>4. Safe => Agrees(frames, Top.snap, Len(frames) - 1)
  BY <1>1, <1>2 DEF RunInv, MutexInv
<1>7. Unguarded => \A i \in 1..(Len(frames) - 1) : Fresh(frames[i], Top.snap)
  BY <1>1, <1>2 DEF RunInv, QuietInv
<1>5. RunInv(PopOf(frames, FALSE), Top.snap, stale)
  BY <1>1, <1>3, <1>4, <1>7, PopKeeps
<1>6. frames' = PopOf(frames, FALSE) /\ world' = Top.snap /\ stale' = stale
  BY DEF Fail, Popped, Below, PopOf
<1> QED BY <1>5, <1>6, Carry

\* A frame that ends well, out of the body or on a contract that is doomed.
LEMMA EndKeeps ==
  ASSUME Inv, Running, frames' = Popped(TRUE), stale' = stale, Unchanging, world' \in World,
         world'.mutex = world.mutex, world'.version = world.version,
         \/ Safe => world' = world /\ ~Inside(Top)
         \/ world'.doomed = TRUE
  PROVE  RunInv(frames, world, stale)'
<1>1. RunInv(frames, world, stale) /\ frames # << >> /\ frames \in Seq(Frame) /\ Top = frames[Len(frames)]
  BY DEF Inv, Running, RunInv, Top
<1>2. Len(frames) \in Nat \ {0} /\ \A i \in 1..(Len(frames) - 1) : i \in 1..Len(frames)
  BY <1>1
<1>3. \A i \in 1..Len(frames) : i \in 1..(Len(frames) - 1) \/ i = Len(frames)
  BY <1>2
<1>4. ASSUME Safe PROVE Agrees(frames, world', Len(frames) - 1)
  <2>1. Agrees(frames, world, Len(frames))
    BY <1>1, <1>4 DEF RunInv, MutexInv
  <2>2. CASE world' = world /\ ~Inside(Top)
    BY <1>1, <1>2, <1>3, <2>1, <2>2 DEF Agrees
  <2>3. CASE world'.doomed = TRUE
    BY <1>2, <2>1, <2>3 DEF Agrees
  <2> QED BY <1>4, <2>2, <2>3
<1>7. Unguarded => \A i \in 1..(Len(frames) - 1) : Fresh(frames[i], world')
  BY <1>1, <1>2 DEF RunInv, QuietInv, Fresh
<1>5. RunInv(PopOf(frames, TRUE), world', stale)
  BY <1>1, <1>4, <1>7, PopKeeps
<1>6. frames' = PopOf(frames, TRUE)
  BY DEF Popped, Below, PopOf
<1> QED BY <1>5, <1>6, Carry

\* A frame that goes on.
LEMMA GoKeeps ==
  ASSUME Inv, InC, Unchanging, NEW g \in Frame, StepTo(g), Same(g, Top), Placed(g),
         opts.EOAonly => g.eoa, opts.checkSend /\ Sent(g) => g.ok, world' \in World,
         Unguarded => Calm(Top, world, g, world') /\ stale' = FALSE,
         Safe => MoveOK(Top, world, g, world'), Guarded /\ library = {} => stale' = FALSE
  PROVE  RunInv(frames, world, stale)'
<1>1. frames # << >> /\ Top = frames[Len(frames)] /\ RunInv(frames, world, stale)
  BY TopFacts DEF Inv
<1>2. RunInv([frames EXCEPT ![Len(frames)] = g], world', stale')
  BY <1>1, MoveKeeps
<1>3. frames' = [frames EXCEPT ![Len(frames)] = g]
  BY DEF StepTo
<1> QED BY <1>2, <1>3, Carry

\* A frame in the body keeps its place when only its result or what it has
\* seen changes.
LEMMA SameBody ==
  ASSUME NEW f, NEW g, f.who = g.who, f.blk = g.blk, f.blk # 0, f.idx = g.idx, f.part = g.part
  PROVE  /\ Placed(f) <=> Placed(g)
         /\ Inside(f) <=> Inside(g)
         /\ Sent(f) <=> Sent(g)
         /\ ~Locking(g)
<1>1. Here(f) = Here(g)
  BY DEF Here
<1>2. Inside(f) <=> Inside(g)
  BY <1>1 DEF Inside
<1>3. Placed(f) <=> Placed(g)
  BY DEF Placed
<1>4. (Sent(f) <=> Sent(g)) /\ ~Locking(g)
  BY DEF Sent, Locking
<1> QED BY <1>2, <1>3, <1>4

\* Origin and CheckMutex pass: the frame is still before the lock.
LEMMA PrologueStep ==
  ASSUME Inv, Origin \/ CheckMutex
  PROVE  RunInv(frames, world, stale)' /\ stale' \in BOOLEAN
<1>0. InC /\ Running /\ ~AtEnd(Top) /\ OpOf(Top) \in {"origin", "check"} /\ Unchanging
  BY DEF Origin, CheckMutex, OpIs, InC
<1>1. TypeOK /\ stale \in BOOLEAN /\ world \in World
  BY DEF Inv, TypeOK
<1>2. /\ Top \in Frame /\ Top.who = "C" /\ Placed(Top)
      /\ Safe => MutexInv(frames, world)
      /\ Guarded /\ library = {} => stale = FALSE
      /\ Unguarded => stale = FALSE
      /\ Top = frames[Len(frames)] /\ Len(frames) \in Nat \ {0}
  BY <1>0, TopFacts
<1>3. /\ Top.blk = 0 /\ Top.part \in 1..Len(Prologue) /\ Prologue[Top.part] = OpOf(Top)
      /\ Top.seen = NotCalled /\ Advanced(Top) = [Top EXCEPT !.part = Top.part + 1]
  BY <1>0, <1>1, <1>2, InPrologue
<1>4. CASE Fail
  BY <1>0, <1>1, <1>4, FailKeeps
<1>5. CASE /\ StepTo(Advanced(Top)) /\ UNCHANGED <<world, stale>>
           /\ \/ OpOf(Top) = "origin" /\ Top.eoa
              \/ OpOf(Top) = "check" /\ world.mutex = 0
  <2> DEFINE g == [Top EXCEPT !.part = Top.part + 1]
  <2>1. /\ g \in Frame /\ g.who = "C" /\ g.blk = 0 /\ g.part = Top.part + 1 /\ g.snap = Top.snap
        /\ g.seen = NotCalled /\ g.static = Top.static /\ g.eoa = Top.eoa
    BY <1>2, <1>3 DEF Frame
  <2>2. Advanced(Top) = g
    BY <1>3
  <2> HIDE DEF g
  <2>3. Len(Prologue) \in Nat /\ Top.part \in Nat /\ Top.part <= Len(Prologue)
    BY <1>1, <1>3, PrologueLen
  <2>4. Placed(g) /\ ~Sent(g)
    BY <2>1, <2>3 DEF Placed, Sent
  <2>5. ASSUME Guarded PROVE Top.part + 1 <= Len(Prologue)
    <3>1. \/ OpOf(Top) = "check" /\ Top.part = Len(Prologue) - 1
          \/ OpOf(Top) = "origin" /\ Top.part = 1 /\ Len(Prologue) = 3
      BY <1>0, <1>1, <1>3, <2>5, PrologueOps
    <3>2. \A a, b \in Nat : a = b - 1 \/ (a = 1 /\ b = 3) => a + 1 <= b
      OBVIOUS
    <3> QED BY <2>3, <3>1, <3>2
  <2>6. ASSUME Guarded PROVE ~Inside(g) /\ ~Inside(Top)
    <3>1. ~(Top.part > Len(Prologue)) /\ ~(g.part > Len(Prologue))
      BY <2>1, <2>3, <2>5, <2>6
    <3> QED BY <1>3, <2>1, <3>1 DEF Inside
  <2>7. opts.EOAonly => Top.eoa
    <3>1. SUFFICES ASSUME opts.EOAonly, OpOf(Top) = "check" PROVE Top.eoa
      BY <1>5
    <3>2. Top.part # 1
      BY <1>1, <1>3, <3>1, PrologueOps
    <3> QED BY <1>0, <3>1, <3>2, TopFacts
  <2>8. Safe => MoveOK(Top, world, g, world')
    <3>1. SUFFICES ASSUME Safe, Guarded PROVE MoveOK(Top, world, g, world')
      BY DEF Safe
    <3>2. Locking(g) => world.mutex = 0
      <4>1. SUFFICES ASSUME Locking(g) PROVE world.mutex = 0
        OBVIOUS
      <4>2. Top.part = Len(Prologue) - 1
        BY <2>1, <2>3, <4>1 DEF Locking
      <4>3. OpOf(Top) = "check"
        <5>1. OpOf(Top) = "origin" => Top.part = 1 /\ Len(Prologue) = 3
          BY <1>1, <1>3, <3>1, PrologueOps
        <5>2. OpOf(Top) # "origin"
          <6>1. \A a, b \in Nat : a = b - 1 => ~(a = 1 /\ b = 3)
            OBVIOUS
          <6> QED BY <2>3, <4>2, <5>1, <6>1
        <5> QED BY <1>0, <5>2
      <4> QED BY <1>5, <4>3
    <3> QED BY <1>1, <1>2, <1>5, <2>6, <3>1, <3>2, StayOK
  <2>9. Same(g, Top) /\ Calm(Top, world, g, world')
    BY <1>2, <1>5, <2>1 DEF Same, Calm, Fresh
  <2> QED BY <1>0, <1>1, <1>2, <1>5, <2>1, <2>2, <2>4, <2>7, <2>8, <2>9, GoKeeps
<1> QED BY <1>4, <1>5 DEF Origin, CheckMutex, OpIs

\* The lock is taken while it is free, and given back by the frame in the body.
LEMMA SetMutexStep ==
  ASSUME Inv, SetMutex
  PROVE  RunInv(frames, world, stale)' /\ stale' \in BOOLEAN
<1>0. InC /\ Running /\ ~AtEnd(Top) /\ OpOf(Top) \in {"lock", "unlock"} /\ Unchanging
  BY DEF SetMutex, OpIs, InC
<1>1. TypeOK /\ stale \in BOOLEAN /\ world \in World
  BY DEF Inv, TypeOK
<1>2. /\ Top \in Frame /\ Top.who = "C" /\ Placed(Top)
      /\ Safe => MutexInv(frames, world) /\ (Locking(Top) => world.mutex = 0)
      /\ Guarded /\ library = {} => stale = FALSE
      /\ Unguarded => stale = FALSE
      /\ Safe /\ library = {} /\ Inside(Top) => Top.seen \in {NotCalled, world.version}
      /\ opts.checkSend /\ Sent(Top) => Top.ok
      /\ opts.EOAonly /\ ~(Top.blk = 0 /\ Top.part = 1) => Top.eoa
  BY <1>0, TopFacts
<1>3. CASE Fail
  BY <1>0, <1>1, <1>3, FailKeeps
<1>4. CASE ~Fail
  <2>1. /\ world' = [world EXCEPT !.mutex = IF OpOf(Top) = "lock" THEN 1 ELSE 0]
        /\ StepTo(Advanced(Top)) /\ stale' = stale
    BY <1>0, <1>4 DEF SetMutex, OpIs, Locked
  <2>2. /\ world' \in World /\ world'.version = world.version /\ world'.doomed = world.doomed
        /\ world'.mutex = IF OpOf(Top) = "lock" THEN 1 ELSE 0
    BY <1>1, <2>1 DEF World
  <2>3. CASE OpOf(Top) = "lock"
    <3> DEFINE g == [Top EXCEPT !.part = Top.part + 1]
    <3>1. /\ Top.blk = 0 /\ Top.part \in 1..Len(Prologue) /\ Prologue[Top.part] = "lock"
          /\ Top.seen = NotCalled /\ Advanced(Top) = g
      BY <1>0, <1>1, <1>2, <2>3, InPrologue
    <3>2. /\ g \in Frame /\ g.who = "C" /\ g.blk = 0 /\ g.part = Top.part + 1 /\ g.snap = Top.snap
          /\ g.seen = NotCalled /\ Same(g, Top)
      BY <1>2, <3>1 DEF Frame, Same
    <3> HIDE DEF g
    <3>3. Guarded /\ Top.part = Len(Prologue) /\ Len(Prologue) \in Nat /\ Len(Prologue) >= 2
      BY <1>1, <3>1, PrologueOps, PrologueLen
    <3>4. Safe => world.mutex = 0
      BY <1>2, <3>1, <3>3 DEF Locking
    <3>5. g.part = Len(Prologue) + 1 /\ g.part > Len(Prologue) /\ g.part # Len(Prologue) /\ Top.part # 1
      <4>1. \A n \in Nat : n >= 2 => n + 1 > n /\ n + 1 # n /\ n # 1
        OBVIOUS
      <4> QED BY <3>2, <3>3, <4>1
    <3>6. Placed(g) /\ ~Sent(g) /\ Inside(g) /\ ~Locking(g)
      BY <3>2, <3>3, <3>5 DEF Placed, Sent, Inside, Locking
    <3>7. Safe => MoveOK(Top, world, g, world')
      BY <2>2, <2>3, <3>2, <3>4, <3>6 DEF MoveOK
    <3>8. ~Unguarded
      BY <3>3 DEF Unguarded, Guarded
    <3>9. opts.EOAonly => g.eoa
      BY <1>2, <3>2, <3>5 DEF Same
    <3> QED BY <1>0, <1>1, <1>2, <2>1, <2>2, <3>1, <3>2, <3>6, <3>7, <3>8, <3>9, GoKeeps
  <2>4. CASE OpOf(Top) = "unlock"
    <3> DEFINE g == Advanced(Top)
    <3>1. Top.blk # 0 /\ Top.part = 1 /\ Releasing(Top.blk, Top.idx)
      BY <1>0, <1>1, <1>2, <2>4, InBody, BodyOps
    <3>2. /\ g \in Frame /\ Placed(g) /\ g.blk = Top.blk /\ g.blk # 0
          /\ g.who = "C" /\ g.snap = Top.snap /\ g.ok = Top.ok /\ g.seen = Top.seen
          /\ ~Inside(g) /\ Inside(Top) /\ g.static = Top.static /\ g.eoa = Top.eoa
          /\ opts.checkSend /\ Sent(g) => Sent(Top)
      BY <1>0, <1>1, <1>2, <2>4, <3>1, BodyAdvance
    <3> HIDE DEF g
    <3>3. Guarded /\ ~Unguarded
      BY <3>1 DEF Releasing, Unguarded, Guarded
    <3>4. MoveOK(Top, world, g, world')
      BY <2>2, <2>4, <3>2 DEF MoveOK, Locking
    <3>5. Same(g, Top) /\ (opts.EOAonly => g.eoa)
      BY <1>2, <3>1, <3>2 DEF Same
    <3> QED BY <1>0, <1>1, <1>2, <2>1, <2>2, <3>2, <3>3, <3>4, <3>5, GoKeeps DEF g
  <2> QED BY <1>0, <2>3, <2>4
<1> QED BY <1>3, <1>4

\* A store: based on what the frame has seen.
LEMMA StoreStep ==
  ASSUME Inv, StorageStore
  PROVE  RunInv(frames, world, stale)' /\ stale' \in BOOLEAN
<1>0. InC /\ Running /\ ~AtEnd(Top) /\ OpOf(Top) = "storageStore" /\ Unchanging
  BY DEF StorageStore, OpIs, InC
<1>1. TypeOK /\ stale \in BOOLEAN /\ world \in World /\ DetectExact /\ phase = "run"
  BY <1>0 DEF Inv, TypeOK, DetectInv, InC, Running
<1>2. /\ Top \in Frame /\ Top.who = "C" /\ Placed(Top)
      /\ Safe => MutexInv(frames, world)
      /\ Guarded /\ library = {} => stale = FALSE /\ Safe
      /\ Unguarded => stale = FALSE /\ Fresh(Top, world)
      /\ Safe /\ library = {} /\ Inside(Top) => Top.seen \in {NotCalled, world.version}
      /\ opts.EOAonly /\ ~(Top.blk = 0 /\ Top.part = 1) => Top.eoa
      /\ Top = frames[Len(frames)] /\ Len(frames) \in Nat \ {0}
  BY <1>0, TopFacts
<1>3. /\ Top.blk \in Block /\ Top.blk # 0 /\ Top.idx \in 1..Len(ir.code[Top.blk])
      /\ ir.code[Top.blk][Top.idx] = "storageStore" /\ ~Releasing(Top.blk, Top.idx)
  BY <1>0, <1>1, <1>2, InBody, BodyOps
<1>4. CASE Fail
  BY <1>0, <1>1, <1>4, FailKeeps
<1>5. CASE ~Fail
  <2> DEFINE a == Advanced(Top)
             g == [a EXCEPT !.seen = IF a.seen = NotCalled THEN a.seen ELSE world.version + 1]
  <2>1. /\ world.version < MaxWrites /\ world' = [world EXCEPT !.version = world.version + 1]
        /\ stale' = (stale \/ Top.seen \notin {NotCalled, world.version}) /\ StepTo(g)
        /\ ~Top.static
    BY <1>5 DEF StorageStore
  <2>2. /\ world' \in World /\ world'.version = world.version + 1 /\ world'.mutex = world.mutex
        /\ world'.doomed = world.doomed /\ world.version + 1 \in 0..NotCalled
    BY <1>1, <2>1, HardeningAssumption DEF World, NotCalled
  <2>3. /\ a \in Frame /\ Placed(a) /\ a.blk = Top.blk /\ a.blk # 0 /\ a.who = "C"
        /\ a.snap = Top.snap /\ a.seen = Top.seen /\ Inside(a) /\ Inside(Top)
        /\ a.static = Top.static /\ a.eoa = Top.eoa
        /\ opts.checkSend => ~Sent(a)
    BY <1>0, <1>1, <1>2, <1>3, BodyAdvance
  <2> HIDE DEF a
  <2>4. /\ g \in Frame /\ g.who = a.who /\ g.blk = a.blk /\ g.idx = a.idx /\ g.part = a.part
        /\ g.snap = Top.snap /\ g.ok = a.ok /\ g.static = Top.static /\ g.eoa = Top.eoa
        /\ g.seen = IF Top.seen = NotCalled THEN NotCalled ELSE world'.version
    BY <2>2, <2>3 DEF Frame
  <2> HIDE DEF g
  <2>5. Placed(g) /\ Inside(g) /\ (opts.checkSend => ~Sent(g)) /\ ~Locking(g)
    BY <2>3, <2>4, SameBody
  <2>6. stale' \in BOOLEAN
    BY <2>1
  <2>7. Top.seen \in {NotCalled, world.version} /\ stale = FALSE => stale' = FALSE
    BY <2>1
  <2>10. Same(g, Top) /\ (opts.EOAonly => g.eoa)
    BY <1>2, <1>3, <2>3, <2>4 DEF Same
  <2>11. Guarded /\ library = {} => stale' = FALSE
    BY <1>2, <2>3, <2>7
  <2>8. ASSUME Safe PROVE MoveOK(Top, world, g, world')
    <3>1. world.mutex # 0
      <4>1. Len(frames) \in 1..Len(frames) /\ Agrees(frames, world, Len(frames))
        BY <1>2, <2>8 DEF MutexInv
      <4> QED BY <1>2, <2>3, <4>1 DEF Agrees
    <3> QED BY <1>2, <2>2, <2>3, <2>4, <2>5, <2>8, <3>1 DEF MoveOK
  <2>9. ASSUME Unguarded PROVE Calm(Top, world, g, world') /\ stale' = FALSE
    <3>1. Top.blk \in Stores
      BY <1>3 DEF Stores, HasOp
    <3>2. AfterCall \intersect Stores = {}
      BY <1>1, <2>9, ExactMeans DEF BugMeans, Unguarded
    <3>3. Top.seen \in {NotCalled, world.version}
      BY <1>2, <2>9, <3>1, <3>2 DEF Fresh, Quiet
    <3>4. Fresh(g, world')
      BY <2>4 DEF Fresh
    <3> QED BY <1>2, <2>1, <2>7, <2>9, <3>3, <3>4 DEF Calm
  <2> QED BY <1>0, <1>1, <2>1, <2>2, <2>4, <2>5, <2>6, <2>8, <2>9, <2>10, <2>11, GoKeeps
<1> QED BY <1>4, <1>5

\* The test of the result of the call at vulpc.
LEMMA RequireStep ==
  ASSUME Inv, Require
  PROVE  RunInv(frames, world, stale)' /\ stale' \in BOOLEAN
<1>0. InC /\ Running /\ ~AtEnd(Top) /\ OpOf(Top) = "require" /\ Unchanging
  BY DEF Require, OpIs, InC
<1>1. TypeOK /\ stale \in BOOLEAN /\ world \in World
  BY DEF Inv, TypeOK
<1>2. /\ Top \in Frame /\ Top.who = "C" /\ Placed(Top)
      /\ Safe => MutexInv(frames, world)
      /\ Guarded /\ library = {} => stale = FALSE /\ Safe
      /\ Unguarded => stale = FALSE /\ Fresh(Top, world)
      /\ Safe /\ library = {} /\ Inside(Top) => Top.seen \in {NotCalled, world.version}
      /\ opts.EOAonly /\ ~(Top.blk = 0 /\ Top.part = 1) => Top.eoa
      /\ Top = frames[Len(frames)] /\ Len(frames) \in Nat \ {0}
  BY <1>0, TopFacts
<1>3. Top.blk # 0 /\ ~Releasing(Top.blk, Top.idx)
  BY <1>0, <1>1, <1>2, InBody, BodyOps DEF Checked, Releasing
<1>4. CASE Fail
  BY <1>0, <1>1, <1>4, FailKeeps
<1>5. CASE Top.ok /\ StepTo(Advanced(Top)) /\ UNCHANGED <<world, stale>>
  <2> DEFINE g == Advanced(Top)
  <2>1. /\ g \in Frame /\ Placed(g) /\ g.blk = Top.blk /\ g.blk # 0 /\ g.who = "C"
        /\ g.snap = Top.snap /\ g.seen = Top.seen /\ g.ok = Top.ok /\ Inside(g) /\ Inside(Top)
        /\ g.static = Top.static /\ g.eoa = Top.eoa
    BY <1>0, <1>1, <1>2, <1>3, BodyAdvance
  <2> HIDE DEF g
  <2>2. Safe => MoveOK(Top, world, g, world')
    BY <1>1, <1>2, <1>5, <2>1, StayOK DEF Locking
  <2>3. Same(g, Top) /\ (opts.EOAonly => g.eoa)
    BY <1>2, <1>3, <2>1 DEF Same
  <2>4. Unguarded => Calm(Top, world, g, world')
    BY <1>2, <1>5, <2>1 DEF Calm, Fresh, Quiet
  <2> QED BY <1>0, <1>1, <1>2, <1>5, <2>1, <2>2, <2>3, <2>4, GoKeeps DEF g
<1> QED BY <1>4, <1>5 DEF Require

\* A call or a creation: the frame waits in the body, learns that the host
\* refused, or fails because it is static.
LEMMA CallStep ==
  ASSUME Inv, Call
  PROVE  RunInv(frames, world, stale)' /\ stale' \in BOOLEAN
<1> DEFINE a == Advanced(Top)
           f == [a EXCEPT !.seen = IF a.seen = NotCalled THEN world.version ELSE a.seen]
<1>5. PICK op \in Calling :
        /\ OpIs(op) /\ Unchanging
        /\ \/ op \in Creating /\ Top.static /\ Fail
           \/ /\ frames' = Append([frames EXCEPT ![Len(frames)] = f], Callee(op))
              /\ UNCHANGED <<world, stale>>
           \/ StepTo([f EXCEPT !.ok = FALSE]) /\ UNCHANGED <<world, stale>>
  BY DEF Call
<1>0. InC /\ Running /\ ~AtEnd(Top) /\ OpOf(Top) = op /\ OpOf(Top) \in Calling /\ Unchanging
  BY <1>5 DEF OpIs, InC
<1>1. TypeOK /\ stale \in BOOLEAN /\ world \in World
  BY DEF Inv, TypeOK
<1>2. /\ Top \in Frame /\ Top.who = "C" /\ Placed(Top)
      /\ Safe => MutexInv(frames, world)
      /\ Guarded /\ library = {} => stale = FALSE
      /\ Unguarded => stale = FALSE /\ Fresh(Top, world)
      /\ Safe /\ library = {} /\ Inside(Top) => Top.seen \in {NotCalled, world.version}
      /\ opts.EOAonly /\ ~(Top.blk = 0 /\ Top.part = 1) => Top.eoa
      /\ Top = frames[Len(frames)] /\ Len(frames) \in Nat \ {0}
      /\ frames # << >> /\ frames \in Seq(Frame) /\ RunInv(frames, world, stale)
  BY <1>0, TopFacts DEF Inv
<1>3. /\ Top.blk \in Block /\ Top.blk # 0 /\ Top.idx \in 1..Len(ir.code[Top.blk])
      /\ ir.code[Top.blk][Top.idx] = op /\ ~Releasing(Top.blk, Top.idx)
  BY <1>0, <1>1, <1>2, InBody, BodyOps DEF Calling
<1>4. /\ a \in Frame /\ Placed(a) /\ a.blk = Top.blk /\ a.blk # 0 /\ a.who = "C"
      /\ a.snap = Top.snap /\ a.seen = Top.seen /\ Inside(a) /\ Inside(Top)
      /\ opts.checkSend => ~Sent(a)
      /\ a.static = Top.static /\ a.eoa = Top.eoa
  <2>1. OpOf(Top) \notin {"require", "unlock", "origin", "check", "lock"}
    BY <1>0 DEF Calling
  <2> QED BY <1>0, <1>1, <1>2, <1>3, <2>1, BodyAdvance
<1> HIDE DEF a
<1>6. world.version \in 0..NotCalled
  BY <1>1, HardeningAssumption DEF World, NotCalled
<1>7. ASSUME NEW g \in {f, [f EXCEPT !.ok = FALSE]}
      PROVE  /\ g \in Frame /\ g.who = a.who /\ g.blk = a.blk /\ g.idx = a.idx /\ g.part = a.part
             /\ g.snap = Top.snap /\ g.static = Top.static /\ g.eoa = Top.eoa
             /\ g.seen = IF Top.seen = NotCalled THEN world.version ELSE Top.seen
  BY <1>4, <1>6 DEF Frame
<1> HIDE DEF f
<1>8. ASSUME Unguarded PROVE op = "callStatic" \/ Top.blk \in AfterCall
  <2>1. HasOp(Top.blk, op)
    BY <1>3 DEF HasOp
  <2>2. op \notin Unseen
    BY <1>3, <1>8, <2>1 DEF Unguarded
  <2>3. op = "callStatic" \/ IsExtCall(op)
    BY <1>5, <2>2 DEF Unseen
  <2>4. IsExtCall(op) => Top.blk \in CallBlocks
    BY <1>3 DEF CallBlocks
  <2> QED BY <1>1, <2>3, <2>4, AfterCallClosed
<1>9. ASSUME NEW g \in {f, [f EXCEPT !.ok = FALSE]}
      PROVE  /\ Placed(g) /\ Inside(g) /\ (opts.checkSend => ~Sent(g)) /\ ~Locking(g)
             /\ Same(g, Top) /\ (opts.EOAonly => g.eoa)
             /\ Unguarded => Calm(Top, world, g, world)
             /\ Safe => MoveOK(Top, world, g, world)
  <2>1. /\ g.who = a.who /\ g.blk = a.blk /\ g.idx = a.idx /\ g.part = a.part
        /\ g.snap = Top.snap /\ g.static = Top.static /\ g.eoa = Top.eoa
        /\ g.seen = IF Top.seen = NotCalled THEN world.version ELSE Top.seen
    BY <1>7
  <2>2. Placed(g) /\ Inside(g) /\ (opts.checkSend => ~Sent(g)) /\ ~Locking(g)
    BY <1>4, <2>1, SameBody
  <2>3. Safe => MoveOK(Top, world, g, world)
    <3>1. SUFFICES ASSUME Safe PROVE MoveOK(Top, world, g, world)
      OBVIOUS
    <3>2. library = {} => g.seen \in {NotCalled, world.version}
      BY <1>2, <1>4, <2>1, <3>1
    <3> QED BY <1>1, <1>2, <1>4, <2>2, <3>1, <3>2, StayOK
  <2>4. Same(g, Top) /\ (opts.EOAonly => g.eoa)
    BY <1>2, <1>3, <1>4, <2>1 DEF Same
  <2>5. Unguarded => Calm(Top, world, g, world)
    BY <1>2, <1>4, <2>1 DEF Calm, Fresh, Quiet
  <2> QED BY <2>2, <2>3, <2>4, <2>5
<1>10. CASE StepTo([f EXCEPT !.ok = FALSE]) /\ UNCHANGED <<world, stale>>
  <2> DEFINE g == [f EXCEPT !.ok = FALSE]
  <2>1. /\ g \in Frame /\ Same(g, Top) /\ Placed(g) /\ (opts.checkSend => ~Sent(g))
        /\ opts.EOAonly => g.eoa
        /\ Unguarded => Calm(Top, world, g, world)
        /\ Safe => MoveOK(Top, world, g, world)
    BY <1>7, <1>9
  <2> HIDE DEF g
  <2> QED BY <1>0, <1>1, <1>2, <1>10, <2>1, GoKeeps DEF g
<1>11. CASE /\ frames' = Append([frames EXCEPT ![Len(frames)] = f], Callee(op))
            /\ UNCHANGED <<world, stale>>
  <2> DEFINE s == [frames EXCEPT ![Len(frames)] = f]
             who == IF op \in Lending THEN "D" ELSE "E"
             static == Top.static \/ op = "callStatic"
             eoa == op = "callDelegate" /\ Top.eoa
  <2>1. /\ f \in Frame /\ Same(f, Top) /\ Placed(f) /\ Inside(f) /\ (opts.checkSend => ~Sent(f))
        /\ opts.EOAonly => f.eoa
        /\ Unguarded => Calm(Top, world, f, world)
        /\ Safe => MoveOK(Top, world, f, world)
        /\ f.blk = Top.blk /\ f.who = "C" /\ f.eoa = Top.eoa /\ f.static = Top.static
    BY <1>4, <1>7, <1>9
  <2>2. RunInv(s, world, stale)
    BY <1>1, <1>2, <2>1, MoveKeeps
  <2>3. s[Len(s)] = f /\ s # << >> /\ Len(s) \in 1..Len(s)
    BY <1>2, <2>1
  <2> HIDE DEF s
  <2>4. Waiting(s[Len(s)]) /\ (opts.checkSend => ~Sent(s[Len(s)]))
    BY <1>3, <2>1, <2>3 DEF Waiting
  <2>5. who \in {"C", "D", "E"} /\ static \in BOOLEAN /\ eoa \in BOOLEAN
    BY <1>2 DEF Frame
  <2>6. eoa => Delegated(s)
    <3>1. SUFFICES ASSUME op = "callDelegate", Top.eoa PROVE Delegated(s)
      OBVIOUS
    <3>2. \E b \in Block : HasOp(b, "callDelegate")
      BY <1>3, <3>1 DEF HasOp
    <3>3. Len(s) # 1 => Delegated(s)
      BY <2>1, <2>2, <2>3, <3>1 DEF RunInv, ChecksInv
    <3> QED BY <2>1, <2>3, <3>2, <3>3 DEF Delegated
  <2>7. Unguarded => (s[Len(s)].static \/ Quiet(s[Len(s)]) => static)
    BY <1>8, <2>1, <2>3 DEF Quiet
  <2> HIDE DEF who, static, eoa
  <2>8. RunInv(Append(s, NewFrame(who, static, eoa, world)), world, stale)
    BY <1>1, <2>2, <2>3, <2>4, <2>5, <2>6, <2>7, PushKeeps
  <2>9. frames' = Append(s, NewFrame(who, static, eoa, world))
    BY <1>11 DEF s, Callee, who, static, eoa
  <2> QED BY <1>0, <1>1, <1>11, <2>8, <2>9, Carry
<1>12. CASE Fail
  BY <1>0, <1>1, <1>12, FailKeeps
<1> QED BY <1>5, <1>10, <1>11, <1>12

\* The ends of a frame of the contract.
LEMMA EndStep ==
  ASSUME Inv, SelfDestruct \/ Finish \/ RevertOrTrap \/ OutOfGas
  PROVE  RunInv(frames, world, stale)' /\ stale' \in BOOLEAN
<1>0. InC /\ Running /\ Unchanging
  BY DEF SelfDestruct, Finish, RevertOrTrap, OutOfGas, OpIs, InC
<1>1. TypeOK /\ stale \in BOOLEAN /\ world \in World
  BY DEF Inv, TypeOK
<1>2. Top \in Frame /\ Top.who = "C" /\ Placed(Top)
  BY <1>0, TopFacts
<1>3. CASE Fail
  BY <1>0, <1>1, <1>3, FailKeeps
<1>4. CASE Finish
  <2>1. frames' = Popped(TRUE) /\ world' = world /\ stale' = stale /\ OpOf(Top) = "finish" /\ ~AtEnd(Top)
    BY <1>4 DEF Finish, Succeed, OpIs
  <2>2. Safe => ~Inside(Top)
    <3>1. Guarded => ~Inside(Top)
      BY <1>0, <1>1, <1>2, <2>1, BodyOps, BodyAdvance
    <3> QED BY <3>1 DEF Safe
  <2> QED BY <1>0, <1>1, <2>1, <2>2, EndKeeps
<1>5. CASE SelfDestruct /\ ~Fail
  <2>1. frames' = Popped(TRUE) /\ world' = [world EXCEPT !.doomed = TRUE] /\ stale' = stale
    BY <1>5 DEF SelfDestruct
  <2>2. /\ world' \in World /\ world'.mutex = world.mutex /\ world'.version = world.version
        /\ world'.doomed = TRUE
    BY <1>1, <2>1 DEF World
  <2> QED BY <1>0, <1>1, <2>1, <2>2, EndKeeps
<1> QED BY <1>3, <1>4, <1>5 DEF RevertOrTrap, OutOfGas

\* A branch.
LEMMA BranchStep ==
  ASSUME Inv, Branch
  PROVE  RunInv(frames, world, stale)' /\ stale' \in BOOLEAN
<1>0. InC /\ Running /\ AtEnd(Top) /\ Unchanging /\ world' = world /\ stale' = stale
  BY DEF Branch, InC
<1>1. TypeOK /\ stale \in BOOLEAN /\ world \in World
  BY DEF Inv, TypeOK
<1>2. /\ Top \in Frame /\ Top.who = "C" /\ Placed(Top)
      /\ Safe => MutexInv(frames, world)
      /\ Guarded /\ library = {} => stale = FALSE /\ Safe
      /\ Unguarded => stale = FALSE /\ Fresh(Top, world)
      /\ Safe /\ library = {} /\ Inside(Top) => Top.seen \in {NotCalled, world.version}
      /\ opts.EOAonly /\ ~(Top.blk = 0 /\ Top.part = 1) => Top.eoa
      /\ Top = frames[Len(frames)] /\ Len(frames) \in Nat \ {0}
  BY <1>0, TopFacts
<1>3. PICK b \in (IF Top.blk = 0 THEN {1} ELSE ir.succ[Top.blk]) :
        StepTo([Top EXCEPT !.blk = b, !.idx = 1, !.part = 1])
  BY DEF Branch
<1>4. Top.blk # 0 => Top.blk \in Block
  BY <1>2, HardeningAssumption DEF Frame, Block
<1>5. b \in Block /\ b # 0 /\ (Top.blk # 0 => b \in ir.succ[Top.blk])
  <2>1. 1 \in Block
    BY HardeningAssumption DEF Block
  <2>2. b \in Block
    BY <1>1, <1>3, <1>4, <2>1, IrFacts
  <2>3. b # 0
    BY <2>2 DEF Block
  <2> QED BY <1>3, <2>2, <2>3
<1>6. Inside(Top) /\ (opts.EOAonly => ~(Top.blk = 0 /\ Top.part = 1))
  <2>1. CASE Top.blk = 0
    <3>1. Top.part > Len(Prologue)
      BY <1>0, <2>1 DEF AtEnd
    <3>2. opts.EOAonly => Top.part # 1
      BY <1>1, <3>1, PrologueLen
    <3> QED BY <1>2, <2>1, <3>1, <3>2 DEF Inside
  <2>2. CASE Top.blk # 0
    <3>1. Top.part = 1
      BY <1>0, <1>2, <2>2 DEF AtEnd, Placed
    <3> QED BY <1>2, <2>2, <3>1 DEF Inside
  <2> QED BY <2>1, <2>2
<1> DEFINE g == [Top EXCEPT !.blk = b, !.idx = 1, !.part = 1]
<1>7. /\ g \in Frame /\ g.who = "C" /\ g.blk = b /\ g.idx = 1 /\ g.part = 1
      /\ g.snap = Top.snap /\ g.seen = Top.seen /\ g.static = Top.static /\ g.eoa = Top.eoa
  <2>1. b \in 0..NumBlocks /\ 1 \in Nat \ {0}
    BY <1>5, HardeningAssumption DEF Block
  <2>2. g \in Frame
    BY <1>2, <2>1 DEF Frame
  <2>3. /\ g.who = "C" /\ g.blk = b /\ g.idx = 1 /\ g.part = 1
        /\ g.snap = Top.snap /\ g.seen = Top.seen /\ g.static = Top.static /\ g.eoa = Top.eoa
    BY <1>2 DEF Frame
  <2> QED BY <2>2, <2>3
<1>8. StepTo(g)
  BY <1>3
<1> HIDE DEF g
<1>9. Placed(g)
  <2>1. Len(ir.code[b]) \in Nat
    BY <1>1, <1>5, IrFacts
  <2>2. 1 <= Len(ir.code[b]) => 1 <= Len(Rewritten(b, 1))
    <3>1. 1 <= Len(ir.code[b]) => Len(Rewritten(b, 1)) \in {1, 2}
      BY <1>1, <1>5, <2>1, RewrittenOps
    <3>2. \A n \in {1, 2} : 1 <= n
      OBVIOUS
    <3> QED BY <3>1, <3>2
  <2>3. 1 > Len(ir.code[b]) => 1 = Len(ir.code[b]) + 1
    BY <2>1
  <2> QED BY <1>5, <1>7, <2>2, <2>3 DEF Placed
<1>10. Inside(g) /\ ~Locking(g)
  BY <1>5, <1>7 DEF Inside, Locking
<1>11. ~Sent(g)
  <2>1. opts.vulpc[2] \in Nat \ {0}
    BY <1>1 DEF TypeOK, Options, Pc
  <2>2. 1 # opts.vulpc[2] + 1
    BY <2>1
  <2> QED BY <1>7, <2>2 DEF Sent
<1>12. Unguarded => Calm(Top, world, g, world)
  <2>1. SUFFICES ASSUME Unguarded, Top.seen # NotCalled, b \notin AfterCall
                 PROVE  Top.seen = world.version
    BY <1>7 DEF Calm, Fresh, Quiet
  <2>2. Top.blk # 0
    BY <1>2, <2>1 DEF Placed
  <2>3. Top.blk \notin AfterCall
    BY <1>1, <1>5, <2>1, <2>2, AfterCallClosed
  <2> QED BY <1>2, <2>1, <2>3 DEF Fresh, Quiet
<1>14. Same(g, Top) /\ (opts.EOAonly => g.eoa)
  BY <1>2, <1>6, <1>7 DEF Same
<1>13. Safe => MoveOK(Top, world, g, world)
  BY <1>1, <1>2, <1>6, <1>7, <1>10, StayOK
<1> QED BY <1>0, <1>1, <1>2, <1>7, <1>8, <1>9, <1>11, <1>12, <1>13, <1>14, GoKeeps

\* Foreign code, and the first frame of a transaction.
LEMMA OutsideStep ==
  ASSUME Inv, Foreign \/ Transaction
  PROVE  RunInv(frames, world, stale)' /\ stale' \in BOOLEAN
<1>0. Unchanging /\ RunInv(frames, world, stale)
  BY DEF Foreign, Transaction, Inv
<1>1. TypeOK /\ stale \in BOOLEAN /\ world \in World /\ frames \in Seq(Frame)
  BY DEF Inv, TypeOK
<1>2. CASE Transaction
  <2>1. PICK who \in {"C", "E"} : frames' = <<NewFrame(who, FALSE, TRUE, world)>>
    BY <1>2 DEF Transaction
  <2>2. frames = << >> /\ world' = world /\ stale' = stale
    BY <1>2 DEF Transaction
  <2>3. RunInv(Append(frames, NewFrame(who, FALSE, TRUE, world)), world, stale)
    BY <1>0, <1>1, <2>1, <2>2, PushKeeps
  <2>4. \A x : Append(<< >>, x) = <<x>>
    OBVIOUS
  <2>5. frames' = Append(frames, NewFrame(who, FALSE, TRUE, world))
    BY <2>1, <2>2, <2>4
  <2> QED BY <1>0, <1>1, <2>2, <2>3, <2>5, Carry
<1>3. CASE Foreign
  <2>1. Running /\ Top.who # "C" /\ frames # << >> /\ Top = frames[Len(frames)]
    BY <1>3 DEF Foreign, Running, Top
  <2>2. Top \in Frame
    BY <1>1, <2>1
  <2>3. ~Inside(Top) /\ Waiting(Top) /\ ~Sent(Top) /\ Top.static \in BOOLEAN /\ ~Quiet(Top)
    BY <2>1, <2>2 DEF Inside, Waiting, Sent, Frame, Quiet
  <2>4. CASE Fail
    BY <1>0, <1>1, <2>1, <2>4, FailKeeps
  <2>5. CASE Succeed
    BY <1>0, <1>1, <2>1, <2>3, <2>5, EndKeeps DEF Succeed
  <2>6. CASE /\ \E static \in {Top.static, TRUE} :
                  frames' = Append(frames, NewFrame("C", static, FALSE, world))
             /\ UNCHANGED <<world, stale>>
    <3>1. PICK static \in {Top.static, TRUE} :
            frames' = Append(frames, NewFrame("C", static, FALSE, world))
      BY <2>6
    <3>2. static \in BOOLEAN /\ (Top.static => static)
      BY <2>3
    <3>3. RunInv(Append(frames, NewFrame("C", static, FALSE, world)), world, stale)
      BY <1>0, <1>1, <2>1, <2>3, <3>2, PushKeeps
    <3> QED BY <1>0, <1>1, <2>6, <3>1, <3>3, Carry
  <2> QED BY <1>3, <2>4, <2>5, <2>6 DEF Foreign
<1> QED BY <1>2, <1>3

\* A write by code on the contract's storage: the frames stay as they are.
LEMMA WrittenKeeps ==
  ASSUME Inv, Unchanging, frames' = frames, stale' = stale, world' \in World, library # {},
         world'.doomed = world.doomed, Safe => world'.mutex = world.mutex
  PROVE  RunInv(frames, world, stale)'
<1>1. RunInv(frames, world, stale)
  BY DEF Inv
<1>2. Safe => MutexInv(frames, world')
  BY <1>1 DEF RunInv, MutexInv, Agrees
<1>3. RunInv(frames, world', stale)
  BY <1>1, <1>2 DEF RunInv, Unguarded
<1> QED BY <1>3, Carry

\* Foreign code on the contract's storage.
LEMMA LibraryStep ==
  ASSUME Inv, Library
  PROVE  RunInv(frames, world, stale)' /\ stale' \in BOOLEAN
<1>0. Unchanging /\ RunInv(frames, world, stale) /\ stale' = stale
  BY DEF Library, Inv
<1>1. TypeOK /\ stale \in BOOLEAN /\ world \in World /\ frames \in Seq(Frame)
  BY DEF Inv, TypeOK
<1>2. Running /\ Top.who = "D" /\ frames # << >> /\ Top = frames[Len(frames)]
  BY DEF Library, Running, Top
<1>3. Top \in Frame /\ Len(frames) \in 1..Len(frames)
  BY <1>1, <1>2
<1>4. /\ ~Inside(Top) /\ Waiting(Top) /\ ~Sent(Top) /\ ~Quiet(Top)
      /\ Top.static \in BOOLEAN /\ Top.eoa \in BOOLEAN
  BY <1>2, <1>3 DEF Inside, Waiting, Sent, Frame, Quiet
<1>5. CASE /\ "storage" \in library /\ world.version < MaxWrites
           /\ world' = [world EXCEPT !.version = world.version + 1] /\ UNCHANGED frames
  <2>1. /\ world' \in World /\ world'.doomed = world.doomed /\ world'.mutex = world.mutex
    BY <1>1, <1>5, HardeningAssumption DEF World
  <2>2. library # {}
    BY <1>5
  <2> QED BY <1>0, <1>1, <1>5, <2>1, <2>2, WrittenKeeps
<1>6. CASE /\ "mutex" \in library /\ UNCHANGED frames
           /\ \E m \in 0..1 : world' = [world EXCEPT !.mutex = m]
  <2>1. world' \in World /\ world'.doomed = world.doomed
    BY <1>1, <1>6 DEF World
  <2>2. library # {} /\ ~Safe
    BY <1>6 DEF Safe
  <2> QED BY <1>0, <1>1, <1>6, <2>1, <2>2, WrittenKeeps
<1>7. CASE /\ frames' = Append(frames, NewFrame("C", Top.static, Top.eoa, world))
           /\ UNCHANGED world
  <2>1. Top.eoa => Delegated(frames)
    BY <1>0, <1>2, <1>3 DEF RunInv, ChecksInv
  <2>2. RunInv(Append(frames, NewFrame("C", Top.static, Top.eoa, world)), world, stale)
    BY <1>0, <1>1, <1>2, <1>4, <2>1, PushKeeps
  <2> QED BY <1>0, <1>1, <1>7, <2>2, Carry
<1>8. CASE world' = [world EXCEPT !.doomed = TRUE] /\ frames' = Popped(TRUE)
  <2>1. /\ world' \in World /\ world'.mutex = world.mutex /\ world'.version = world.version
        /\ world'.doomed = TRUE
    BY <1>1, <1>8 DEF World
  <2> QED BY <1>0, <1>1, <1>2, <1>8, <2>1, EndKeeps
<1> QED BY <1>5, <1>6, <1>7, <1>8 DEF Library

----------------------------------------------------------------------------
(* The theorems *)

\* A step of the run leaves the contract, and what detectBug said of it, alone.
LEMMA RunTypes ==
  ASSUME Inv, phase = "run", Unchanging, RunInv(frames, world, stale)', stale' \in BOOLEAN
  PROVE  Inv'
<1>1. /\ ir' = ir /\ opts' = opts /\ phase' = "run" /\ bug' = bug /\ callList' = callList
      /\ fifo' = fifo /\ visited' = visited /\ library' = library
  BY DEF Unchanging, passVars
<1>2. frames' \in Seq(Frame) /\ world' \in World
  BY DEF RunInv
<1>3. TypeOK'
  BY <1>1, <1>2 DEF Inv, TypeOK
<1>4. DetectExact'
  <2>1. DetectExact
    BY DEF Inv, DetectInv
  <2>2. BugMeans' <=> BugMeans
    BY <1>1, Fixed DEF BugMeans
  <2>3. opts.checkReentrancy => BugMeans
    BY <2>1, ExactMeans
  <2>4. (phase \in {"rewrite", "run"} /\ opts.checkReentrancy => BugMeans)'
    BY <1>1, <2>2, <2>3
  <2> QED BY <2>4, ExactMeans, PTL
<1> QED BY <1>1, <1>3, <1>4 DEF Inv, DetectInv

\* Every step keeps the invariant.
LEMMA StepInv == Inv /\ [Next]_vars => Inv'
<1> SUFFICES ASSUME Inv, [Next]_vars PROVE Inv'
  OBVIOUS
<1>1. CASE UNCHANGED vars
  <2>1. Unchanging /\ frames' = frames /\ world' = world /\ stale' = stale
    BY <1>1 DEF vars, runVars, Unchanging
  <2>2. RunInv(frames, world, stale)'
    BY <2>1, Carry DEF Inv
  <2>3. TypeOK' /\ (phase' # "run" => Idle')
    BY <1>1 DEF vars, passVars, runVars, Inv, TypeOK, Idle
  <2>4. ir' = ir /\ opts' = opts /\ phase' = phase /\ bug' = bug
    BY <1>1 DEF vars, passVars
  <2>5. CallBlocks' = CallBlocks /\ AfterCall' = AfterCall /\ Stores' = Stores
    BY <2>4, Fixed
  <2>6. SearchInv => SearchInv'
    BY <1>1, <2>5 DEF vars, passVars, SearchInv, Searched, Listed
  <2>7. DetectExact'
    <3>1. BugMeans' <=> BugMeans
      BY <2>4, <2>5 DEF BugMeans
    <3>2. phase \in {"rewrite", "run"} /\ opts.checkReentrancy => BugMeans
      BY ExactMeans DEF Inv, DetectInv
    <3>3. (phase \in {"rewrite", "run"} /\ opts.checkReentrancy => BugMeans)'
      BY <2>4, <3>1, <3>2
    <3> QED BY <3>3, ExactMeans, PTL
  <2>8. DetectInv'
    BY <1>1, <2>6, <2>7 DEF vars, passVars, Inv, DetectInv
  <2> QED BY <2>2, <2>3, <2>8 DEF Inv
<1>2. CASE DetectCalls \/ DetectNextCall \/ DetectBlock
  <2>1. TypeOK' /\ DetectInv' /\ Idle'
    BY <1>2, CallsStep, NextCallStep, BlockStep
  <2>2. RunInv(frames, world, stale)'
    BY <2>1, IdleRun, PTL
  <2> QED BY <2>1, <2>2 DEF Inv
<1>3. CASE StartRun
  <2>1. /\ phase = "rewrite" /\ phase' = "run" /\ ir' = ir /\ opts' = opts /\ bug' = bug
        /\ callList' = callList /\ fifo' = fifo /\ visited' = visited /\ library' = library
        /\ frames' = frames /\ world' = world /\ stale' = stale
    BY <1>3 DEF StartRun, passVars, runVars
  <2>2. TypeOK' /\ Idle'
    BY <2>1 DEF Inv, TypeOK, Idle
  <2>3. RunInv(frames, world, stale)'
    BY <2>2, IdleRun, PTL
  <2>4. DetectExact'
    <3>1. BugMeans' <=> BugMeans
      BY <2>1, Fixed DEF BugMeans
    <3>2. opts.checkReentrancy => BugMeans
      BY <2>1, ExactMeans DEF Inv, DetectInv
    <3>3. (phase \in {"rewrite", "run"} /\ opts.checkReentrancy => BugMeans)'
      BY <2>1, <3>1, <3>2
    <3> QED BY <3>3, ExactMeans, PTL
  <2> QED BY <2>1, <2>2, <2>3, <2>4 DEF Inv, DetectInv
<1>4. CASE /\ phase = "run" /\ Unchanging
           /\ \/ Transaction \/ Foreign \/ Library \/ OutOfGas \/ Origin \/ CheckMutex \/ SetMutex \/ Require
              \/ StorageStore \/ Call \/ SelfDestruct \/ Finish \/ RevertOrTrap \/ Branch
  <2>1. RunInv(frames, world, stale)' /\ stale' \in BOOLEAN
    BY <1>4, OutsideStep, LibraryStep, PrologueStep, SetMutexStep, RequireStep, StoreStep, CallStep, EndStep, BranchStep
  <2> QED BY <1>4, <2>1, RunTypes
<1>5. ASSUME \/ Transaction \/ Foreign \/ Library \/ OutOfGas \/ Origin \/ CheckMutex \/ SetMutex \/ Require
             \/ StorageStore \/ Call \/ SelfDestruct \/ Finish \/ RevertOrTrap \/ Branch
      PROVE  phase = "run" /\ Unchanging
  BY <1>5 DEF Transaction, Foreign, Library, OutOfGas, Origin, CheckMutex, SetMutex, Require, StorageStore, Call,
              SelfDestruct, Finish, RevertOrTrap, Branch, OpIs, InC, Running
<1> QED BY <1>1, <1>2, <1>3, <1>4, <1>5 DEF Next

\* detectBug starts on a contract of the program, and nothing runs yet.
LEMMA InitInv == Init => Inv
<1> SUFFICES ASSUME Init PROVE Inv
  OBVIOUS
<1>1. Idle
  BY DEF Init, Idle
<1>2. TypeOK
  <2>1. ir \in Contract /\ opts \in Options
    BY HardeningAssumption DEF Init
  <2>2. world \in World
    BY HardeningAssumption DEF Init, World
  <2>3. frames \in Seq(Frame) /\ callList \in Seq(Block) /\ fifo \in Seq(Block)
    BY DEF Init
  <2>4. visited \subseteq Block /\ phase \in {"calls", "dfs", "rewrite", "run"}
    BY DEF Init
  <2>5. bug \in BOOLEAN /\ stale \in BOOLEAN
    BY DEF Init
  <2>6. library \subseteq LibraryWrites
    BY HardeningAssumption DEF Init
  <2> QED BY <2>1, <2>2, <2>3, <2>4, <2>5, <2>6 DEF TypeOK
<1>3. DetectInv
  BY DEF Init, DetectInv, DetectExact
<1>4. RunInv(frames, world, stale)
  BY <1>1, <1>2, IdleRun
<1> QED BY <1>1, <1>2, <1>3, <1>4 DEF Inv

\* The invariant holds in every run.
LEMMA Invariance == Spec => []Inv
BY InitInv, StepInv, PTL DEF Spec

\* detectBug finds a store after an external call if and only if there is one.
THEOREM DetectCorrect == Spec => []DetectExact
<1>1. Inv => DetectExact
  BY DEF Inv, DetectInv
<1> QED BY <1>1, Invariance, PTL

\* Two frames are never in the body of a guarded contract, whatever foreign code
\* does that leaves the mutex slot alone.
THEOREM GuardCorrect == Spec => []GuardExcludes
<1>1. Inv => GuardExcludes
  BY DEF Inv, RunInv, MutexInv, GuardExcludes, Safe
<1> QED BY <1>1, Invariance, PTL

\* The mutex is given back.
THEOREM MutexCorrect == Spec => []MutexReleased
<1>1. Inv => MutexReleased
  BY DEF Inv, RunInv, MutexInv, Agrees, MutexReleased, Safe
<1> QED BY <1>1, Invariance, PTL

\* A contract compiled with check-reentrancy writes nothing stale, unless code it
\* delegates to writes its storage, or it is unguarded although it delegates or
\* creates: the analysis looks for neither.
THEOREM NoStale == Spec => []NoStaleWrite
<1>1. Inv => NoStaleWrite
  <2>1. SUFFICES ASSUME Inv, opts.checkReentrancy, stale
                 PROVE  \/ library # {}
                        \/ ~Guarded /\ \E b \in Block : \E op \in Unseen : HasOp(b, op)
    BY DEF NoStaleWrite
  <2>2. ~(stale = FALSE)
    BY <2>1
  <2>3. ~(Guarded /\ library = {}) /\ ~Unguarded
    BY <2>1, <2>2 DEF Inv, RunInv
  <2> QED BY <2>1, <2>3 DEF Unguarded, Guarded
<1> QED BY <1>1, Invariance, PTL

\* EOAonly keeps callers out, but for what a delegate call brings back, and
\* check-send stops after a failed call.
THEOREM ChecksCorrect == Spec => []ChecksHold
<1>1. Inv => ChecksHold
  <2> SUFFICES ASSUME Inv PROVE ChecksHold
    OBVIOUS
  <2>1. TypeOK /\ ChecksInv(frames)
    BY DEF Inv, RunInv
  <2>2. OnlyAccountsEnter
    <3>1. \A i \in 2..Len(frames) : i \in 1..Len(frames) /\ i # 1
      OBVIOUS
    <3> QED BY <2>1, <3>1 DEF ChecksInv, OnlyAccountsEnter, Delegated
  <2>3. SendChecked
    BY <2>1 DEF ChecksInv, SendChecked, Sent
  <2> QED BY <2>1, <2>2, <2>3 DEF ChecksHold
<1> QED BY <1>1, Invariance, PTL
=============================================================================
