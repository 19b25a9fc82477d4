---------------------------- MODULE BlocksProofs ----------------------------
(***************************************************************************)
(* What is proved of the two loops over the bytecode.                      *)
(*                                                                         *)
(* createBasicBlocks is right for every bytecode: its jump table holds     *)
(* exactly the targets the EVM accepts, a block that takes registers over  *)
(* has one predecessor, and what is dropped can not be reached.            *)
(*                                                                         *)
(* Splitting creation code moves no instruction, whatever the code: the    *)
(* split point and RETURNPC are starts of instructions, and both parts     *)
(* have the instructions the whole has there.  The translations of the     *)
(* parts are then right for every part, their jump tables make up that of  *)
(* the whole, and the runtime's wasm is handed over once.                  *)
(***************************************************************************)
EXTENDS SplitCode, SequenceTheorems, FiniteSetTheorems, TLAPS

(***************************************************************************)
(* Where instructions start.                                               *)
(***************************************************************************)
\* The next instruction is further on, and not past the end of the code.
LEMMA NextPcBound ==
  ASSUME NEW c \in Seq(Byte), NEW p \in 0..Len(c), p < Len(c)
  PROVE  NextPc(c, p) \in 0..Len(c) /\ NextPc(c, p) > p
<1>1. PushSize(OpAt(c, p)) \in Nat
  BY DEF PushSize
<1>2. Len(c) - p - 1 \in Nat
  OBVIOUS
<1> QED BY <1>1, <1>2 DEF NextPc

\* A start of an instruction lies in every closed set of positions.
LEMMA StartsMember ==
  ASSUME NEW c
  PROVE  \A p : p \in InstrStarts(c) <=>
           p \in 0..Len(c) /\ \A S \in SUBSET (0..Len(c)) : ClosedUnderNext(c, S) => p \in S
  BY DEF InstrStarts

\* The set of starts is closed itself.
LEMMA StartsClosed ==
  ASSUME NEW c \in Seq(Byte)
  PROVE  /\ 0 \in InstrStarts(c)
         /\ \A p \in InstrStarts(c) : p < Len(c) => NextPc(c, p) \in InstrStarts(c)
<1>1. 0 \in InstrStarts(c)
  BY StartsMember DEF ClosedUnderNext
<1>2. ASSUME NEW p \in InstrStarts(c), p < Len(c)
      PROVE  NextPc(c, p) \in InstrStarts(c)
  <2>1. p \in 0..Len(c)
    BY StartsMember
  <2>2. NextPc(c, p) \in 0..Len(c)
    BY <1>2, <2>1, NextPcBound
  <2>3. ASSUME NEW S \in SUBSET (0..Len(c)), ClosedUnderNext(c, S)
        PROVE  NextPc(c, p) \in S
    BY <1>2, <2>3, StartsMember DEF ClosedUnderNext
  <2> QED BY <2>2, <2>3, StartsMember
<1> QED BY <1>1, <1>2

\* All starts before p lead to p or stop before it.
LeadsTo(c, p) == \A q \in InstrStarts(c) : q < p => NextPc(c, q) <= p

\* No instruction starts inside another one.
LEMMA NoGap ==
  ASSUME NEW c \in Seq(Byte), NEW p \in InstrStarts(c), p < Len(c), LeadsTo(c, p)
  PROVE  \A q \in InstrStarts(c) : q <= p \/ q >= NextPc(c, p)
<1> DEFINE S == {q \in InstrStarts(c) : q <= p \/ q >= NextPc(c, p)}
<1>1. /\ InstrStarts(c) \subseteq 0..Len(c)
      /\ p \in 0..Len(c) /\ Len(c) \in Nat
  BY StartsMember
<1>2. NextPc(c, p) \in 0..Len(c) /\ NextPc(c, p) > p
  BY <1>1, NextPcBound
<1>3. S \in SUBSET (0..Len(c))
  BY <1>1
<1>4. 0 \in S
  BY <1>1, StartsClosed
<1>5. ASSUME NEW q \in S, q < Len(c)
      PROVE  NextPc(c, q) \in S
  <2>1. q \in InstrStarts(c) /\ q \in 0..Len(c)
    BY <1>1
  <2>2. NextPc(c, q) \in InstrStarts(c) /\ NextPc(c, q) \in 0..Len(c) /\ NextPc(c, q) > q
    BY <1>5, <2>1, StartsClosed, NextPcBound
  <2>3. CASE q < p
    BY <2>1, <2>2, <2>3 DEF LeadsTo
  <2>4. CASE q = p
    BY <1>2, <2>2, <2>4
  <2>5. CASE q > p
    <3>1. q >= NextPc(c, p)
      BY <1>1, <2>1, <2>5
    <3>2. NextPc(c, q) >= NextPc(c, p)
      BY <1>2, <2>1, <2>2, <3>1
    <3> QED BY <2>2, <3>2
  <2> QED BY <1>1, <2>1, <2>3, <2>4, <2>5
<1>6. ClosedUnderNext(c, S)
  BY <1>4, <1>5 DEF ClosedUnderNext
<1> HIDE DEF S
<1>7. \A q \in InstrStarts(c) : q \in S
  BY <1>3, <1>6, StartsMember
<1> QED BY <1>7 DEF S

\* Hence the property is inherited by the next instruction.
LEMMA LeadsToNext ==
  ASSUME NEW c \in Seq(Byte), NEW p \in InstrStarts(c), p < Len(c), LeadsTo(c, p)
  PROVE  LeadsTo(c, NextPc(c, p))
<1> SUFFICES ASSUME NEW q \in InstrStarts(c), q < NextPc(c, p)
             PROVE  NextPc(c, q) <= NextPc(c, p)
  BY DEF LeadsTo
<1>1. p \in 0..Len(c) /\ q \in 0..Len(c) /\ Len(c) \in Nat
  BY StartsMember
<1>2. NextPc(c, p) \in 0..Len(c) /\ NextPc(c, p) > p
  BY <1>1, NextPcBound
<1>3. q <= p
  BY <1>1, <1>2, NoGap
<1>4. CASE q = p
  BY <1>2, <1>4
<1>5. CASE q < p
  <2>1. NextPc(c, q) <= p
    BY <1>5 DEF LeadsTo
  <2>2. NextPc(c, q) \in 0..Len(c)
    BY <1>1, <1>5, NextPcBound
  <2> QED BY <1>1, <1>2, <2>1, <2>2
<1> QED BY <1>1, <1>3, <1>4, <1>5

(***************************************************************************)
(* The inductive invariant of the scan.                                    *)
(***************************************************************************)
\* The loop's variables have their types, whatever code it was given.
ScanShape ==
  /\ code \in Seq(Byte)
  /\ curr \in 0..Len(code) /\ begin \in 0..Len(code)
  /\ isDead \in BOOLEAN
  /\ blocks \in Seq(Block)

\* Blocks lie one after the other, before begin.
Ordered ==
  /\ begin <= curr
  /\ \A i \in 1..Len(blocks) : blocks[i].first < blocks[i].end /\ blocks[i].end <= begin

Disjoint ==
  \A i, j \in 1..Len(blocks) : i < j => blocks[i].end <= blocks[j].first

\* An instruction that may leave its block ends it, and the block being built
\* has none.
Leaving == Halting \union {"JUMPI"}

HaltEndsBlock ==
  /\ \A q \in InstrStarts(code) : \A i \in 1..Len(blocks) :
       blocks[i].first <= q /\ q < blocks[i].end /\ OpAt(code, q) \in Leaving =>
         blocks[i].end = NextPc(code, q)
  /\ \A q \in InstrStarts(code) :
       ~isDead /\ begin <= q /\ q < curr => OpAt(code, q) \notin Leaving

\* The first block begins where the code does.
FirstBlock ==
  IF blocks = << >> THEN begin = 0 /\ ~isDead ELSE blocks[1].first = 0

\* Dead code is entered by no fall through from a block.
DeadEntry ==
  isDead =>
    \E q \in InstrStarts(code) :
      q < curr /\ NextPc(code, q) = curr /\ (OpAt(code, q) \in NoFallThrough \/ ~InBlock(q))

\* Every JUMPDEST passed starts a block, or the one being built.
JumpdestsKept ==
  \A q \in InstrStarts(code) : q < curr /\ OpAt(code, q) = "JUMPDEST" =>
    \/ \E i \in 1..Len(blocks) : blocks[i].first = q
    \/ ~isDead /\ q = begin

\* The block being built has no JUMPDEST past its first instruction.
OpenBlock ==
  ~isDead =>
    /\ \A q \in InstrStarts(code) : begin < q /\ q < curr => OpAt(code, q) # "JUMPDEST"
    /\ begin < curr /\ curr < Len(code) => OpAt(code, curr) # "JUMPDEST"

\* How the block being built is entered.
OpenEntry ==
  ~isDead /\ begin < Len(code) /\ OpAt(code, begin) # "JUMPDEST" =>
    IF blocks = << >> THEN begin = 0
    ELSE /\ blocks[Len(blocks)].end = begin
         /\ \E q \in InstrStarts(code) : q < Len(code) /\ NextPc(code, q) = begin
                                           /\ OpAt(code, q) = "JUMPI"

\* At the end of the code no block is left open.
Closed == curr = Len(code) => isDead \/ begin = curr

ScanInv ==
  /\ ScanShape
  /\ OnBoundary
  /\ LeadsTo(code, curr)
  /\ Ordered
  /\ JumpdestsKept
  /\ OpenBlock
  /\ OpenEntry
  /\ Closed
  /\ JumpdestStartsBlock
  /\ OnePredecessor
  /\ Disjoint
  /\ HaltEndsBlock
  /\ FirstBlock
  /\ DeadEntry
  /\ DroppedIsDead

\* The code is a sequence of bytes.
LEMMA CodeSeq == ScanShape => code \in Seq(Byte) /\ Len(code) \in Nat
  BY DEF ScanShape

\* Before the loop, with any code.
ScanStart == code \in Seq(Byte) /\ curr = 0 /\ begin = 0 /\ isDead = FALSE /\ blocks = << >>

\* The invariant holds before the loop.
LEMMA InitScanInv == ScanStart => ScanInv
<1> SUFFICES ASSUME ScanStart PROVE ScanInv
  OBVIOUS
<1>1. /\ curr = 0 /\ begin = 0 /\ isDead = FALSE /\ blocks = << >>
      /\ Len(blocks) = 0
  BY DEF ScanStart
<1>2. code \in Seq(Byte) /\ Len(code) \in Nat
  BY DEF ScanStart
<1>3. ScanShape
  <2>1. 0 \in 0..Len(code)
    BY <1>2
  <2>2. << >> \in Seq(Block)
    OBVIOUS
  <2> QED BY <1>1, <1>2, <2>1, <2>2 DEF ScanShape
<1>4. 0 \in InstrStarts(code) /\ InstrStarts(code) \subseteq 0..Len(code)
  BY <1>2, StartsClosed, StartsMember
<1>5. OnBoundary
  BY <1>1, <1>4 DEF OnBoundary
<1>6. LeadsTo(code, curr) /\ Ordered /\ JumpdestsKept /\ OpenBlock /\ OpenEntry /\ Closed
  BY <1>1, <1>2, <1>4 DEF LeadsTo, Ordered, JumpdestsKept, OpenBlock, OpenEntry, Closed
<1>7. JumpdestStartsBlock /\ OnePredecessor /\ Disjoint /\ FirstBlock
  BY <1>1 DEF JumpdestStartsBlock, OnePredecessor, Disjoint, FirstBlock
<1>8. HaltEndsBlock /\ DeadEntry /\ DroppedIsDead
  <2>1. \A q \in InstrStarts(code) : ~(q < 0)
    BY <1>2, <1>4
  <2> QED BY <1>1, <2>1 DEF HaltEndsBlock, DeadEntry, DroppedIsDead
<1> QED BY <1>3, <1>5, <1>6, <1>7, <1>8 DEF ScanInv

\* Facts every step starts from.
LEMMA StepFacts ==
  ASSUME ScanInv, Scanning
  PROVE  /\ code \in Seq(Byte) /\ Len(code) \in Nat
         /\ InstrStarts(code) \subseteq 0..Len(code)
         /\ curr \in InstrStarts(code) /\ begin \in InstrStarts(code) /\ curr < Len(code)
         /\ NextPc(code, curr) \in InstrStarts(code) /\ NextPc(code, curr) > curr
         /\ LeadsTo(code, NextPc(code, curr))
         /\ \A q \in InstrStarts(code) : q < NextPc(code, curr) => q <= curr
<1>1. code \in Seq(Byte) /\ Len(code) \in Nat /\ curr < Len(code)
  BY CodeSeq DEF ScanInv, Scanning
<1>2. InstrStarts(code) \subseteq 0..Len(code)
  BY StartsMember
<1>3. curr \in InstrStarts(code) /\ begin \in InstrStarts(code)
  BY DEF ScanInv, OnBoundary
<1>4. NextPc(code, curr) \in InstrStarts(code) /\ NextPc(code, curr) > curr
  BY <1>1, <1>2, <1>3, StartsClosed, NextPcBound
<1>5. LeadsTo(code, NextPc(code, curr))
  BY <1>1, <1>3, LeadsToNext DEF ScanInv
<1>6. \A q \in InstrStarts(code) : q <= curr \/ q >= NextPc(code, curr)
  BY <1>1, <1>3, NoGap DEF ScanInv
<1>7. \A q \in InstrStarts(code) : q < NextPc(code, curr) => q <= curr
  BY <1>2, <1>3, <1>4, <1>6
<1> QED BY <1>1, <1>2, <1>3, <1>4, <1>5, <1>7

\* Skipping dead code keeps the invariant.
LEMMA SkipDeadStep ==
  ASSUME ScanInv, SkipDead
  PROVE  ScanInv'
<1>1. /\ Scanning /\ isDead /\ OpAt(code, curr) # "JUMPDEST"
      /\ curr' = NextPc(code, curr)
      /\ code' = code /\ begin' = begin /\ isDead' = isDead /\ blocks' = blocks
  BY DEF SkipDead
<1>2. /\ code \in Seq(Byte) /\ Len(code) \in Nat
      /\ InstrStarts(code) \subseteq 0..Len(code)
      /\ curr \in InstrStarts(code) /\ begin \in InstrStarts(code) /\ curr < Len(code)
      /\ NextPc(code, curr) \in InstrStarts(code) /\ NextPc(code, curr) > curr
      /\ LeadsTo(code, NextPc(code, curr))
      /\ \A q \in InstrStarts(code) : q < NextPc(code, curr) => q <= curr
  BY <1>1, StepFacts
<1>3. ScanShape'
  BY <1>1, <1>2 DEF ScanInv, ScanShape
<1>4. OnBoundary' /\ LeadsTo(code, curr)'
  BY <1>1, <1>2 DEF ScanInv, OnBoundary, LeadsTo
<1>5. Ordered'
  BY <1>1, <1>2 DEF ScanInv, Ordered
<1>6. JumpdestsKept'
  <2> SUFFICES ASSUME NEW q \in InstrStarts(code), q < NextPc(code, curr), OpAt(code, q) = "JUMPDEST"
               PROVE  \E i \in 1..Len(blocks) : blocks[i].first = q
    BY <1>1 DEF JumpdestsKept
  <2>1. q < curr
    BY <1>1, <1>2
  <2> QED BY <1>1, <2>1 DEF ScanInv, JumpdestsKept
<1>7. OpenBlock' /\ OpenEntry' /\ Closed'
  BY <1>1 DEF OpenBlock, OpenEntry, Closed
<1>8. JumpdestStartsBlock' /\ OnePredecessor' /\ Disjoint'
  BY <1>1 DEF ScanInv, JumpdestStartsBlock, OnePredecessor, Disjoint
<1>9. HaltEndsBlock' /\ FirstBlock'
  BY <1>1 DEF ScanInv, HaltEndsBlock, FirstBlock
<1>10. \A p : InBlock(p)' <=> InBlock(p)
  BY <1>1 DEF InBlock
<1>11. ~InBlock(curr)
  <2>1. \A i \in 1..Len(blocks) : blocks[i].end <= begin /\ blocks[i].end \in Nat
    <3>1. \A i \in 1..Len(blocks) : blocks[i] \in Block
      BY DEF ScanInv, ScanShape
    <3> QED BY <3>1 DEF ScanInv, Ordered, Block
  <2>2. begin <= curr /\ begin \in Nat /\ curr \in Nat
    BY <1>2 DEF ScanInv, Ordered
  <2>3. \A i \in 1..Len(blocks) : ~(curr < blocks[i].end)
    BY <2>1, <2>2
  <2> QED BY <1>1, <2>3 DEF InBlock
<1>12. DeadEntry'
  BY <1>1, <1>2, <1>10, <1>11 DEF DeadEntry
<1>13. DroppedIsDead'
  <2> SUFFICES ASSUME NEW p \in InstrStarts(code), p < NextPc(code, curr), ~InBlock(p)
               PROVE  /\ OpAt(code, p) # "JUMPDEST"
                      /\ \E q \in InstrStarts(code) : q < p /\ NextPc(code, q) = p
                           /\ (OpAt(code, q) \in NoFallThrough \/ ~InBlock(q))
    BY <1>1, <1>10 DEF DroppedIsDead
  <2>1. p <= curr
    BY <1>2
  <2>2. CASE p = curr
    BY <1>1, <2>2 DEF ScanInv, DeadEntry
  <2>3. CASE p < curr
    BY <2>3 DEF ScanInv, DroppedIsDead
  <2> QED BY <1>2, <2>1, <2>2, <2>3
<1> QED BY <1>3, <1>4, <1>5, <1>6, <1>7, <1>8, <1>9, <1>12, <1>13 DEF ScanInv

\* Where the block that holds curr begins.
LEMMA FirstFacts ==
  ASSUME ScanInv, Scan, NEW first, first = (IF Revives THEN curr ELSE begin)
  PROVE  /\ first \in InstrStarts(code) /\ first <= curr
         /\ \A i \in 1..Len(blocks) : blocks[i].end <= first
         /\ \A q \in InstrStarts(code) : first < q /\ q <= curr => OpAt(code, q) # "JUMPDEST"
         /\ \A q \in InstrStarts(code) : q <= curr /\ OpAt(code, q) = "JUMPDEST" =>
              (\E i \in 1..Len(blocks) : blocks[i].first = q) \/ q = first
         /\ OpAt(code, first) # "JUMPDEST" =>
              IF blocks = << >> THEN first = 0
              ELSE /\ blocks[Len(blocks)].end = first
                   /\ \E q \in InstrStarts(code) : q < Len(code) /\ NextPc(code, q) = first
                                                     /\ OpAt(code, q) = "JUMPI"
<1>1. Scanning /\ (isDead => OpAt(code, curr) = "JUMPDEST")
  BY DEF Scan
<1>2. /\ code \in Seq(Byte) /\ Len(code) \in Nat
      /\ InstrStarts(code) \subseteq 0..Len(code)
      /\ curr \in InstrStarts(code) /\ begin \in InstrStarts(code) /\ curr < Len(code)
  BY <1>1, StepFacts
<1>3. blocks \in Seq(Block) /\ begin <= curr
      /\ \A i \in 1..Len(blocks) : blocks[i].end \in Nat /\ blocks[i].end <= begin
  <2>1. blocks \in Seq(Block)
    BY DEF ScanInv, ScanShape
  <2>2. begin <= curr /\ \A i \in 1..Len(blocks) : blocks[i].end <= begin
    BY DEF ScanInv, Ordered
  <2>3. \A i \in 1..Len(blocks) : blocks[i] \in Block
    BY <2>1
  <2> QED BY <2>1, <2>2, <2>3 DEF Block
<1>4. CASE isDead
  <2>1. first = curr /\ OpAt(code, curr) = "JUMPDEST"
    BY <1>1, <1>4 DEF Revives
  <2>2. \A i \in 1..Len(blocks) : blocks[i].end <= curr
    BY <1>2, <1>3
  <2>3. \A q \in InstrStarts(code) : q <= curr /\ OpAt(code, q) = "JUMPDEST" =>
          (\E i \in 1..Len(blocks) : blocks[i].first = q) \/ q = curr
    <3> SUFFICES ASSUME NEW q \in InstrStarts(code), q <= curr, OpAt(code, q) = "JUMPDEST",
                        q # curr
                 PROVE  \E i \in 1..Len(blocks) : blocks[i].first = q
      OBVIOUS
    <3>1. q < curr
      BY <1>2
    <3> QED BY <1>4, <3>1 DEF ScanInv, JumpdestsKept
  <2>4. \A q \in InstrStarts(code) : ~(curr < q /\ q <= curr)
    BY <1>2
  <2> QED BY <1>2, <2>1, <2>2, <2>3, <2>4
<1>5. CASE ~isDead
  <2>1. first = begin
    BY <1>5 DEF Revives
  <2>2. \A q \in InstrStarts(code) : begin < q /\ q <= curr => OpAt(code, q) # "JUMPDEST"
    <3> SUFFICES ASSUME NEW q \in InstrStarts(code), begin < q, q <= curr
                 PROVE  OpAt(code, q) # "JUMPDEST"
      OBVIOUS
    <3>1. CASE q < curr
      BY <1>5, <3>1 DEF ScanInv, OpenBlock
    <3>2. CASE q = curr
      BY <1>2, <1>5, <3>2 DEF ScanInv, OpenBlock
    <3> QED BY <1>2, <3>1, <3>2
  <2>3. \A q \in InstrStarts(code) : q <= curr /\ OpAt(code, q) = "JUMPDEST" =>
          (\E i \in 1..Len(blocks) : blocks[i].first = q) \/ q = begin
    <3> SUFFICES ASSUME NEW q \in InstrStarts(code), q <= curr, OpAt(code, q) = "JUMPDEST",
                        q # begin
                 PROVE  \E i \in 1..Len(blocks) : blocks[i].first = q
      OBVIOUS
    <3>1. q # curr
      BY <1>2, <1>3, <2>2
    <3>2. q < curr
      BY <1>2, <3>1
    <3> QED BY <3>2 DEF ScanInv, JumpdestsKept
  <2>4. begin < Len(code)
    BY <1>2, <1>3
  <2>5. OpAt(code, begin) # "JUMPDEST" =>
          IF blocks = << >> THEN begin = 0
          ELSE /\ blocks[Len(blocks)].end = begin
               /\ \E q \in InstrStarts(code) : q < Len(code) /\ NextPc(code, q) = begin
                                                 /\ OpAt(code, q) = "JUMPI"
    BY <1>5, <2>4 DEF ScanInv, OpenEntry
  <2> QED BY <1>2, <1>3, <2>1, <2>2, <2>3, <2>5
<1> QED BY <1>4, <1>5

\* Reading an instruction adds it to a block and changes nothing for the ones
\* before: what was dropped stays dropped.
LEMMA DeadStep ==
  ASSUME ScanInv, Scan
  PROVE  HaltEndsBlock' /\ DeadEntry' /\ DroppedIsDead'
<1> DEFINE op == OpAt(code, curr)
<1> PICK next : next = NextPc(code, curr)
  OBVIOUS
<1> PICK first : first = (IF Revives THEN curr ELSE begin)
  OBVIOUS
<1>1. /\ Scanning /\ curr' = next /\ isDead' = DeadAfter(op) /\ code' = code
      /\ (isDead => op = "JUMPDEST")
      /\ \/ /\ EndsBlock(op, next)
            /\ blocks' = Append(blocks, [first |-> first, end |-> next])
            /\ begin' = next
         \/ /\ ~EndsBlock(op, next)
            /\ begin' = first
            /\ blocks' = blocks
  BY DEF Scan
<1>2. /\ code \in Seq(Byte) /\ Len(code) \in Nat
      /\ InstrStarts(code) \subseteq 0..Len(code)
      /\ curr \in InstrStarts(code) /\ curr < Len(code)
      /\ next \in InstrStarts(code) /\ next > curr
      /\ \A q \in InstrStarts(code) : q < next => q <= curr
  BY <1>1, StepFacts
<1>3. first \in InstrStarts(code) /\ first <= curr
  BY FirstFacts
<1>4. blocks \in Seq(Block) /\ isDead \in BOOLEAN
  BY DEF ScanInv, ScanShape
<1> PICK n \in Nat : n = Len(blocks)
  BY <1>4
<1> DEFINE b == [first |-> first, end |-> next]
<1>5. b \in Block /\ b.first = first /\ b.end = next
  BY <1>2, <1>3 DEF Block
<1>6. op \in Leaving => EndsBlock(op, next)
  BY DEF EndsBlock, Leaving
<1>7. EndsBlock(op, next) \in BOOLEAN
  BY DEF EndsBlock
<1> HIDE DEF b
<1>8. EndsBlock(op, next) =>
        /\ begin' = next /\ Len(blocks') = n + 1 /\ blocks'[n + 1] = b
        /\ \A i \in 1..n : blocks'[i] = blocks[i]
        /\ \A i \in 1..(n + 1) : i \in 1..n \/ i = n + 1
  <2> SUFFICES ASSUME EndsBlock(op, next)
               PROVE  /\ begin' = next /\ Len(blocks') = n + 1 /\ blocks'[n + 1] = b
                      /\ \A i \in 1..n : blocks'[i] = blocks[i]
                      /\ \A i \in 1..(n + 1) : i \in 1..n \/ i = n + 1
    OBVIOUS
  <2>1. begin' = next /\ blocks' = Append(blocks, b)
    BY <1>1 DEF b
  <2> QED BY <1>4, <1>5, <2>1
<1>9. ~EndsBlock(op, next) => begin' = first /\ blocks' = blocks /\ ~isDead'
  BY <1>1, <1>6, Zenon DEF DeadAfter, Leaving
<1>10. \A q \in InstrStarts(code) : q < curr =>
         (first <= q <=> ~isDead /\ begin <= q)
  <2>1. CASE isDead
    <3>1. first = curr
      BY <1>1, <2>1 DEF Revives
    <3>2. \A q \in InstrStarts(code) : q < curr => ~(curr <= q)
      BY <1>2
    <3> QED BY <2>1, <3>1, <3>2
  <2>2. CASE ~isDead
    BY <2>2 DEF Revives
  <2> QED BY <2>1, <2>2
<1>11. \A q \in InstrStarts(code) : q < next => (InBlock(q)' <=> InBlock(q) \/ q = curr)
  <2> SUFFICES ASSUME NEW q \in InstrStarts(code), q < next
               PROVE  InBlock(q)' <=> InBlock(q) \/ q = curr
    OBVIOUS
  <2>1. q <= curr /\ q \in Nat /\ curr \in Nat /\ next \in Nat /\ first \in Nat
    BY <1>2, <1>3
  <2>2. InBlock(q)' <=>
          (first <= q) \/ \E i \in 1..n : blocks[i].first <= q /\ q < blocks[i].end
    <3>1. CASE EndsBlock(op, next)
      <4>1. /\ begin' = next /\ Len(blocks') = n + 1 /\ blocks'[n + 1] = b
            /\ \A i \in 1..n : blocks'[i] = blocks[i]
            /\ \A i \in 1..(n + 1) : i \in 1..n \/ i = n + 1
        BY <1>8, <3>1
      <4>2. ~(next <= q) /\ n + 1 \in 1..(n + 1) /\ \A i \in 1..n : i \in 1..(n + 1)
        BY <2>1
      <4>3. InBlock(q)' <=> \E i \in 1..(n + 1) : blocks'[i].first <= q /\ q < blocks'[i].end
        BY <1>1, <4>1, <4>2 DEF InBlock
      <4> QED BY <1>5, <4>1, <4>2, <4>3
    <3>2. CASE ~EndsBlock(op, next)
      <4>1. begin' = first /\ blocks' = blocks /\ ~isDead' /\ curr' = next
        BY <1>1, <1>9, <3>2
      <4> QED BY <4>1 DEF InBlock
    <3> QED BY <3>1, <3>2
  <2>3. CASE q = curr
    BY <1>3, <2>2, <2>3
  <2>4. CASE q < curr
    <3>1. first <= q <=> ~isDead /\ begin <= q
      BY <1>10, <2>4
    <3>2. q # curr
      BY <2>1, <2>4
    <3> QED BY <2>2, <2>4, <3>1, <3>2 DEF InBlock
  <2> QED BY <2>1, <2>3, <2>4
<1>12. HaltEndsBlock'
  <2>1. \A q \in InstrStarts(code) :
          first <= q /\ q < next /\ OpAt(code, q) \in Leaving => q = curr
    <3> SUFFICES ASSUME NEW q \in InstrStarts(code), first <= q, q < next,
                        OpAt(code, q) \in Leaving, q # curr
                 PROVE  FALSE
      OBVIOUS
    <3>1. q < curr
      BY <1>2
    <3>2. ~isDead /\ begin <= q
      BY <1>10, <3>1
    <3> QED BY <3>1, <3>2 DEF ScanInv, HaltEndsBlock
  <2>2. CASE EndsBlock(op, next)
    <3>1. /\ begin' = next /\ Len(blocks') = n + 1 /\ blocks'[n + 1] = b
          /\ \A i \in 1..n : blocks'[i] = blocks[i]
          /\ \A i \in 1..(n + 1) : i \in 1..n \/ i = n + 1
      BY <1>8, <2>2
    <3>2. ASSUME NEW q \in InstrStarts(code), NEW i \in 1..(n + 1),
                 blocks'[i].first <= q, q < blocks'[i].end, OpAt(code, q) \in Leaving
          PROVE  blocks'[i].end = NextPc(code, q)
      <4>1. CASE i = n + 1
        BY <1>5, <2>1, <3>1, <3>2, <4>1
      <4>2. CASE i \in 1..n
        BY <3>1, <3>2, <4>2 DEF ScanInv, HaltEndsBlock
      <4> QED BY <3>1, <4>1, <4>2
    <3>3. \A q \in InstrStarts(code) : ~(next <= q /\ q < next)
      BY <1>2
    <3> QED BY <1>1, <3>1, <3>2, <3>3 DEF HaltEndsBlock
  <2>3. CASE ~EndsBlock(op, next)
    <3>1. begin' = first /\ blocks' = blocks /\ ~isDead' /\ curr' = next /\ op \notin Leaving
      BY <1>1, <1>6, <1>9, <2>3
    <3>2. \A q \in InstrStarts(code) : first <= q /\ q < next => OpAt(code, q) \notin Leaving
      BY <2>1, <3>1
    <3> QED BY <1>1, <3>1, <3>2 DEF ScanInv, HaltEndsBlock
  <2> QED BY <2>2, <2>3
<1>13. DeadEntry'
  <2> SUFFICES ASSUME isDead'
               PROVE  op \in NoFallThrough
    BY <1>1, <1>2 DEF DeadEntry
  <2>1. op \in Halting
    BY <1>1, Zenon DEF DeadAfter
  <2> QED BY <2>1 DEF Halting, NoFallThrough
<1>14. DroppedIsDead'
  <2> SUFFICES ASSUME NEW p \in InstrStarts(code), p < next, ~InBlock(p)'
               PROVE  /\ OpAt(code, p) # "JUMPDEST"
                      /\ \E q \in InstrStarts(code) : q < p /\ NextPc(code, q) = p
                           /\ (OpAt(code, q) \in NoFallThrough \/ ~InBlock(q)')
    BY <1>1 DEF DroppedIsDead
  <2>1. p # curr /\ ~InBlock(p)
    BY <1>11
  <2>2. p < curr
    BY <1>2, <2>1
  <2>3. /\ OpAt(code, p) # "JUMPDEST"
        /\ \E q \in InstrStarts(code) : q < p /\ NextPc(code, q) = p
             /\ (OpAt(code, q) \in NoFallThrough \/ ~InBlock(q))
    BY <2>1, <2>2 DEF ScanInv, DroppedIsDead
  <2>4. PICK q \in InstrStarts(code) : q < p /\ NextPc(code, q) = p
             /\ (OpAt(code, q) \in NoFallThrough \/ ~InBlock(q))
    BY <2>3
  <2>5. q < next /\ q # curr
    BY <1>2, <2>2, <2>4
  <2>6. InBlock(q)' <=> InBlock(q)
    BY <1>11, <2>5
  <2> QED BY <2>3, <2>4, <2>6
<1> QED BY <1>12, <1>13, <1>14

\* An iteration that reads an instruction keeps the invariant.
LEMMA ScanStep ==
  ASSUME ScanInv, Scan
  PROVE  ScanInv'
<1> DEFINE op == OpAt(code, curr)
<1> PICK next : next = NextPc(code, curr)
  OBVIOUS
<1> PICK first : first = (IF Revives THEN curr ELSE begin)
  OBVIOUS
<1>1. /\ Scanning /\ curr' = next /\ isDead' = DeadAfter(op) /\ code' = code
      /\ \/ /\ EndsBlock(op, next)
            /\ blocks' = Append(blocks, [first |-> first, end |-> next])
            /\ begin' = next
         \/ /\ ~EndsBlock(op, next)
            /\ begin' = first
            /\ blocks' = blocks
  BY DEF Scan
<1>2. /\ code \in Seq(Byte) /\ Len(code) \in Nat
      /\ InstrStarts(code) \subseteq 0..Len(code)
      /\ curr \in InstrStarts(code) /\ curr < Len(code)
      /\ next \in InstrStarts(code) /\ next > curr
      /\ LeadsTo(code, next)
      /\ \A q \in InstrStarts(code) : q < next => q <= curr
  BY <1>1, StepFacts
<1>3. /\ first \in InstrStarts(code) /\ first <= curr
      /\ \A i \in 1..Len(blocks) : blocks[i].end <= first
      /\ \A q \in InstrStarts(code) : first < q /\ q <= curr => OpAt(code, q) # "JUMPDEST"
      /\ \A q \in InstrStarts(code) : q <= curr /\ OpAt(code, q) = "JUMPDEST" =>
           (\E i \in 1..Len(blocks) : blocks[i].first = q) \/ q = first
      /\ OpAt(code, first) # "JUMPDEST" =>
           IF blocks = << >> THEN first = 0
           ELSE /\ blocks[Len(blocks)].end = first
                /\ \E q \in InstrStarts(code) : q < Len(code) /\ NextPc(code, q) = first
                                                  /\ OpAt(code, q) = "JUMPI"
  BY FirstFacts
<1>4. blocks \in Seq(Block)
  BY DEF ScanInv, ScanShape
<1>5. /\ next \in 0..Len(code) /\ first \in 0..Len(code) /\ first < next /\ isDead' \in BOOLEAN
  BY <1>1, <1>2, <1>3 DEF DeadAfter
<1>6. LeadsTo(code, curr)'
  BY <1>1, <1>2 DEF LeadsTo
<1>6a. HaltEndsBlock' /\ DeadEntry' /\ DroppedIsDead'
  BY DeadStep
<1>7. CASE ~EndsBlock(op, next)
  <2>1. begin' = first /\ blocks' = blocks
    BY <1>1, <1>7
  <2>2. ~isDead' /\ next # Len(code) /\ OpAt(code, next) # "JUMPDEST"
    <3>1. op \notin Halting /\ next # Len(code)
      BY <1>7, Zenon DEF EndsBlock
    <3>2. next < Len(code)
      BY <1>2, <1>5, <3>1
    <3>3. OpAt(code, next) # "JUMPDEST"
      BY <1>7, <3>2, Zenon DEF EndsBlock
    <3>4. ~isDead'
      BY <1>1, <3>1, Zenon DEF DeadAfter
    <3> QED BY <3>1, <3>3, <3>4, Zenon
  <2>3. ScanShape'
    BY <1>1, <1>2, <1>4, <1>5, <2>1 DEF ScanShape
  <2>4. OnBoundary'
    BY <1>1, <1>2, <1>3, <2>1 DEF ScanInv, OnBoundary
  <2>5. Ordered'
    <3>1. \A i \in 1..Len(blocks) : blocks[i].first < blocks[i].end
      BY DEF ScanInv, Ordered
    <3> QED BY <1>1, <1>3, <1>5, <2>1, <3>1 DEF Ordered
  <2>6. JumpdestsKept'
    BY <1>1, <1>2, <1>3, <2>1, <2>2 DEF JumpdestsKept
  <2>7. OpenBlock'
    BY <1>1, <1>2, <1>3, <2>1, <2>2 DEF OpenBlock
  <2>8. OpenEntry'
    BY <1>1, <1>3, <2>1 DEF OpenEntry
  <2>9. Closed' /\ FirstBlock'
    <3>1. blocks = << >> => first = 0
      BY DEF ScanInv, FirstBlock, Revives
    <3> QED BY <1>1, <2>1, <2>2, <3>1 DEF ScanInv, Closed, FirstBlock
  <2>10. JumpdestStartsBlock' /\ OnePredecessor' /\ Disjoint'
    BY <1>1, <2>1 DEF ScanInv, JumpdestStartsBlock, OnePredecessor, Disjoint
  <2> QED BY <1>6, <1>6a, <2>3, <2>4, <2>5, <2>6, <2>7, <2>8, <2>9, <2>10 DEF ScanInv
<1>8. CASE EndsBlock(op, next)
  <2> PICK n \in Nat : n = Len(blocks)
    BY <1>4
  <2> DEFINE b == [first |-> first, end |-> next]
  <2>1. begin' = next /\ blocks' = Append(blocks, b)
    BY <1>1, <1>8
  <2>2. b \in Block /\ b.first = first /\ b.end = next
    BY <1>5 DEF Block
  <2> HIDE DEF b
  <2>3. /\ blocks' \in Seq(Block) /\ Len(blocks') = n + 1 /\ blocks'[n + 1] = b
        /\ \A i \in 1..n : blocks'[i] = blocks[i]
        /\ \A i \in 1..(n + 1) : i \in 1..n \/ i = n + 1
    BY <1>4, <2>1, <2>2
  <2>4. ScanShape'
    BY <1>1, <1>2, <1>4, <1>5, <2>1, <2>3 DEF ScanShape
  <2>5. OnBoundary'
    BY <1>1, <1>2, <1>3, <2>1, <2>2, <2>3 DEF ScanInv, OnBoundary
  <2>6. Ordered'
    <3>1. \A i \in 1..n : blocks[i].first < blocks[i].end /\ blocks[i].end \in Nat
                            /\ blocks[i].end <= first
      <4>1. \A i \in 1..n : blocks[i] \in Block
        BY <1>4
      <4>2. \A i \in 1..n : blocks[i].first < blocks[i].end
        BY DEF ScanInv, Ordered
      <4> QED BY <1>3, <4>1, <4>2 DEF Block
    <3>2. \A i \in 1..n : blocks[i].end <= next
      BY <1>5, <3>1
    <3> QED BY <1>1, <1>5, <2>1, <2>2, <2>3, <3>1, <3>2 DEF Ordered
  <2>7. JumpdestsKept'
    <3> SUFFICES ASSUME NEW q \in InstrStarts(code), q < next, OpAt(code, q) = "JUMPDEST"
                 PROVE  \E i \in 1..(n + 1) : blocks'[i].first = q
      BY <1>1, <2>3 DEF JumpdestsKept
    <3>1. (\E i \in 1..n : blocks[i].first = q) \/ q = first
      BY <1>2, <1>3
    <3>2. n + 1 \in 1..(n + 1) /\ \A i \in 1..n : i \in 1..(n + 1)
      OBVIOUS
    <3> QED BY <2>2, <2>3, <3>1, <3>2
  <2>8. OpenBlock' /\ Closed'
    <3>1. \A q \in InstrStarts(code) : ~(next < q /\ q < next)
      BY <1>2
    <3> QED BY <1>1, <1>5, <2>1, <3>1 DEF OpenBlock, Closed
  <2>9. OpenEntry'
    <3> SUFFICES ASSUME ~isDead', next < Len(code), OpAt(code, next) # "JUMPDEST"
                 PROVE  /\ blocks'[n + 1].end = next
                        /\ \E q \in InstrStarts(code) : q < Len(code) /\ NextPc(code, q) = next
                                                          /\ OpAt(code, q) = "JUMPI"
      <4>1. blocks' # << >>
        BY <2>3
      <4> QED BY <1>1, <2>1, <2>3, <4>1 DEF OpenEntry
    <3>1. op \notin Halting
      BY <1>1, Zenon DEF DeadAfter
    <3>2. op \in Halting \union {"JUMPI"}
      BY <1>5, <1>8 DEF EndsBlock
    <3>3. op = "JUMPI"
      BY <3>1, <3>2
    <3> QED BY <1>2, <2>2, <2>3, <3>3
  <2>10. JumpdestStartsBlock'
    <3> SUFFICES ASSUME NEW q \in InstrStarts(code), NEW i \in 1..(n + 1),
                        blocks'[i].first < q, q < blocks'[i].end
                 PROVE  OpAt(code, q) # "JUMPDEST"
      BY <1>1, <2>3 DEF JumpdestStartsBlock
    <3>1. CASE i = n + 1
      BY <1>2, <1>3, <2>2, <2>3, <3>1
    <3>2. CASE i \in 1..n
      BY <2>3, <3>2 DEF ScanInv, JumpdestStartsBlock
    <3> QED BY <2>3, <3>1, <3>2
  <2>11. OnePredecessor'
    <3> SUFFICES ASSUME NEW i \in 1..(n + 1), OpAt(code, blocks'[i].first) # "JUMPDEST"
                 PROVE  IF i = 1 THEN blocks'[i].first = 0
                        ELSE /\ blocks'[i - 1].end = blocks'[i].first
                             /\ \E q \in InstrStarts(code) :
                                  q < Len(code) /\ NextPc(code, q) = blocks'[i].first
                                    /\ OpAt(code, q) = "JUMPI"
      BY <1>1, <2>3 DEF OnePredecessor
    <3>1. CASE i \in 1..n
      <4>1. i = 1 \/ i - 1 \in 1..n
        BY <3>1
      <4> QED BY <2>3, <3>1, <4>1 DEF ScanInv, OnePredecessor
    <3>2. CASE i = n + 1
      <4>1. CASE n = 0
        <5>1. blocks = << >>
          BY <1>4, <4>1, EmptySeq
        <5> QED BY <1>3, <2>2, <2>3, <3>2, <4>1, <5>1
      <4>2. CASE n # 0
        <5>1. blocks # << >> /\ n \in 1..n /\ i - 1 = n /\ i # 1
          BY <3>2, <4>2
        <5>2. blocks'[i - 1] = blocks[Len(blocks)] /\ blocks'[i].first = first
          BY <2>2, <2>3, <3>2, <5>1
        <5> QED BY <1>3, <5>1, <5>2
      <4> QED BY <4>1, <4>2
    <3> QED BY <2>3, <3>1, <3>2
  <2>12. FirstBlock'
    <3>1. CASE n = 0
      <4>1. blocks = << >>
        BY <1>4, <3>1, EmptySeq
      <4>2. first = 0
        BY <4>1 DEF ScanInv, FirstBlock, Revives
      <4>3. blocks' # << >> /\ blocks'[1] = b
        BY <2>3, <3>1
      <4> QED BY <2>2, <4>2, <4>3 DEF FirstBlock
    <3>2. CASE n # 0
      <4>1. blocks # << >> /\ blocks' # << >> /\ blocks'[1] = blocks[1]
        BY <2>3, <3>2
      <4> QED BY <4>1 DEF ScanInv, FirstBlock
    <3> QED BY <3>1, <3>2
  <2>13. Disjoint'
    <3> SUFFICES ASSUME NEW i \in 1..(n + 1), NEW j \in 1..(n + 1), i < j
                 PROVE  blocks'[i].end <= blocks'[j].first
      BY <2>3 DEF Disjoint
    <3>1. i \in 1..n
      OBVIOUS
    <3>2. CASE j = n + 1
      BY <1>3, <2>2, <2>3, <3>1, <3>2
    <3>3. CASE j \in 1..n
      BY <2>3, <3>1, <3>3 DEF ScanInv, Disjoint
    <3> QED BY <2>3, <3>2, <3>3
  <2> QED BY <1>6, <1>6a, <2>4, <2>5, <2>6, <2>7, <2>8, <2>9, <2>10, <2>11, <2>12, <2>13 DEF ScanInv
<1> QED BY <1>7, <1>8

\* Every iteration keeps the invariant.
LEMMA StepScanInv == ScanInv /\ [ScanNext]_scanVars => ScanInv'
<1> SUFFICES ASSUME ScanInv, [ScanNext]_scanVars PROVE ScanInv'
  OBVIOUS
<1>1. CASE UNCHANGED scanVars
  BY <1>1 DEF scanVars, ScanInv, ScanShape, OnBoundary, LeadsTo, Ordered, JumpdestsKept,
     OpenBlock, OpenEntry, Closed, JumpdestStartsBlock, OnePredecessor, Disjoint,
     HaltEndsBlock, FirstBlock, DeadEntry, DroppedIsDead, InBlock
<1> QED BY <1>1, SkipDeadStep, ScanStep DEF ScanNext

\* createBasicBlocks keeps all of its invariants, for every bytecode.
THEOREM ScanInvariant == ScanSpec => []ScanInv
<1>1. ScanInit => ScanStart
  BY ProgramsAssumption DEF ScanInit, ScanStart
<1> QED BY <1>1, InitScanInv, StepScanInv, PTL DEF ScanSpec

\* After the loop the invariant makes the jump table exact.
LEMMA InvJumpTable == ScanInv => JumpTableExact
<1> SUFFICES ASSUME ScanInv, ~Scanning PROVE JumpTable = ValidJumpDests(code)
  BY DEF JumpTableExact
<1>1. code \in Seq(Byte) /\ Len(code) \in Nat /\ curr = Len(code)
  BY CodeSeq DEF ScanInv, ScanShape, Scanning
<1>2. InstrStarts(code) \subseteq 0..Len(code)
  BY StartsMember
<1>3. ASSUME NEW p \in JumpTable PROVE p \in ValidJumpDests(code)
  <2>1. PICK i \in 1..Len(blocks) : p = blocks[i].first /\ OpAt(code, p) = "JUMPDEST"
    BY DEF JumpTable
  <2>2. p \in InstrStarts(code) /\ blocks[i].end \in InstrStarts(code)
    BY <2>1 DEF ScanInv, OnBoundary
  <2>3. p < blocks[i].end
    BY <2>1 DEF ScanInv, Ordered
  <2>4. p < Len(code)
    BY <1>1, <1>2, <2>2, <2>3
  <2> QED BY <2>1, <2>2, <2>4 DEF ValidJumpDests
<1>4. ASSUME NEW p \in ValidJumpDests(code) PROVE p \in JumpTable
  <2>1. p \in InstrStarts(code) /\ p < Len(code) /\ OpAt(code, p) = "JUMPDEST"
    BY DEF ValidJumpDests
  <2>2. (\E i \in 1..Len(blocks) : blocks[i].first = p) \/ (~isDead /\ p = begin)
    BY <1>1, <2>1 DEF ScanInv, JumpdestsKept
  <2>3. ~(~isDead /\ p = begin)
    BY <1>1, <1>2, <2>1 DEF ScanInv, Closed
  <2> QED BY <2>1, <2>2, <2>3 DEF JumpTable
<1> QED BY <1>3, <1>4

\* For every bytecode the jump table is exact: a dynamic jump of the translated
\* contract reaches a block precisely when the EVM accepts the target.
THEOREM JumpTableCorrect == ScanSpec => []JumpTableExact
<1> QED BY ScanInvariant, InvJumpTable, PTL

\* For every bytecode a block that takes its predecessor's registers over has
\* that one predecessor, and no JUMPDEST is buried inside a block.
THEOREM BlockEntries == ScanSpec => []OnePredecessor /\ []JumpdestStartsBlock
<1>1. ScanInv => OnePredecessor /\ JumpdestStartsBlock
  BY DEF ScanInv
<1> QED BY <1>1, ScanInvariant, PTL

\* For every bytecode what createBasicBlocks drops can not be reached: it is
\* no jump target, and nothing that is kept falls through to it.
THEOREM DroppedCorrect == ScanSpec => []DroppedIsDead
<1>1. ScanInv => DroppedIsDead
  BY DEF ScanInv
<1> QED BY <1>1, ScanInvariant, PTL

(***************************************************************************)
(* The instructions of a part of a code.                                   *)
(***************************************************************************)
\* From a suffix of the code the next instruction is where it is in the code.
LEMMA SuffixNext ==
  ASSUME NEW c \in Seq(Byte), NEW s \in 0..Len(c), NEW d, d = SubSeq(c, s + 1, Len(c))
  PROVE  /\ d \in Seq(Byte) /\ Len(d) = Len(c) - s
         /\ \A p \in 0..Len(d) : p < Len(d) => NextPc(c, s + p) = s + NextPc(d, p)
<1>1. d \in Seq(Byte) /\ Len(d) = Len(c) - s
  OBVIOUS
<1>2. ASSUME NEW p \in 0..Len(d), p < Len(d)
      PROVE  NextPc(c, s + p) = s + NextPc(d, p)
  <2>1. d[p + 1] = c[s + p + 1]
    BY <1>1, <1>2
  <2>2. OpAt(d, p) = OpAt(c, s + p)
    BY <2>1 DEF OpAt
  <2>3. PushSize(OpAt(d, p)) \in Nat
    BY DEF PushSize
  <2> QED BY <1>1, <1>2, <2>2, <2>3 DEF NextPc
<1> QED BY <1>1, <1>2

\* So it is in a prefix, unless the instruction is cut off.
LEMMA PrefixNext ==
  ASSUME NEW c \in Seq(Byte), NEW s \in 0..Len(c), NEW d, d = SubSeq(c, 1, s)
  PROVE  /\ d \in Seq(Byte) /\ Len(d) = s
         /\ \A p \in 0..s : p < s /\ NextPc(c, p) <= s => NextPc(c, p) = NextPc(d, p)
<1>1. d \in Seq(Byte) /\ Len(d) = s
  OBVIOUS
<1>2. ASSUME NEW p \in 0..s, p < s, NextPc(c, p) <= s
      PROVE  NextPc(c, p) = NextPc(d, p)
  <2>1. d[p + 1] = c[p + 1]
    BY <1>1, <1>2
  <2>2. OpAt(d, p) = OpAt(c, p)
    BY <2>1 DEF OpAt
  <2>3. PushSize(OpAt(d, p)) \in Nat
    BY DEF PushSize
  <2> QED BY <1>1, <1>2, <2>2, <2>3 DEF NextPc
<1> QED BY <1>1, <1>2

\* Cut where an instruction starts, the suffix keeps its instructions.
LEMMA SuffixStarts ==
  ASSUME NEW c \in Seq(Byte), NEW s \in InstrStarts(c), LeadsTo(c, s),
         NEW d, d = SubSeq(c, s + 1, Len(c))
  PROVE  InstrStarts(d) = {p - s : p \in {q \in InstrStarts(c) : q >= s}}
<1> DEFINE S == {p \in 0..Len(d) : s + p \in InstrStarts(c)}
<1> DEFINE T == {p \in InstrStarts(c) : p >= s => p - s \in InstrStarts(d)}
<1>a. InstrStarts(c) \subseteq 0..Len(c) /\ Len(c) \in Nat /\ s \in 0..Len(c)
  BY StartsMember
<1>b. InstrStarts(d) \subseteq 0..Len(d)
  BY StartsMember
<1>1. /\ InstrStarts(c) \subseteq 0..Len(c) /\ InstrStarts(d) \subseteq 0..Len(d)
      /\ Len(c) \in Nat /\ s \in 0..Len(c)
  BY <1>a, <1>b
<1>2. /\ d \in Seq(Byte) /\ Len(d) = Len(c) - s
      /\ \A p \in 0..Len(d) : p < Len(d) => NextPc(c, s + p) = s + NextPc(d, p)
  BY <1>1, SuffixNext
<1>3. \A p \in InstrStarts(d) : s + p \in InstrStarts(c)
  <2>1. 0 \in S
    BY <1>1, <1>2
  <2>2. ASSUME NEW p \in S, p < Len(d) PROVE NextPc(d, p) \in S
    <3>1. s + p \in InstrStarts(c) /\ s + p < Len(c) /\ p \in 0..Len(d)
      BY <1>1, <1>2, <2>2
    <3>2. NextPc(c, s + p) \in InstrStarts(c)
      BY <3>1, StartsClosed
    <3>3. NextPc(d, p) \in 0..Len(d)
      BY <1>2, <2>2, <3>1, NextPcBound
    <3> QED BY <1>2, <2>2, <3>1, <3>2, <3>3
  <2>3. ClosedUnderNext(d, S)
    BY <2>1, <2>2 DEF ClosedUnderNext
  <2>4. S \in SUBSET (0..Len(d))
    OBVIOUS
  <2> HIDE DEF S
  <2>5. \A p \in InstrStarts(d) : p \in S
    BY <2>3, <2>4, StartsMember
  <2> QED BY <2>5 DEF S
<1>4. \A p \in InstrStarts(c) : p >= s => p - s \in InstrStarts(d)
  <2>1. 0 \in T
    <3>1. CASE s = 0
      <4>1. 0 \in InstrStarts(c) /\ 0 \in InstrStarts(d)
        BY <1>2, StartsClosed
      <4> QED BY <3>1, <4>1
    <3>2. CASE s > 0
      BY <1>1, <3>2, StartsClosed
    <3> QED BY <1>1, <3>1, <3>2
  <2>2. ASSUME NEW p \in T, p < Len(c) PROVE NextPc(c, p) \in T
    <3>1. p \in InstrStarts(c) /\ p \in 0..Len(c)
      BY <1>1
    <3>2. NextPc(c, p) \in InstrStarts(c) /\ NextPc(c, p) \in 0..Len(c) /\ NextPc(c, p) > p
      BY <2>2, <3>1, StartsClosed, NextPcBound
    <3>3. CASE p < s
      <4>1. NextPc(c, p) <= s
        BY <3>1, <3>3 DEF LeadsTo
      <4>2. 0 \in InstrStarts(d)
        BY <1>2, StartsClosed
      <4>3. NextPc(c, p) >= s => NextPc(c, p) - s = 0
        BY <1>1, <3>2, <4>1
      <4> QED BY <3>2, <4>2, <4>3
    <3>4. CASE p >= s
      <4>1. p - s \in InstrStarts(d) /\ p - s \in 0..Len(d) /\ p - s < Len(d)
        BY <1>1, <1>2, <2>2, <3>1, <3>4
      <4>2. NextPc(d, p - s) \in InstrStarts(d) /\ NextPc(d, p - s) \in 0..Len(d)
        BY <1>2, <4>1, StartsClosed, NextPcBound
      <4>3. s + (p - s) = p
        BY <1>1, <3>1
      <4>4. NextPc(c, p) = s + NextPc(d, p - s)
        BY <1>2, <4>1, <4>3
      <4>5. NextPc(c, p) - s = NextPc(d, p - s)
        BY <1>1, <4>2, <4>4
      <4> QED BY <3>2, <4>2, <4>5
    <3> QED BY <1>1, <3>1, <3>3, <3>4
  <2>3. ClosedUnderNext(c, T)
    BY <2>1, <2>2 DEF ClosedUnderNext
  <2>4. T \in SUBSET (0..Len(c))
    BY <1>1
  <2> HIDE DEF T
  <2>5. \A p \in InstrStarts(c) : p \in T
    BY <2>3, <2>4, StartsMember
  <2> QED BY <2>5 DEF T
<1> HIDE DEF S, T
<1>5. \A p \in InstrStarts(d) : s + p >= s /\ (s + p) - s = p
  BY <1>1
<1> QED BY <1>3, <1>4, <1>5

\* And so does the prefix.
LEMMA PrefixStarts ==
  ASSUME NEW c \in Seq(Byte), NEW s \in InstrStarts(c), LeadsTo(c, s),
         NEW d, d = SubSeq(c, 1, s)
  PROVE  InstrStarts(d) = InstrStarts(c) \intersect 0..s
<1> DEFINE S == InstrStarts(c) \intersect 0..s
<1> DEFINE T == {p \in InstrStarts(c) : p <= s => p \in InstrStarts(d)}
<1>a. InstrStarts(c) \subseteq 0..Len(c) /\ Len(c) \in Nat /\ s \in 0..Len(c)
  BY StartsMember
<1>b. InstrStarts(d) \subseteq 0..Len(d)
  BY StartsMember
<1>1. /\ InstrStarts(c) \subseteq 0..Len(c) /\ InstrStarts(d) \subseteq 0..Len(d)
      /\ Len(c) \in Nat /\ s \in 0..Len(c)
  BY <1>a, <1>b
<1>2. /\ d \in Seq(Byte) /\ Len(d) = s
      /\ \A p \in 0..s : p < s /\ NextPc(c, p) <= s => NextPc(c, p) = NextPc(d, p)
  BY <1>1, PrefixNext
<1>3. \A p \in InstrStarts(d) : p \in S
  <2>1. 0 \in S
    BY <1>1, StartsClosed
  <2>2. ASSUME NEW p \in S, p < Len(d) PROVE NextPc(d, p) \in S
    <3>1. p \in InstrStarts(c) /\ p \in 0..s /\ p < s /\ p < Len(c)
      BY <1>1, <1>2, <2>2
    <3>2. NextPc(c, p) \in InstrStarts(c) /\ NextPc(c, p) <= s
      BY <3>1, StartsClosed DEF LeadsTo
    <3>3. NextPc(c, p) \in 0..s
      BY <1>1, <3>2
    <3> QED BY <1>2, <3>1, <3>2, <3>3
  <2>3. ClosedUnderNext(d, S)
    BY <2>1, <2>2 DEF ClosedUnderNext
  <2>4. S \in SUBSET (0..Len(d))
    BY <1>2
  <2> HIDE DEF S
  <2> QED BY <2>3, <2>4, StartsMember
<1>4. \A p \in InstrStarts(c) : p <= s => p \in InstrStarts(d)
  <2>1. 0 \in T
    BY <1>1, <1>2, StartsClosed
  <2>2. ASSUME NEW p \in T, p < Len(c) PROVE NextPc(c, p) \in T
    <3>1. p \in InstrStarts(c) /\ p \in 0..Len(c)
      BY <1>1
    <3>2. NextPc(c, p) \in InstrStarts(c) /\ NextPc(c, p) \in 0..Len(c) /\ NextPc(c, p) > p
      BY <2>2, <3>1, StartsClosed, NextPcBound
    <3>3. CASE p < s
      <4>1. NextPc(c, p) <= s /\ p \in InstrStarts(d)
        BY <1>1, <3>1, <3>3 DEF LeadsTo
      <4>2. NextPc(d, p) \in InstrStarts(d)
        BY <1>2, <3>3, <4>1, StartsClosed
      <4> QED BY <1>1, <1>2, <3>1, <3>2, <3>3, <4>1, <4>2
    <3>4. CASE p >= s
      BY <1>1, <3>1, <3>2, <3>4
    <3> QED BY <1>1, <3>1, <3>3, <3>4
  <2>3. ClosedUnderNext(c, T)
    BY <2>1, <2>2 DEF ClosedUnderNext
  <2>4. T \in SUBSET (0..Len(c))
    BY <1>1
  <2> HIDE DEF T
  <2>5. \A p \in InstrStarts(c) : p \in T
    BY <2>3, <2>4, StartsMember
  <2> QED BY <2>5 DEF T
<1>5. InstrStarts(d) \subseteq 0..s
  BY <1>1, <1>2
<1> QED BY <1>3, <1>4, <1>5, <1>1

(***************************************************************************)
(* The inductive invariant of the split.                                   *)
(***************************************************************************)
\* What the flags of the loop stand for.
FlagsMean ==
  LET starts == InstrStarts(whole) IN
  /\ existCodeCopy => \E p \in starts : p < offset /\ OpAt(whole, p) = "CODECOPY"
  /\ existReturn =>
       /\ existCodeCopy
       /\ RETURNPC \in starts /\ RETURNPC < offset /\ OpAt(whole, RETURNPC) = "RETURN"
       /\ \E p \in starts : p < RETURNPC /\ OpAt(whole, p) = "CODECOPY"
       /\ \A p \in starts : RETURNPC < p /\ p < offset => OpAt(whole, p) # "RETURN"

SplitInv ==
  /\ whole \in Programs
  /\ existCodeCopy \in BOOLEAN /\ existReturn \in BOOLEAN
  /\ offset \in InstrStarts(whole) /\ LeadsTo(whole, offset)
  /\ FlagsMean
  /\ Split => splitPoint = offset /\ offset < Len(whole) /\ existReturn

\* The loop's step keeps what the flags stand for: no start lies between two
\* positions of the loop.
LEMMA SplitStepInv ==
  ASSUME SplitInv, SplitStep
  PROVE  SplitInv'
<1> PICK op : op = OpAt(whole, offset)
  OBVIOUS
<1> PICK next : next = NextPc(whole, offset)
  OBVIOUS
<1> PICK starts : starts = InstrStarts(whole)
  OBVIOUS
<1>1. /\ part = "split" /\ offset < Len(whole) /\ ~(op = "PUSH1" /\ existReturn)
      /\ offset' = next /\ whole' = whole /\ part' = part
      /\ existCodeCopy' = (existCodeCopy \/ op = "CODECOPY")
      /\ existReturn' = (existReturn \/ Remembers(op))
      /\ RETURNPC' = IF Remembers(op) THEN offset ELSE RETURNPC
  BY DEF SplitStep, SplitNext
<1>2. whole \in Seq(Byte) /\ Len(whole) \in Nat /\ starts \subseteq 0..Len(whole)
  BY ProgramsAssumption, StartsMember DEF SplitInv
<1>3. offset \in starts /\ LeadsTo(whole, offset) /\ offset \in 0..Len(whole)
  BY <1>2 DEF SplitInv
<1>4. next \in starts /\ next \in 0..Len(whole) /\ next > offset /\ LeadsTo(whole, next)
  BY <1>1, <1>2, <1>3, StartsClosed, NextPcBound, LeadsToNext
<1>5. \A p \in starts : p < next => p <= offset
  BY <1>1, <1>2, <1>3, <1>4, NoGap
<1>6. /\ existCodeCopy => \E p \in starts : p < offset /\ OpAt(whole, p) = "CODECOPY"
      /\ existReturn =>
           /\ existCodeCopy
           /\ RETURNPC \in starts /\ RETURNPC < offset /\ OpAt(whole, RETURNPC) = "RETURN"
           /\ \E p \in starts : p < RETURNPC /\ OpAt(whole, p) = "CODECOPY"
           /\ \A p \in starts : RETURNPC < p /\ p < offset => OpAt(whole, p) # "RETURN"
  BY DEF SplitInv, FlagsMean
<1>7. existCodeCopy' => \E p \in starts : p < next /\ OpAt(whole, p) = "CODECOPY"
  <2>1. CASE existCodeCopy
    <3>1. PICK p \in starts : p < offset /\ OpAt(whole, p) = "CODECOPY"
      BY <1>6, <2>1
    <3> QED BY <1>2, <1>3, <1>4, <3>1
  <2>2. CASE op = "CODECOPY"
    BY <1>3, <1>4, <2>2
  <2> QED BY <1>1, <2>1, <2>2
<1>8. existReturn' =>
        /\ existCodeCopy'
        /\ RETURNPC' \in starts /\ RETURNPC' < next /\ OpAt(whole, RETURNPC') = "RETURN"
        /\ \E p \in starts : p < RETURNPC' /\ OpAt(whole, p) = "CODECOPY"
        /\ \A p \in starts : RETURNPC' < p /\ p < next => OpAt(whole, p) # "RETURN"
  <2>1. CASE Remembers(op)
    <3>1. existCodeCopy /\ op = "RETURN" /\ RETURNPC' = offset
      BY <1>1, <2>1 DEF Remembers
    <3>2. \A p \in starts : ~(offset < p /\ p < next)
      BY <1>2, <1>3, <1>4, <1>5
    <3> QED BY <1>1, <1>3, <1>4, <1>6, <3>1, <3>2
  <2>2. CASE ~Remembers(op)
    <3>1. SUFFICES ASSUME existReturn PROVE
            /\ existCodeCopy'
            /\ RETURNPC' \in starts /\ RETURNPC' < next /\ OpAt(whole, RETURNPC') = "RETURN"
            /\ \E p \in starts : p < RETURNPC' /\ OpAt(whole, p) = "CODECOPY"
            /\ \A p \in starts : RETURNPC' < p /\ p < next => OpAt(whole, p) # "RETURN"
      BY <1>1, <2>2
    <3>2. op # "RETURN" /\ RETURNPC' = RETURNPC /\ existCodeCopy'
      BY <1>1, <1>6, <2>2, <3>1 DEF Remembers
    <3>3. RETURNPC < next
      BY <1>2, <1>3, <1>4, <1>6, <3>1
    <3>4. ASSUME NEW p \in starts, RETURNPC < p, p < next PROVE OpAt(whole, p) # "RETURN"
      <4>1. p <= offset
        BY <1>5, <3>4
      <4>2. CASE p = offset
        BY <3>2, <4>2
      <4>3. CASE p < offset
        BY <1>6, <3>1, <3>4, <4>3
      <4> QED BY <1>2, <1>3, <4>1, <4>2, <4>3
    <3> QED BY <1>6, <3>1, <3>2, <3>3, <3>4
  <2> QED BY <2>1, <2>2
<1>9. whole \in Programs /\ ~Split'
  BY <1>1 DEF SplitInv, Split
<1>10. existCodeCopy' \in BOOLEAN /\ existReturn' \in BOOLEAN
  BY <1>1 DEF SplitInv
<1> QED BY <1>1, <1>4, <1>7, <1>8, <1>9, <1>10 DEF SplitInv, FlagsMean, Remembers

\* Every step keeps the invariant.
LEMMA SplitInvStep == SplitInv /\ [SplitNextState]_deployVars => SplitInv'
<1> SUFFICES ASSUME SplitInv, [SplitNextState]_deployVars PROVE SplitInv'
  OBVIOUS
<1>1. CASE SplitFound
  BY <1>1 DEF SplitFound, SplitInv, FlagsMean, Split, LeadsTo
<1>2. CASE SplitFails
  BY <1>2 DEF SplitFails, splitVars, SplitInv, FlagsMean, Split, LeadsTo
<1>3. CASE ScanPart
  BY <1>3 DEF ScanPart, splitVars, SplitInv, FlagsMean, Split, LeadsTo
<1>4. CASE TranslateDeployer
  BY <1>4 DEF TranslateDeployer, splitVars, SplitInv, FlagsMean, Split, LeadsTo
<1>5. CASE RuntimeInput
  BY <1>5 DEF RuntimeInput, splitVars, SplitInv, FlagsMean, Split, LeadsTo
<1>6. CASE UNCHANGED deployVars
  BY <1>6 DEF deployVars, splitVars, SplitInv, FlagsMean, Split, LeadsTo
<1> QED BY <1>1, <1>2, <1>3, <1>4, <1>5, <1>6, SplitStepInv DEF SplitNextState

\* The loop starts at an instruction, with nothing found.
LEMMA SplitInvInit == SplitInit => SplitInv
<1> SUFFICES ASSUME SplitInit PROVE SplitInv
  OBVIOUS
<1>1. /\ whole \in Programs /\ part = "split" /\ offset = 0
      /\ existCodeCopy = FALSE /\ existReturn = FALSE
  BY DEF SplitInit
<1>2. whole \in Seq(Byte)
  BY <1>1, ProgramsAssumption
<1>3. 0 \in InstrStarts(whole) /\ InstrStarts(whole) \subseteq 0..Len(whole)
  BY <1>2, StartsClosed, StartsMember
<1>4. LeadsTo(whole, 0)
  BY <1>2, <1>3 DEF LeadsTo
<1> QED BY <1>1, <1>3, <1>4 DEF SplitInv, FlagsMean, Split

\* For every creation code: cutting it where splitCode says moves no
\* instruction of either part.
THEOREM CutIsOnBoundary == SplitSpec => []CutOnBoundary
<1>1. SplitInv => CutOnBoundary
  <2> SUFFICES ASSUME SplitInv, Split
               PROVE  /\ InstrStarts(RuntimerBytecode) =
                           {p - splitPoint : p \in {q \in InstrStarts(whole) : q >= splitPoint}}
                      /\ InstrStarts(DeployerBytecode) = InstrStarts(whole) \intersect 0..splitPoint
    BY DEF CutOnBoundary
  <2>1. whole \in Seq(Byte) /\ splitPoint \in InstrStarts(whole) /\ LeadsTo(whole, splitPoint)
    BY ProgramsAssumption DEF SplitInv
  <2> QED BY <2>1, SuffixStarts, PrefixStarts DEF RuntimerBytecode, DeployerBytecode
<1> QED BY <1>1, SplitInvInit, SplitInvStep, PTL DEF SplitSpec

\* For every creation code: the RETURN that hands the runtime's wasm over is the
\* deploy part's last RETURN instruction, after a CODECOPY.
THEOREM ReturnPcCorrect == SplitSpec => []ReturnPcIsReturn
<1>1. SplitInv => ReturnPcIsReturn
  BY DEF SplitInv, FlagsMean, ReturnPcIsReturn
<1> QED BY <1>1, SplitInvInit, SplitInvStep, PTL DEF SplitSpec

\* Both results of splitCode are right for every creation code.
THEOREM CutCorrect == SplitSpec => []CutSound
<1>1. CutOnBoundary /\ ReturnPcIsReturn => CutSound
  BY DEF CutSound
<1> QED BY <1>1, CutIsOnBoundary, ReturnPcCorrect, PTL

(***************************************************************************)
(* The translations of the two parts.                                      *)
(***************************************************************************)
\* What is being scanned, and that the scan is right for it.
PartsInv ==
  /\ part \in {"split", "runtime", "deploy", "input", "failed"}
  /\ RETURNPC \in 0..Len(whole) /\ splitPoint \in 0..Len(whole)
  /\ part = "runtime" => code = RuntimerBytecode
  /\ part = "deploy" => code = DeployerBytecode
  /\ ScanInv

\* The split point and the loop's position are positions of the code.
LEMMA SplitFacts ==
  ASSUME SplitInv
  PROVE  /\ whole \in Seq(Byte) /\ Len(whole) \in Nat
         /\ offset \in 0..Len(whole) /\ InstrStarts(whole) \subseteq 0..Len(whole)
<1>1. whole \in Seq(Byte)
  BY ProgramsAssumption DEF SplitInv
<1>2. InstrStarts(whole) \subseteq 0..Len(whole)
  BY StartsMember
<1> QED BY <1>1, <1>2 DEF SplitInv

\* A translation starts from the beginning of the code it is given.
LEMMA TranslateStarts ==
  ASSUME NEW c \in Seq(Byte), Translate(c)
  PROVE  ScanInv'
<1>1. ScanStart'
  BY DEF ScanStart, Translate
<1> QED BY <1>1, InitScanInv, PTL

\* A step of createBasicBlocks, or none, keeps what is known of the scan.
LEMMA ScanKept ==
  ASSUME ScanInv, ScanNext \/ UNCHANGED scanVars
  PROVE  ScanInv' /\ code' = code
<1>1. ScanInv'
  BY StepScanInv
<1>2. code' = code
  BY DEF ScanNext, SkipDead, Scan, scanVars
<1> QED BY <1>1, <1>2

\* Every step keeps the invariant.
LEMMA PartsInvStep == SplitInv /\ PartsInv /\ [SplitNextState]_deployVars => PartsInv'
<1> SUFFICES ASSUME SplitInv, PartsInv, [SplitNextState]_deployVars PROVE PartsInv'
  OBVIOUS
<1>1. /\ whole \in Seq(Byte) /\ Len(whole) \in Nat /\ offset \in 0..Len(whole)
      /\ RETURNPC \in 0..Len(whole) /\ splitPoint \in 0..Len(whole) /\ ScanInv
  BY SplitFacts DEF PartsInv
<1>2. CASE SplitStep
  <2>1. /\ part = "split" /\ UNCHANGED <<part, whole, splitPoint, scanVars>>
        /\ (RETURNPC' = offset \/ RETURNPC' = RETURNPC)
    BY <1>2 DEF SplitStep
  <2>2. ScanInv'
    BY <1>1, <2>1, ScanKept
  <2> QED BY <1>1, <2>1, <2>2 DEF PartsInv
<1>3. CASE SplitFound
  <2>1. /\ splitPoint' = offset /\ part' = "runtime" /\ whole' = whole /\ RETURNPC' = RETURNPC
        /\ Translate(SubSeq(whole, offset + 1, Len(whole)))
    BY <1>3 DEF SplitFound
  <2>2. SubSeq(whole, offset + 1, Len(whole)) \in Seq(Byte)
    BY <1>1
  <2>3. ScanInv'
    BY <2>1, <2>2, TranslateStarts
  <2>4. code' = RuntimerBytecode'
    BY <2>1 DEF Translate, RuntimerBytecode
  <2> QED BY <1>1, <2>1, <2>3, <2>4 DEF PartsInv
<1>4. CASE SplitFails
  <2>1. part' = "failed" /\ UNCHANGED <<splitVars, scanVars>>
    BY <1>4 DEF SplitFails
  <2>2. ScanInv'
    BY <1>1, <2>1, ScanKept
  <2> QED BY <1>1, <2>1, <2>2 DEF PartsInv, splitVars
<1>5. CASE RuntimeInput
  <2>1. part' = "input" /\ UNCHANGED splitVars /\ Translate(whole)
    BY <1>5 DEF RuntimeInput
  <2>2. ScanInv'
    BY <1>1, <2>1, TranslateStarts
  <2> QED BY <1>1, <2>1, <2>2 DEF PartsInv, splitVars
<1>6. CASE ScanPart
  <2>1. ScanNext /\ UNCHANGED <<part, splitVars>>
    BY <1>6 DEF ScanPart
  <2>2. ScanInv' /\ code' = code
    BY <1>1, <2>1, ScanKept
  <2> QED BY <1>1, <2>1, <2>2 DEF PartsInv, splitVars, RuntimerBytecode, DeployerBytecode
<1>7. CASE TranslateDeployer
  <2>1. part' = "deploy" /\ UNCHANGED splitVars /\ Translate(DeployerBytecode)
    BY <1>7 DEF TranslateDeployer
  <2>2. DeployerBytecode \in Seq(Byte)
    BY <1>1 DEF DeployerBytecode
  <2>3. ScanInv'
    BY <2>1, <2>2, TranslateStarts
  <2>4. code' = DeployerBytecode'
    BY <2>1 DEF Translate, DeployerBytecode, splitVars
  <2> QED BY <1>1, <2>1, <2>3, <2>4 DEF PartsInv, splitVars
<1>8. CASE UNCHANGED deployVars
  <2>1. UNCHANGED <<part, splitVars, scanVars>>
    BY <1>8 DEF deployVars
  <2>2. ScanInv' /\ code' = code
    BY <1>1, <2>1, ScanKept
  <2> QED BY <1>1, <2>1, <2>2 DEF PartsInv, splitVars, RuntimerBytecode, DeployerBytecode
<1> QED BY <1>2, <1>3, <1>4, <1>5, <1>6, <1>7, <1>8 DEF SplitNextState

\* Before the split nothing is scanned.
LEMMA PartsInvInit == SplitInit => PartsInv
<1> SUFFICES ASSUME SplitInit PROVE PartsInv
  OBVIOUS
<1>1. whole \in Seq(Byte) /\ Len(whole) \in Nat
  BY ProgramsAssumption DEF SplitInit
<1>2. ScanStart
  BY DEF ScanStart, SplitInit
<1> QED BY <1>1, <1>2, InitScanInv DEF PartsInv, SplitInit

\* Both invariants hold throughout.
LEMMA SplitInvariant == SplitSpec => [](SplitInv /\ PartsInv)
<1>1. SplitInit => SplitInv /\ PartsInv
  BY SplitInvInit, PartsInvInit
<1>2. SplitInv /\ PartsInv /\ [SplitNextState]_deployVars => SplitInv' /\ PartsInv'
  BY SplitInvStep, PartsInvStep
<1> QED BY <1>1, <1>2, PTL DEF SplitSpec

\* For every creation code and every runtime input: cutting a part into blocks
\* loses no instruction and keeps every position inside the code.
THEOREM ScanCorrect == SplitSpec => []ScanSound
<1>1. ASSUME SplitInv, PartsInv PROVE ScanSound
  <2>1. offset \in 0..Len(whole)
    BY <1>1, SplitFacts
  <2>2. SplitTypeOK
    BY <1>1, <2>1 DEF SplitInv, PartsInv, ScanInv, ScanShape, SplitTypeOK
  <2> QED BY <1>1, <2>2 DEF PartsInv, ScanInv, ScanSound
<1> QED BY <1>1, SplitInvariant, PTL

\* For every creation code the jump table of each part is exact, and so is the
\* block structure that register passing rests on.
THEOREM PartTables == SplitSpec => []JumpTableExact /\ []OnePredecessor
<1>1. PartsInv => JumpTableExact /\ OnePredecessor
  BY InvJumpTable DEF PartsInv, ScanInv
<1> QED BY <1>1, SplitInvariant, PTL

\* For every creation code the parts' jump tables together have the targets the
\* whole has, each counted from its part's beginning.
THEOREM TablesOfWhole == SplitSpec => []JumpTablesOfWhole
<1>1. ASSUME SplitInv, PartsInv, Split, ~Scanning
      PROVE  IF part = "runtime"
             THEN JumpTable = {p - splitPoint : p \in {q \in ValidJumpDests(whole) : q >= splitPoint}}
             ELSE JumpTable = {p \in ValidJumpDests(whole) : p < splitPoint}
  <2>1. /\ whole \in Seq(Byte) /\ Len(whole) \in Nat /\ InstrStarts(whole) \subseteq 0..Len(whole)
        /\ splitPoint \in InstrStarts(whole) /\ LeadsTo(whole, splitPoint)
        /\ splitPoint \in 0..Len(whole)
    BY <1>1, SplitFacts DEF SplitInv
  <2>2. JumpTable = ValidJumpDests(code)
    BY <1>1, InvJumpTable DEF PartsInv, JumpTableExact
  <2> DEFINE s == splitPoint
             V == ValidJumpDests(whole)
  <2>3. CASE part = "runtime"
    <3>1. code = SubSeq(whole, s + 1, Len(whole))
      BY <1>1, <2>3 DEF PartsInv, RuntimerBytecode
    <3>2. code \in Seq(Byte) /\ Len(code) = Len(whole) - s
      BY <2>1, <3>1
    <3>3. InstrStarts(code) = {p - s : p \in {q \in InstrStarts(whole) : q >= s}}
      BY <2>1, <3>1, SuffixStarts
    <3>4. \A p \in 0..Len(whole) : p >= s /\ p < Len(whole) => OpAt(code, p - s) = OpAt(whole, p)
      <4> SUFFICES ASSUME NEW p \in 0..Len(whole), p >= s, p < Len(whole)
                   PROVE  code[(p - s) + 1] = whole[p + 1]
        BY DEF OpAt
      <4> QED BY <2>1, <3>1, <3>2
    <3>5. ASSUME NEW x \in ValidJumpDests(code)
          PROVE  \E p \in V : p >= s /\ x = p - s
      <4>1. x \in InstrStarts(code) /\ x < Len(code) /\ OpAt(code, x) = "JUMPDEST"
        BY DEF ValidJumpDests
      <4>2. PICK p \in InstrStarts(whole) : p >= s /\ x = p - s
        BY <3>3, <4>1
      <4>3. p \in 0..Len(whole) /\ p < Len(whole)
        BY <2>1, <3>2, <4>1, <4>2
      <4> QED BY <3>4, <4>1, <4>2, <4>3 DEF ValidJumpDests
    <3>6. ASSUME NEW p \in V, p >= s
          PROVE  p - s \in ValidJumpDests(code)
      <4>1. p \in InstrStarts(whole) /\ p < Len(whole) /\ OpAt(whole, p) = "JUMPDEST"
        BY DEF ValidJumpDests
      <4>2. p - s \in InstrStarts(code) /\ p \in 0..Len(whole)
        BY <2>1, <3>3, <3>6, <4>1
      <4>3. p - s < Len(code) /\ OpAt(code, p - s) = "JUMPDEST"
        BY <2>1, <3>2, <3>4, <3>6, <4>1, <4>2
      <4> QED BY <4>2, <4>3 DEF ValidJumpDests
    <3> QED BY <2>2, <2>3, <3>5, <3>6
  <2>4. CASE part = "deploy"
    <3>1. code = SubSeq(whole, 1, s)
      BY <1>1, <2>4 DEF PartsInv, DeployerBytecode
    <3>2. code \in Seq(Byte) /\ Len(code) = s
      BY <2>1, <3>1
    <3>3. InstrStarts(code) = InstrStarts(whole) \intersect 0..s
      BY <2>1, <3>1, PrefixStarts
    <3>4. \A p \in 0..Len(whole) : p < s => OpAt(code, p) = OpAt(whole, p)
      <4> SUFFICES ASSUME NEW p \in 0..Len(whole), p < s
                   PROVE  code[p + 1] = whole[p + 1]
        BY DEF OpAt
      <4> QED BY <2>1, <3>1, <3>2
    <3>5. \A p : p \in ValidJumpDests(code) <=> p \in V /\ p < s
      <4>1. \A p \in InstrStarts(whole) : p < s => p \in 0..s /\ p < Len(whole) /\ p \in 0..Len(whole)
        BY <2>1
      <4> QED BY <3>2, <3>3, <3>4, <4>1 DEF ValidJumpDests
    <3> QED BY <2>2, <2>4, <3>5
  <2> QED BY <1>1, <2>3, <2>4 DEF Split
<1>2. SplitInv /\ PartsInv => JumpTablesOfWhole
  BY <1>1 DEF JumpTablesOfWhole
<1> QED BY <1>2, SplitInvariant, PTL

\* For every creation code the runtime's wasm is handed over by one block of the
\* deploy part and at its end, or its RETURN can not be reached.
THEOREM EmbeddingCorrect == SplitSpec => []RuntimeEmbedded
<1>1. ASSUME SplitInv, PartsInv, part = "deploy", ~Scanning
      PROVE  /\ Cardinality(Embedding) <= 1
             /\ \A i \in Embedding : blocks[i].end = RETURNPC + 1
             /\ Embedding = {} =>
                  \E q \in InstrStarts(code) :
                    /\ q < RETURNPC /\ NextPc(code, q) = RETURNPC
                    /\ OpAt(code, q) \in NoFallThrough \/ ~InBlock(q)
  <2> DEFINE s == splitPoint
             r == RETURNPC
  <2>1. /\ whole \in Seq(Byte) /\ Len(whole) \in Nat /\ InstrStarts(whole) \subseteq 0..Len(whole)
        /\ s \in InstrStarts(whole) /\ LeadsTo(whole, s) /\ s \in 0..Len(whole)
    BY <1>1, SplitFacts DEF SplitInv, Split
  <2>2. /\ r \in InstrStarts(whole) /\ r < s /\ OpAt(whole, r) = "RETURN"
        /\ \E p \in InstrStarts(whole) : p < r
    BY <1>1 DEF SplitInv, Split, FlagsMean
  <2>3. r \in 0..Len(whole) /\ r # 0 /\ s \in Nat
    BY <2>1, <2>2
  <2>4. code = SubSeq(whole, 1, s)
    BY <1>1 DEF PartsInv, DeployerBytecode
  <2>5. code \in Seq(Byte) /\ Len(code) = s /\ code[r + 1] = whole[r + 1]
    BY <2>1, <2>2, <2>3, <2>4
  <2>6. r \in InstrStarts(code) /\ OpAt(code, r) = "RETURN" /\ r < Len(code)
    <3>1. InstrStarts(code) = InstrStarts(whole) \intersect 0..s
      BY <2>1, <2>4, PrefixStarts
    <3> QED BY <2>2, <2>3, <2>5, <3>1 DEF OpAt
  <2>7. NextPc(code, r) = r + 1
    <3>1. PushSize(OpAt(code, r)) = 0
      BY <2>6 DEF PushSize
    <3>2. Len(code) - r - 1 \in Nat
      BY <2>1, <2>3, <2>5, <2>6
    <3> QED BY <2>3, <3>1, <3>2 DEF NextPc
  <2>8. ScanInv /\ ScanShape /\ curr = Len(code)
    <3>1. ScanInv /\ ScanShape
      BY <1>1 DEF PartsInv, ScanInv
    <3> QED BY <1>1, <2>1, <2>5, <3>1 DEF ScanShape, Scanning
  <2>9. ASSUME NEW i \in Embedding
        PROVE  blocks[i].end = r + 1
    <3>1. i \in 1..Len(blocks) /\ blocks[i].first <= r /\ r < blocks[i].end
      BY DEF Embedding
    <3> QED BY <2>6, <2>7, <2>8, <3>1 DEF ScanInv, HaltEndsBlock, Halting, Leaving
  <2>10. ASSUME NEW i \in Embedding, NEW j \in Embedding, i # j
         PROVE  FALSE
    <3>1. /\ i \in 1..Len(blocks) /\ blocks[i].first <= r /\ r < blocks[i].end
          /\ j \in 1..Len(blocks) /\ blocks[j].first <= r /\ r < blocks[j].end
      BY DEF Embedding
    <3>2. blocks[i] \in Block /\ blocks[j] \in Block /\ Len(blocks) \in Nat
      BY <2>8, <3>1 DEF ScanShape
    <3>3. /\ blocks[i].first \in Nat /\ blocks[i].end \in Nat
          /\ blocks[j].first \in Nat /\ blocks[j].end \in Nat
      BY <3>2 DEF Block
    <3>4. CASE i < j
      <4>1. blocks[i].end <= blocks[j].first
        BY <2>8, <3>1, <3>4 DEF ScanInv, Disjoint
      <4> QED BY <2>3, <3>1, <3>3, <4>1
    <3>5. CASE j < i
      <4>1. blocks[j].end <= blocks[i].first
        BY <2>8, <3>1, <3>5 DEF ScanInv, Disjoint
      <4> QED BY <2>3, <3>1, <3>3, <4>1
    <3> QED BY <2>10, <3>1, <3>2, <3>4, <3>5
  <2>11. Cardinality(Embedding) <= 1
    <3>1. CASE Embedding = {}
      BY <3>1, FS_EmptySet
    <3>2. CASE Embedding # {}
      <4>1. PICK i : i \in Embedding
        BY <3>2
      <4>2. Embedding = {i}
        BY <2>10, <4>1
      <4>3. Cardinality({i}) = 1
        BY FS_Singleton
      <4> QED BY <4>2, <4>3
    <3> QED BY <3>1, <3>2
  <2>12. ASSUME Embedding = {}
         PROVE  \E q \in InstrStarts(code) :
                  /\ q < r /\ NextPc(code, q) = r
                  /\ OpAt(code, q) \in NoFallThrough \/ ~InBlock(q)
    <3>1. \A i \in 1..Len(blocks) : ~(blocks[i].first <= r /\ r < blocks[i].end)
      BY <2>3, <2>12 DEF Embedding
    <3>2. isDead \/ begin = curr
      BY <2>8 DEF ScanInv, Closed
    <3>3. ~(~isDead /\ begin <= r /\ r < curr)
      <4>1. ~(curr <= r /\ r < curr)
        BY <2>3, <2>5, <2>6, <2>8
      <4> QED BY <3>2, <4>1
    <3>4. ~InBlock(r)
      BY <3>1, <3>3 DEF InBlock
    <3> QED BY <2>6, <2>8, <3>4 DEF ScanInv, DroppedIsDead
  <2> QED BY <2>9, <2>11, <2>12
<1>2. SplitInv /\ PartsInv => RuntimeEmbedded
  BY <1>1 DEF RuntimeEmbedded
<1> QED BY <1>2, SplitInvariant, PTL

(***************************************************************************)
(* The translation ends: every round of a loop goes on in the code.        *)
(***************************************************************************)
\* A bound on the rounds that splitCode and the scans of the parts have left.
RoundsLeft ==
  IF part = "split" THEN (Len(whole) - offset) + Len(whole) + 2
  ELSE IF part = "runtime" THEN (Len(code) - curr) + splitPoint + 1
  ELSE IF part = "failed" THEN 0
  ELSE Len(code) - curr

\* A round leaves fewer to go, in the same code.
RoundsFall == RoundsLeft' < RoundsLeft /\ whole' = whole

\* A runtime input is scanned whole.
InputWhole == part = "input" => code = whole
LEMMA InputIsWhole == SplitSpec => []InputWhole
<1>1. SplitInit => InputWhole
  BY DEF SplitInit, InputWhole
<1>2. InputWhole /\ [SplitNextState]_deployVars => InputWhole'
  BY DEF InputWhole, SplitNextState, RuntimeInput, SplitStep, SplitFound, SplitFails, ScanPart,
    TranslateDeployer, Translate, ScanNext, SkipDead, Scan, splitVars, scanVars, deployVars
<1> QED BY <1>1, <1>2, PTL DEF SplitSpec

\* The positions of the loops, and how long the parts are.
LEMMA Positions ==
  ASSUME SplitInv, PartsInv
  PROVE  /\ Len(whole) \in Nat /\ offset \in 0..Len(whole) /\ splitPoint \in 0..Len(whole)
         /\ Len(code) \in Nat /\ curr \in 0..Len(code)
         /\ part = "runtime" => Len(code) = Len(whole) - splitPoint
         /\ part = "deploy" => Len(code) = splitPoint
<1>1. whole \in Seq(Byte) /\ Len(whole) \in Nat /\ offset \in 0..Len(whole)
  BY SplitFacts
<1>2. splitPoint \in 0..Len(whole)
  BY DEF PartsInv
<1>3. Len(code) \in Nat /\ curr \in 0..Len(code)
  BY CodeSeq DEF PartsInv, ScanInv, ScanShape
<1>4. part = "runtime" => Len(code) = Len(whole) - splitPoint
  <2>1. Len(SubSeq(whole, splitPoint + 1, Len(whole))) = Len(whole) - splitPoint
    BY <1>1, <1>2
  <2> QED BY <2>1 DEF PartsInv, RuntimerBytecode
<1>5. part = "deploy" => Len(code) = splitPoint
  <2>1. Len(SubSeq(whole, 1, splitPoint)) = splitPoint
    BY <1>1, <1>2
  <2> QED BY <2>1 DEF PartsInv, DeployerBytecode
<1> QED BY <1>1, <1>2, <1>3, <1>4, <1>5

\* A part is given to the scan from its beginning.
LEMMA PartLengths ==
  ASSUME SplitInv, PartsInv
  PROVE  /\ Len(SubSeq(whole, offset + 1, Len(whole))) = Len(whole) - offset
         /\ Len(DeployerBytecode) = splitPoint
<1>1. whole \in Seq(Byte) /\ Len(whole) \in Nat /\ offset \in 0..Len(whole)
  BY SplitFacts
<1>2. splitPoint \in 0..Len(whole)
  BY DEF PartsInv
<1>3. Len(SubSeq(whole, offset + 1, Len(whole))) = Len(whole) - offset
  BY <1>1
<1>4. Len(SubSeq(whole, 1, splitPoint)) = splitPoint
  BY <1>1, <1>2
<1> QED BY <1>3, <1>4 DEF DeployerBytecode

\* Each step of the translation is a round, or starts the next part.
LEMMA RoundStep ==
  ASSUME SplitInv, PartsInv, SplitNextState
  PROVE  RoundsFall
<1>1. /\ Len(whole) \in Nat /\ offset \in 0..Len(whole) /\ splitPoint \in 0..Len(whole)
      /\ Len(code) \in Nat /\ curr \in 0..Len(code)
  BY Positions
<1>2. CASE SplitStep
  <2>1. part = "split" /\ part' = "split" /\ offset < Len(whole) /\ whole' = whole
        /\ offset' = NextPc(whole, offset)
    BY <1>2 DEF SplitStep, SplitNext
  <2>2. whole \in Seq(Byte)
    BY SplitFacts
  <2>3. offset' \in 0..Len(whole) /\ offset' > offset
    BY <1>1, <2>1, <2>2, NextPcBound
  <2> QED BY <1>1, <2>1, <2>3 DEF RoundsFall, RoundsLeft
<1>3. CASE SplitFound
  <2>1. /\ part = "split" /\ part' = "runtime" /\ offset < Len(whole) /\ whole' = whole
        /\ splitPoint' = offset
    BY <1>3 DEF SplitFound
  <2>2. code' = SubSeq(whole, offset + 1, Len(whole)) /\ curr' = 0
    BY <1>3 DEF SplitFound, Translate
  <2>3. Len(code') = Len(whole) - offset
    BY <2>2, PartLengths
  <2> QED BY <1>1, <2>1, <2>2, <2>3 DEF RoundsFall, RoundsLeft
<1>4. CASE SplitFails
  <2>1. part = "split" /\ part' = "failed" /\ whole' = whole
    BY <1>4 DEF SplitFails, splitVars
  <2> QED BY <1>1, <2>1 DEF RoundsFall, RoundsLeft
<1>5. CASE RuntimeInput
  <2>1. /\ part = "split" /\ part' = "input" /\ offset = 0 /\ whole' = whole
        /\ code' = whole /\ curr' = 0
    BY <1>5 DEF RuntimeInput, Translate, splitVars
  <2> QED BY <1>1, <2>1 DEF RoundsFall, RoundsLeft
<1>6. CASE ScanPart
  <2>1. /\ part \in {"runtime", "deploy", "input"} /\ part' = part /\ ScanNext
        /\ whole' = whole /\ splitPoint' = splitPoint
    BY <1>6 DEF ScanPart, splitVars
  <2>2. Scanning /\ code' = code /\ curr' = NextPc(code, curr)
    BY <2>1 DEF ScanNext, SkipDead, Scan
  <2>3. code \in Seq(Byte)
    BY DEF PartsInv, ScanInv, ScanShape
  <2>4. curr' \in 0..Len(code) /\ curr' > curr
    BY <1>1, <2>2, <2>3, NextPcBound DEF Scanning
  <2> QED BY <1>1, <2>1, <2>2, <2>4 DEF RoundsFall, RoundsLeft
<1>7. CASE TranslateDeployer
  <2>1. part = "runtime" /\ part' = "deploy" /\ whole' = whole
    BY <1>7 DEF TranslateDeployer, splitVars
  <2>2. code' = DeployerBytecode /\ curr' = 0
    BY <1>7 DEF TranslateDeployer, Translate
  <2>3. Len(code') = splitPoint
    BY <2>2, PartLengths
  <2> QED BY <1>1, <2>1, <2>2, <2>3 DEF RoundsFall, RoundsLeft
<1> QED BY <1>2, <1>3, <1>4, <1>5, <1>6, <1>7 DEF SplitNextState

\* For every creation code and every runtime input, splitCode and both calls of
\* createBasicBlocks end after at most two rounds per byte of the code: each
\* round goes on in the code, whatever push data is cut off at the end.
THEOREM TranslationEnds ==
  SplitSpec => [](RoundsLeft \in 0..(2 * Len(whole) + 2)) /\ [][RoundsFall]_deployVars
<1>1. ASSUME SplitInv, PartsInv, InputWhole PROVE RoundsLeft \in 0..(2 * Len(whole) + 2)
  <2>1. /\ Len(whole) \in Nat /\ offset \in 0..Len(whole) /\ splitPoint \in 0..Len(whole)
        /\ Len(code) \in Nat /\ curr \in 0..Len(code)
        /\ part = "runtime" => Len(code) = Len(whole) - splitPoint
        /\ part = "deploy" => Len(code) = splitPoint
    BY <1>1, Positions
  <2>2. part \in {"split", "runtime", "deploy", "input", "failed"}
    BY <1>1 DEF PartsInv
  <2>3. part = "input" => Len(code) = Len(whole)
    BY <1>1 DEF InputWhole
  <2>4. CASE part = "split"
    BY <2>1, <2>4 DEF RoundsLeft
  <2>5. CASE part = "runtime"
    BY <2>1, <2>5 DEF RoundsLeft
  <2>6. CASE part = "failed"
    BY <2>1, <2>6 DEF RoundsLeft
  <2>7. CASE part = "deploy" \/ part = "input"
    BY <2>1, <2>3, <2>7 DEF RoundsLeft
  <2> QED BY <2>2, <2>4, <2>5, <2>6, <2>7
<1>2. SplitInv /\ PartsInv /\ [SplitNextState]_deployVars => RoundsFall \/ UNCHANGED deployVars
  BY RoundStep
<1> QED BY <1>1, <1>2, SplitInvariant, InputIsWhole, PTL DEF SplitSpec
=============================================================================
