---------------------------- MODULE LifterProofs ----------------------------
(***************************************************************************)
(* What is proved of compileMain and the contract it produces, whatever    *)
(* the bytecode, and whatever the environment answers.                     *)
(*                                                                         *)
(* The registers and the global stack hold as many items as compileMain    *)
(* took them to hold when it laid out the blocks (StackCorrect), and they  *)
(* hold the values of the EVM's stack: the contract implements EVM         *)
(* (Refinement), as long as it does not run off the end of its code and    *)
(* the stack stays within the EVM's limit.  The compiler ends              *)
(* (CompilerEnds), and between two instructions of the EVM the contract    *)
(* does a few steps at most (NeverIdles).                                  *)
(***************************************************************************)
EXTENDS Lifter, BlocksProofs, WellFoundedInduction

(***************************************************************************)
(* Loops over the instructions of a block.  A recursive function is what a *)
(* CHOOSE finds, so that there is one has to be shown; a loop moves on, so *)
(* it can be built from the end of the code backwards.                     *)
(***************************************************************************)
\* A set of naturals that is not empty has a least member.
LEMMA Least ==
  ASSUME NEW S \in SUBSET Nat, S # {}
  PROVE  \E m \in S : \A n \in S : m <= n
<1>1. PICK m \in S : \A n \in S : ~(<<n, m>> \in OpToRel(<, Nat))
  BY WFMin, NatLessThanWellFounded
<1>2. ASSUME NEW n \in S PROVE m <= n
  <2>1. ~(n < m)
    BY <1>1 DEF OpToRel
  <2> QED BY <2>1
<1> QED BY <1>1, <1>2

\* A set of naturals that contains zero and every successor contains all.
LEMMA Induct ==
  ASSUME NEW S \in SUBSET Nat, 0 \in S, \A n \in S : n + 1 \in S
  PROVE  S = Nat
<1> SUFFICES ASSUME S # Nat PROVE FALSE
  OBVIOUS
<1>1. PICK m \in Nat \ S : \A n \in Nat \ S : m <= n
  <2>1. Nat \ S \in SUBSET Nat /\ Nat \ S # {}
    OBVIOUS
  <2> QED BY <2>1, Least
<1>2. m - 1 \in Nat
  BY <1>1
<1>3. m - 1 \in S
  BY <1>1, <1>2
<1>4. (m - 1) + 1 \in S
  BY <1>3
<1> QED BY <1>1, <1>2, <1>4

\* A loop that stops at the positions Z, and goes from the others to N after
\* the step G.
Loops(f, lo, hi, Z, N, G, D) ==
  /\ f \in [lo..hi -> [D -> D]]
  /\ \A p \in lo..hi : \A d \in D : f[p][d] = IF p \in Z THEN d ELSE f[N[p]][G[p][d]]

Follows(f, hi, Z, N, G, D) ==
  \A p \in 0..hi : \A d \in D : f[p][d] = IF p \in Z THEN d ELSE f[N[p]][G[p][d]]
MovesOnly(hi, Z, N, G, D) ==
  \A p \in 0..hi : p \notin Z => N[p] \in (p + 1)..hi /\ G[p] \in [D -> D]

\* Every loop that moves on has a result.
LEMMA LoopExists ==
  ASSUME NEW hi \in Nat, NEW Z, NEW N, NEW G, NEW D,
         MovesOnly(hi, Z, N, G, D)
  PROVE  \E f : Loops(f, 0, hi, Z, N, G, D)
<1> USE DEF MovesOnly
<1> DEFINE S == {n \in Nat : n <= hi => \E f : Loops(f, hi - n, hi, Z, N, G, D)}
<1>1. 0 \in S
  <2> DEFINE f == [p \in (hi - 0)..hi |-> [d \in D |-> d]]
  <2>1. hi \in Z
    OBVIOUS
  <2>2. Loops(f, hi - 0, hi, Z, N, G, D)
    BY <2>1 DEF Loops
  <2> QED BY <2>2
<1>2. ASSUME NEW n \in S PROVE n + 1 \in S
  <2> SUFFICES ASSUME n + 1 <= hi PROVE \E g : Loops(g, hi - (n + 1), hi, Z, N, G, D)
    OBVIOUS
  <2>1. PICK f : Loops(f, hi - n, hi, Z, N, G, D)
    OBVIOUS
  <2>2. PICK k \in 0..hi : k = hi - (n + 1) /\ k + 1 = hi - n
    OBVIOUS
  <2> DEFINE new == [d \in D |-> IF k \in Z THEN d ELSE f[N[k]][G[k][d]]]
             g == [p \in k..hi |-> IF p = k THEN new ELSE f[p]]
  <2>3. new \in [D -> D]
    BY <2>1, <2>2 DEF Loops
  <2>4. g \in [k..hi -> [D -> D]]
    BY <2>1, <2>2, <2>3 DEF Loops
  <2>5. ASSUME NEW p \in k..hi, NEW d \in D
        PROVE  g[p][d] = IF p \in Z THEN d ELSE g[N[p]][G[p][d]]
    <3>1. p \notin Z => N[p] \in (p + 1)..hi /\ g[N[p]] = f[N[p]]
      BY <2>2
    <3>2. CASE p = k
      <4>1. g[p] = new /\ new[d] = IF k \in Z THEN d ELSE f[N[k]][G[k][d]]
        BY <3>2
      <4> QED BY <3>1, <3>2, <4>1
    <3>3. CASE p # k
      <4>1. p \in (hi - n)..hi /\ g[p] = f[p]
        BY <2>2, <3>3
      <4>2. f[p][d] = IF p \in Z THEN d ELSE f[N[p]][G[p][d]]
        BY <2>1, <4>1 DEF Loops
      <4> QED BY <3>1, <4>1, <4>2
    <3> QED BY <3>2, <3>3
  <2>6. Loops(g, k, hi, Z, N, G, D)
    BY <2>4, <2>5 DEF Loops
  <2> QED BY <2>2, <2>6
<1>3. S = Nat
  BY <1>1, <1>2, Induct
<1>4. hi - hi = 0 /\ hi \in S
  BY <1>3
<1> QED BY <1>4
\* And one only.
LEMMA LoopUnique ==
  ASSUME NEW hi \in Nat, NEW Z, NEW N, NEW G, NEW D,
         MovesOnly(hi, Z, N, G, D),
         NEW f, Loops(f, 0, hi, Z, N, G, D), NEW g, Follows(g, hi, Z, N, G, D)
  PROVE  \A p \in 0..hi : \A d \in D : g[p][d] \in D /\ g[p][d] = f[p][d]
<1> USE DEF MovesOnly, Follows
<1> DEFINE S == {n \in Nat : \A p \in 0..hi : hi - p <= n =>
                               \A d \in D : g[p][d] \in D /\ g[p][d] = f[p][d]}
<1>0. ASSUME NEW p \in 0..hi, NEW d \in D,
             p \notin Z => g[N[p]][G[p][d]] \in D /\ g[N[p]][G[p][d]] = f[N[p]][G[p][d]]
      PROVE  g[p][d] \in D /\ g[p][d] = f[p][d]
  <2>1. f[p][d] = IF p \in Z THEN d ELSE f[N[p]][G[p][d]]
    BY DEF Loops
  <2>2. g[p][d] = IF p \in Z THEN d ELSE g[N[p]][G[p][d]]
    OBVIOUS
  <2> QED BY <1>0, <2>1, <2>2
<1>1. 0 \in S
  <2> SUFFICES ASSUME NEW p \in 0..hi, hi - p <= 0, NEW d \in D
               PROVE  g[p][d] \in D /\ g[p][d] = f[p][d]
    OBVIOUS
  <2>1. p \in Z
    OBVIOUS
  <2> QED BY <1>0, <2>1
<1>2. ASSUME NEW n \in S PROVE n + 1 \in S
  <2> SUFFICES ASSUME NEW p \in 0..hi, hi - p <= n + 1, NEW d \in D
               PROVE  g[p][d] \in D /\ g[p][d] = f[p][d]
    OBVIOUS
  <2>1. ASSUME p \notin Z PROVE g[N[p]][G[p][d]] \in D /\ g[N[p]][G[p][d]] = f[N[p]][G[p][d]]
    <3>1. N[p] \in 0..hi /\ hi - N[p] <= n /\ G[p][d] \in D
      BY <2>1
    <3> QED BY <3>1
  <2> QED BY <1>0, <2>1
<1>3. S = Nat
  BY <1>1, <1>2, Induct
<1> SUFFICES ASSUME NEW p \in 0..hi PROVE \A d \in D : g[p][d] \in D /\ g[p][d] = f[p][d]
  OBVIOUS
<1>4. hi - p \in S
  <2> HIDE DEF S
  <2>1. hi - p \in Nat
    OBVIOUS
  <2> QED BY <1>3, <2>1
<1> QED BY <1>4

\* The position after an instruction is further on, in the code.
LEMMA MovesOn ==
  ASSUME code \in Seq(Byte)
  PROVE  \A p \in 0..Len(code) : p < Len(code) => NextPc(code, p) \in (p + 1)..Len(code)
<1>1. Len(code) \in Nat
  OBVIOUS
<1> QED BY <1>1, NextPcBound

\* No instruction reaches over the start of another.
LEMMA StartsLead ==
  ASSUME NEW c \in Seq(Byte)
  PROVE  \A p \in InstrStarts(c) : LeadsTo(c, p)
<1> DEFINE S == {p \in InstrStarts(c) : LeadsTo(c, p)}
<1>1. InstrStarts(c) \subseteq 0..Len(c)
  BY StartsMember
<1>2. 0 \in S
  BY <1>1, StartsClosed DEF LeadsTo
<1>3. ASSUME NEW p \in S, p < Len(c) PROVE NextPc(c, p) \in S
  BY <1>3, StartsClosed, LeadsToNext
<1>4. ClosedUnderNext(c, S) /\ S \in SUBSET (0..Len(c))
  BY <1>1, <1>2, <1>3 DEF ClosedUnderNext
<1> QED BY <1>4, StartsMember

\* The needs of a block are counted in naturals.
LEMMA CtxStepDep ==
  ASSUME NEW acc \in Dep, NEW p
  PROVE  /\ CtxStep(acc, p) \in Dep
         /\ StackOut(OpAt(code, p)) \in Nat /\ StackIn(OpAt(code, p)) \in Nat
         /\ CtxStep(acc, p).prev >= acc.prev
         /\ CtxStep(acc, p).prev - acc.prev + acc.now >= StackOut(OpAt(code, p))
         /\ CtxStep(acc, p).now - CtxStep(acc, p).prev
              = acc.now - acc.prev - StackOut(OpAt(code, p)) + StackIn(OpAt(code, p))
<1>1. StackOut(OpAt(code, p)) \in Nat /\ StackIn(OpAt(code, p)) \in Nat
  BY DEF StackOut, StackIn
<1> QED BY <1>1 DEF CtxStep, Dep

\* The loop of ctxDep, one instruction at a time.
LEMMA CtxLoopStep ==
  ASSUME code \in Seq(Byte), NEW b, blocks[b].end \in 0..Len(code)
  PROVE  /\ CtxLoop(b) \in [0..Len(code) -> [Dep -> Dep]]
         /\ \A p \in 0..Len(code) : \A acc \in Dep :
              CtxLoop(b)[p][acc] = IF p >= blocks[b].end THEN acc
                                   ELSE CtxLoop(b)[NextPc(code, p)][CtxStep(acc, p)]
<1> DEFINE hi == Len(code)
           Z == {p \in 0..hi : p >= blocks[b].end}
           N == [p \in 0..hi |-> NextPc(code, p)]
           G == [p \in 0..hi |-> [acc \in Dep |-> CtxStep(acc, p)]]
           Is(f) == f = [p \in 0..Len(code) |->
                           [acc \in Dep |-> IF p >= blocks[b].end THEN acc
                                            ELSE f[NextPc(code, p)][CtxStep(acc, p)]]]
<1>1. hi \in Nat
  OBVIOUS
<1>2. MovesOnly(hi, Z, N, G, Dep)
  BY <1>1, MovesOn, CtxStepDep DEF MovesOnly
<1>3. PICK f : Loops(f, 0, hi, Z, N, G, Dep)
  <2> HIDE DEF Z, N, G, hi
  <2> QED BY <1>1, <1>2, LoopExists
<1>4. Is(f)
  <2> DEFINE g == [p \in 0..Len(code) |->
                     [acc \in Dep |-> IF p >= blocks[b].end THEN acc
                                      ELSE f[NextPc(code, p)][CtxStep(acc, p)]]]
  <2>1. f \in [0..Len(code) -> [Dep -> Dep]]
    BY <1>3 DEF Loops
  <2>2. ASSUME NEW p \in 0..Len(code), NEW acc \in Dep
        PROVE  f[p][acc] = IF p >= blocks[b].end THEN acc ELSE f[NextPc(code, p)][CtxStep(acc, p)]
    BY <1>3 DEF Loops
  <2>3. ASSUME NEW p \in 0..Len(code)
        PROVE  f[p] = [acc \in Dep |-> IF p >= blocks[b].end THEN acc
                                       ELSE f[NextPc(code, p)][CtxStep(acc, p)]]
    <3>1. f[p] \in [Dep -> Dep]
      BY <2>1
    <3> QED BY <3>1, <2>2
  <2> QED BY <2>1, <2>3
<1>5. CtxLoop(b) = CHOOSE g : Is(g)
  BY DEF CtxLoop
<1>6. Is(CtxLoop(b))
  <2> HIDE DEF Is
  <2> QED BY <1>4, <1>5, Zenon
<1>7. /\ Follows(CtxLoop(b), hi, Z, N, G, Dep)
      /\ \A p \in 0..Len(code) : \A acc \in Dep :
           CtxLoop(b)[p][acc] = IF p >= blocks[b].end THEN acc
                                ELSE CtxLoop(b)[NextPc(code, p)][CtxStep(acc, p)]
  <2> DEFINE g == CtxLoop(b)
  <2>1. Is(g)
    BY <1>6
  <2> HIDE DEF g
  <2>2. ASSUME NEW p \in 0..hi, NEW acc \in Dep
        PROVE  /\ g[p][acc] = IF p \in Z THEN acc ELSE g[N[p]][G[p][acc]]
               /\ g[p][acc] = IF p >= blocks[b].end THEN acc ELSE g[NextPc(code, p)][CtxStep(acc, p)]
    <3>1. g[p] = [d \in Dep |-> IF p >= blocks[b].end THEN d ELSE g[NextPc(code, p)][CtxStep(d, p)]]
      <4> HIDE DEF Z, N, G
      <4> QED BY <2>1
    <3>2. g[p][acc] = IF p >= blocks[b].end THEN acc ELSE g[NextPc(code, p)][CtxStep(acc, p)]
      <4> HIDE DEF Z, N, G, Is
      <4> QED BY <3>1
    <3>3. N[p] = NextPc(code, p) /\ G[p][acc] = CtxStep(acc, p) /\ (p \in Z <=> p >= blocks[b].end)
      OBVIOUS
    <3> HIDE DEF Z, N, G, Is
    <3> QED BY <3>2, <3>3
  <2> HIDE DEF Z, N, G, Is
  <2> QED BY <2>2 DEF g, Follows
<1>8. \A p \in 0..hi : \A acc \in Dep : CtxLoop(b)[p][acc] \in Dep
  <2> HIDE DEF Z, N, G, hi
  <2> QED BY <1>1, <1>2, <1>3, <1>7, LoopUnique
<1>9. CtxLoop(b) \in [0..Len(code) -> [Dep -> Dep]]
  <2> DEFINE g == CtxLoop(b)
  <2>1. Is(g) /\ \A p \in 0..Len(code) : \A acc \in Dep : g[p][acc] \in Dep
    BY <1>6, <1>8
  <2> HIDE DEF g
  <2>2. \A p \in 0..Len(code) : g[p] \in [Dep -> Dep]
    BY <2>1
  <2>3. g \in [0..Len(code) -> [Dep -> Dep]]
    BY <2>1, <2>2
  <2> QED BY <2>3 DEF g
<1> QED BY <1>7, <1>9
(***************************************************************************)
(* What an instruction leaves in registers.                                *)
(***************************************************************************)
Reg == [v : Nat, const : BOOLEAN]

LeftSize(op, n) ==
  CASE op = "POP" -> IF n = 0 THEN 0 ELSE n - 1
    [] op = "ADD" -> IF n <= 2 THEN 1 ELSE n - 1
    [] op \in {"GAS", "PUSH1", "PUSH2", "DUP1", "DUP2"} -> n + 1
    [] op \in {"SWAP1", "SWAP2"} -> IF n <= Rank(op) THEN Rank(op) + 1 ELSE n
    [] op = "CODECOPY" -> IF n <= 3 THEN 0 ELSE n - 3
    [] OTHER -> n

\* The top register and the ones below it; there is a zero below the last one.
LEMMA PopTop ==
  ASSUME NEW l \in Seq(Reg)
  PROVE  /\ Top(l) \in Reg /\ Pop(l) \in Seq(Reg)
         /\ Len(Pop(l)) = IF Len(l) = 0 THEN 0 ELSE Len(l) - 1
<1>1. CASE l = << >>
  BY <1>1 DEF Top, Pop, Const, Reg
<1>2. CASE l # << >>
  <2>1. Len(l) \in Nat \ {0} /\ l[Len(l)] \in Reg
    BY <1>2
  <2>2. Top(l) = l[Len(l)] /\ Pop(l) = SubSeq(l, 1, Len(l) - 1)
    BY <1>2 DEF Top, Pop, Last, Front
  <2>3. SubSeq(l, 1, Len(l) - 1) \in Seq(Reg) /\ Len(SubSeq(l, 1, Len(l) - 1)) = Len(l) - 1
    <3>1. PICK n \in Int : n = Len(l) - 1 /\ \A i \in 1..n : l[i] \in Reg
      BY <2>1
    <3>2. SubSeq(l, 1, n) \in Seq(Reg) /\ Len(SubSeq(l, 1, n)) = IF 1 <= n THEN n - 1 + 1 ELSE 0
      BY <3>1, SubSeqProperties
    <3> QED BY <2>1, <3>1, <3>2
  <2> QED BY <2>1, <2>2, <2>3
<1> QED BY <1>1, <1>2

\* Push data is a number.
LEMMA PushDataNat ==
  ASSUME NEW c \in Seq(Byte), NEW p \in 0..(Len(c) - 1)
  PROVE  PushData(c, p) \in Nat
<1> DEFINE data(i) == IF p + i < Len(c) THEN c[p + i + 1] ELSE 0
<1>1. \A i \in {1, 2} : data(i) \in Nat
  <2> SUFFICES ASSUME NEW i \in {1, 2}, p + i < Len(c) PROVE c[p + i + 1] \in Nat
    OBVIOUS
  <2>1. p + i + 1 \in 1..Len(c)
    OBVIOUS
  <2> QED BY <2>1, BytecodeAssumption
<1>2. ByteBase \in Nat
  BY BytecodeAssumption
<1> HIDE DEF data
<1>3. ByteBase * data(1) + data(2) \in Nat /\ data(1) \in Nat
  BY <1>1, <1>2
<1> QED BY <1>3 DEF PushData, data

\* DUPn adds a register.
LEMMA DupSize ==
  ASSUME NEW l \in Seq(Reg), NEW k \in Nat
  PROVE  dup(l, k) \in Seq(Reg) /\ Len(dup(l, k)) = Len(l) + 1
<1>1. Const(0) \in Reg
  BY DEF Const, Reg
<1>2. k < Len(l) => l[Len(l) - k] \in Reg
  OBVIOUS
<1> QED BY <1>1, <1>2 DEF dup

\* SWAPn adds registers only if there are too few.
LEMMA SwapSize ==
  ASSUME NEW l \in Seq(Reg), NEW k \in Nat
  PROVE  /\ swap(l, k) \in Seq(Reg)
         /\ Len(swap(l, k)) = IF Len(l) <= k + 1 THEN k + 2 ELSE Len(l)
<1>1. CASE Len(l) <= k + 1
  <2> DEFINE z == [i \in 1..(k + 2 - Len(l)) |-> Const(0)]
  <2>1. Const(0) \in Reg /\ k + 2 - Len(l) \in Nat
    BY <1>1 DEF Const, Reg
  <2>2. z \in Seq(Reg) /\ Len(z) = k + 2 - Len(l)
    BY <2>1
  <2>3. swap(l, k) = l \o z
    BY <1>1 DEF swap
  <2> HIDE DEF z
  <2> QED BY <1>1, <2>2, <2>3
<1>2. CASE Len(l) > k + 1
  <2>1. Len(l) \in 1..Len(l) /\ Len(l) - k - 1 \in 1..Len(l)
    BY <1>2
  <2>2. l[Len(l)] \in Reg /\ l[Len(l) - k - 1] \in Reg
    BY <2>1
  <2>3. swap(l, k) = [l EXCEPT ![Len(l)] = l[Len(l) - k - 1], ![Len(l) - k - 1] = l[Len(l)]]
    BY <1>2 DEF swap
  <2>4. swap(l, k) \in [1..Len(l) -> Reg]
    BY <2>1, <2>2, <2>3
  <2> QED BY <1>2, <2>4
<1> QED BY <1>1, <1>2

\* Registers stay registers, and how many are left does not depend on them.
LEMMA LowerSize ==
  ASSUME code \in Seq(Byte), NEW p \in 0..(Len(code) - 1), NEW op,
         NEW l \in Seq(Reg), NEW v \in Nat
  PROVE  Lower(op, p, l, v) \in Seq(Reg) /\ Len(Lower(op, p, l, v)) = LeftSize(op, Len(l))
<1>0. Len(l) \in Nat
  OBVIOUS
<1>1. CASE op = "POP"
  BY <1>0, <1>1, PopTop DEF Lower, LeftSize
<1>2. CASE op = "ADD"
  <2>1. PICK r \in Seq(Reg) : r = Pop(l) /\ Len(r) = IF Len(l) = 0 THEN 0 ELSE Len(l) - 1
    BY PopTop
  <2>2. PICK s \in Seq(Reg) : s = Pop(r) /\ Len(s) = IF Len(r) = 0 THEN 0 ELSE Len(r) - 1
    BY PopTop
  <2>3. PICK x \in Reg : x = [v |-> (Top(l).v + Top(r).v) % WordSize, const |-> Top(l).const /\ Top(r).const]
    <3>1. Top(l) \in Reg /\ Top(r) \in Reg
      BY PopTop
    <3>2. WordSize \in Nat \ {0}
      BY MachineAssumption
    <3>3. (Top(l).v + Top(r).v) % WordSize \in Nat
      BY <3>1, <3>2 DEF Reg
    <3> QED BY <3>1, <3>3 DEF Reg
  <2>4. Lower(op, p, l, v) = Append(s, x)
    BY <1>2, <2>1, <2>2, <2>3 DEF Lower
  <2>5. LeftSize(op, Len(l)) = Len(s) + 1
    BY <1>0, <1>2, <2>1, <2>2 DEF LeftSize
  <2> QED BY <2>4, <2>5
<1>3. CASE op = "GAS"
  <2>1. [v |-> v, const |-> FALSE] \in Reg
    BY DEF Reg
  <2> QED BY <1>3, <2>1 DEF Lower, LeftSize
<1>4. CASE op \in {"PUSH1", "PUSH2"}
  <2>1. Const(PushData(code, p)) \in Reg
    BY PushDataNat DEF Const, Reg
  <2> QED BY <1>4, <2>1 DEF Lower, LeftSize
<1>5. CASE op \in {"DUP1", "DUP2"}
  <2>1. Rank(op) - 1 \in Nat
    BY DEF Rank
  <2>2. Lower(op, p, l, v) = dup(l, Rank(op) - 1)
    BY <1>5 DEF Lower
  <2> QED BY <1>5, <2>1, <2>2, DupSize DEF LeftSize
<1>6. CASE op \in {"SWAP1", "SWAP2"}
  <2>1. Rank(op) - 1 \in Nat /\ Rank(op) \in Nat
    BY DEF Rank
  <2>2. Lower(op, p, l, v) = swap(l, Rank(op) - 1)
    BY <1>6 DEF Lower
  <2>3. LeftSize(op, Len(l)) = IF Len(l) <= Rank(op) THEN Rank(op) + 1 ELSE Len(l)
    BY <1>6 DEF LeftSize
  <2> QED BY <2>1, <2>2, <2>3, SwapSize
<1>7. CASE op = "CODECOPY"
  <2>1. PICK r \in Seq(Reg) : r = Pop(l) /\ Len(r) = IF Len(l) = 0 THEN 0 ELSE Len(l) - 1
    BY PopTop
  <2>2. PICK s \in Seq(Reg) : s = Pop(r) /\ Len(s) = IF Len(r) = 0 THEN 0 ELSE Len(r) - 1
    BY PopTop
  <2>3. PICK t \in Seq(Reg) : t = Pop(s) /\ Len(t) = IF Len(s) = 0 THEN 0 ELSE Len(s) - 1
    BY PopTop
  <2>4. Lower(op, p, l, v) = t
    BY <1>7, <2>1, <2>2, <2>3 DEF Lower
  <2>5. LeftSize(op, Len(l)) = Len(t)
    <3>1. LeftSize(op, Len(l)) = IF Len(l) <= 3 THEN 0 ELSE Len(l) - 3
      BY <1>7 DEF LeftSize
    <3>2. Len(s) = IF Len(l) <= 2 THEN 0 ELSE Len(l) - 2
      BY <1>0, <2>1, <2>2
    <3>3. Len(t) = IF Len(s) = 0 THEN 0 ELSE Len(s) - 1
      BY <2>3
    <3>4. \A k, m \in Int : m = (IF k <= 2 THEN 0 ELSE k - 2) =>
                             (IF m = 0 THEN 0 ELSE m - 1) = (IF k <= 3 THEN 0 ELSE k - 3)
      OBVIOUS
    <3>5. Len(l) \in Int /\ Len(s) \in Int
      OBVIOUS
    <3> QED BY ONLY <3>1, <3>2, <3>3, <3>4, <3>5
  <2> QED BY <2>4, <2>5
<1>8. CASE op \notin {"POP", "ADD", "GAS", "PUSH1", "PUSH2", "DUP1", "DUP2", "SWAP1", "SWAP2", "CODECOPY"}
  BY <1>8 DEF Lower, LeftSize
<1> QED BY <1>1, <1>2, <1>3, <1>4, <1>5, <1>6, <1>7, <1>8
\* An instruction that finds its operands takes and gives what InstrMap says.
LEMMA LeftBalance ==
  ASSUME NEW op, NEW n \in Nat, n >= StackOut(op),
         op \notin {"JUMP", "JUMPI", "RETURN", "REVERT", "STOP", "SUICIDE", "INVALID"}
  PROVE  LeftSize(op, n) = n - StackOut(op) + StackIn(op)
<1>1. CASE op \in {"POP", "ADD", "CODECOPY"}
  BY <1>1 DEF LeftSize, StackOut, StackIn
<1>2. CASE op \in {"GAS", "PUSH1", "PUSH2", "DUP1", "DUP2"}
  BY <1>2 DEF LeftSize, StackOut, StackIn
<1>3. CASE op \in {"SWAP1", "SWAP2"}
  BY <1>3 DEF LeftSize, StackOut, StackIn, Rank
<1>4. CASE op \notin {"POP", "ADD", "CODECOPY", "GAS", "PUSH1", "PUSH2", "DUP1", "DUP2",
                      "SWAP1", "SWAP2"}
  BY <1>4 DEF LeftSize, StackOut, StackIn
<1> QED BY <1>1, <1>2, <1>3, <1>4

\* The registers left, as a number.
LEMMA LeftByIs ==
  ASSUME code \in Seq(Byte), NEW p \in 0..(Len(code) - 1), NEW n \in Nat
  PROVE  /\ LeftBy(p, n) \in Nat
         /\ Operands(OpAt(code, p)) > 0 /\ n >= Operands(OpAt(code, p)) =>
              LeftBy(p, n) = n - Operands(OpAt(code, p))
         /\ Operands(OpAt(code, p)) = 0 => LeftBy(p, n) = LeftSize(OpAt(code, p), n)
<1> PICK op : op = OpAt(code, p)
  OBVIOUS
<1>1. Operands(op) \in {0, 1, 2}
  BY DEF Operands
<1>2. CASE Operands(op) > 0
  BY <1>1, <1>2 DEF LeftBy
<1>3. CASE Operands(op) = 0
  <2> DEFINE z == [i \in 1..n |-> Const(0)]
  <2>1. Const(0) \in Reg
    BY DEF Const, Reg
  <2>2. z \in Seq(Reg) /\ Len(z) = n
    BY <2>1
  <2>3. LeftBy(p, n) = Len(Lower(op, p, z, 0))
    BY <1>3 DEF LeftBy
  <2> HIDE DEF z
  <2>4. LeftBy(p, n) = LeftSize(op, n) /\ LeftBy(p, n) \in Nat
    BY <2>2, <2>3, LowerSize
  <2> QED BY <1>3, <2>4
<1> QED BY <1>1, <1>2, <1>3

\* Where the compilation of a block ends.
Stops(b, p) == p >= blocks[b].end \/ OpAt(code, p) = "INVALID"

\* The compilation of a block, one instruction at a time.
LEMMA SizeLoopStep ==
  ASSUME code \in Seq(Byte), NEW b, blocks[b].end \in 0..Len(code)
  PROVE  /\ SizeLoop(b) \in [0..Len(code) -> [Nat -> Nat]]
         /\ \A p \in 0..Len(code) : \A n \in Nat :
              SizeLoop(b)[p][n] = IF Stops(b, p) THEN n
                                   ELSE SizeLoop(b)[NextPc(code, p)][LeftBy(p, n)]
<1> DEFINE hi == Len(code)
           Z == {p \in 0..hi : Stops(b, p)}
           N == [p \in 0..hi |-> NextPc(code, p)]
           G == [p \in 0..hi |-> [n \in Nat |-> LeftBy(p, n)]]
           Is(f) == f = [p \in 0..Len(code) |->
                           [n \in Nat |-> IF Stops(b, p) THEN n
                                            ELSE f[NextPc(code, p)][LeftBy(p, n)]]]
<1>1. hi \in Nat
  OBVIOUS
<1>2. MovesOnly(hi, Z, N, G, Nat)
  <2>1. ASSUME NEW p \in 0..hi, p \notin Z PROVE N[p] \in (p + 1)..hi /\ G[p] \in [Nat -> Nat]
    <3>1. p < Len(code) /\ p \in 0..(Len(code) - 1)
      BY <1>1, <2>1 DEF Stops
    <3>2. N[p] \in (p + 1)..hi
      BY <3>1, MovesOn
    <3>3. \A n \in Nat : LeftBy(p, n) \in Nat
      BY <3>1, LeftByIs
    <3> QED BY <3>2, <3>3
  <2> QED BY <2>1 DEF MovesOnly
<1>3. PICK f : Loops(f, 0, hi, Z, N, G, Nat)
  <2> HIDE DEF Z, N, G, hi
  <2> QED BY <1>1, <1>2, LoopExists
<1>4. Is(f)
  <2> DEFINE g == [p \in 0..Len(code) |->
                     [n \in Nat |-> IF Stops(b, p) THEN n
                                      ELSE f[NextPc(code, p)][LeftBy(p, n)]]]
  <2>1. f \in [0..Len(code) -> [Nat -> Nat]]
    BY <1>3 DEF Loops
  <2>2. ASSUME NEW p \in 0..Len(code), NEW n \in Nat
        PROVE  f[p][n] = IF Stops(b, p) THEN n ELSE f[NextPc(code, p)][LeftBy(p, n)]
    BY <1>3 DEF Loops
  <2>3. ASSUME NEW p \in 0..Len(code)
        PROVE  f[p] = [n \in Nat |-> IF Stops(b, p) THEN n
                                       ELSE f[NextPc(code, p)][LeftBy(p, n)]]
    <3>1. f[p] \in [Nat -> Nat]
      BY <2>1
    <3> QED BY <3>1, <2>2
  <2> QED BY <2>1, <2>3
<1>5. SizeLoop(b) = CHOOSE g : Is(g)
  BY DEF SizeLoop, Stops
<1>6. Is(SizeLoop(b))
  <2> HIDE DEF Is
  <2> QED BY <1>4, <1>5, Zenon
<1>7. /\ Follows(SizeLoop(b), hi, Z, N, G, Nat)
      /\ \A p \in 0..Len(code) : \A n \in Nat :
           SizeLoop(b)[p][n] = IF Stops(b, p) THEN n
                                ELSE SizeLoop(b)[NextPc(code, p)][LeftBy(p, n)]
  <2> DEFINE g == SizeLoop(b)
  <2>1. Is(g)
    BY <1>6
  <2> HIDE DEF g
  <2>2. ASSUME NEW p \in 0..hi, NEW n \in Nat
        PROVE  /\ g[p][n] = IF p \in Z THEN n ELSE g[N[p]][G[p][n]]
               /\ g[p][n] = IF Stops(b, p) THEN n ELSE g[NextPc(code, p)][LeftBy(p, n)]
    <3>1. g[p] = [d \in Nat |-> IF Stops(b, p) THEN d ELSE g[NextPc(code, p)][LeftBy(p, d)]]
      <4> HIDE DEF Z, N, G
      <4> QED BY <2>1
    <3>2. g[p][n] = IF Stops(b, p) THEN n ELSE g[NextPc(code, p)][LeftBy(p, n)]
      <4> HIDE DEF Z, N, G, Is
      <4> QED BY <3>1
    <3>3. N[p] = NextPc(code, p) /\ G[p][n] = LeftBy(p, n) /\ (p \in Z <=> Stops(b, p))
      OBVIOUS
    <3> HIDE DEF Z, N, G, Is
    <3> QED BY <3>2, <3>3
  <2> HIDE DEF Z, N, G, Is
  <2> QED BY <2>2 DEF g, Follows
<1>8. \A p \in 0..hi : \A n \in Nat : SizeLoop(b)[p][n] \in Nat
  <2> HIDE DEF Z, N, G, hi
  <2> QED BY <1>1, <1>2, <1>3, <1>7, LoopUnique
<1>9. SizeLoop(b) \in [0..Len(code) -> [Nat -> Nat]]
  <2> DEFINE g == SizeLoop(b)
  <2>1. Is(g) /\ \A p \in 0..Len(code) : \A n \in Nat : g[p][n] \in Nat
    BY <1>6, <1>8
  <2> HIDE DEF g
  <2>2. \A p \in 0..Len(code) : g[p] \in [Nat -> Nat]
    BY <2>1
  <2>3. g \in [0..Len(code) -> [Nat -> Nat]]
    BY <2>1, <2>2
  <2> QED BY <2>3 DEF g
<1> QED BY <1>7, <1>9
(***************************************************************************)
(* What ctxDep and the compiler know about a block.                        *)
(***************************************************************************)
\* The needs found so far never shrink.
LEMMA CtxLoopGrows ==
  ASSUME code \in Seq(Byte), NEW b, blocks[b].end \in 0..Len(code)
  PROVE  \A p \in 0..Len(code) : \A acc \in Dep :
           CtxLoop(b)[p][acc] \in Dep /\ CtxLoop(b)[p][acc].prev >= acc.prev
<1> PICK f : f = CtxLoop(b)
  OBVIOUS
<1> PICK hi \in Nat : hi = Len(code)
  OBVIOUS
<1>1. /\ f \in [0..hi -> [Dep -> Dep]]
      /\ \A p \in 0..hi : \A acc \in Dep :
           f[p][acc] = IF p >= blocks[b].end THEN acc ELSE f[NextPc(code, p)][CtxStep(acc, p)]
  BY CtxLoopStep
<1> DEFINE S == {n \in Nat : \A p \in 0..hi : hi - p <= n =>
                               \A acc \in Dep : f[p][acc].prev >= acc.prev}
<1>2. ASSUME NEW p \in 0..hi, NEW acc \in Dep, p >= blocks[b].end
      PROVE  f[p][acc].prev >= acc.prev
  BY <1>1, <1>2 DEF Dep
<1>3. 0 \in S
  <2> SUFFICES ASSUME NEW p \in 0..hi, hi - p <= 0, NEW acc \in Dep
               PROVE  f[p][acc].prev >= acc.prev
    OBVIOUS
  <2>1. p >= blocks[b].end
    OBVIOUS
  <2> QED BY <1>2, <2>1
<1>4. ASSUME NEW n \in S PROVE n + 1 \in S
  <2> SUFFICES ASSUME NEW p \in 0..hi, hi - p <= n + 1, NEW acc \in Dep
               PROVE  f[p][acc].prev >= acc.prev
    OBVIOUS
  <2>1. CASE p >= blocks[b].end
    BY <1>2, <2>1
  <2>2. CASE p < blocks[b].end
    <3>1. PICK q \in 0..hi : q = NextPc(code, p) /\ hi - q <= n
      <4>1. p < Len(code)
        BY <2>2
      <4>2. NextPc(code, p) \in (p + 1)..Len(code)
        BY <4>1, MovesOn
      <4> QED BY <4>2
    <3>2. PICK nxt \in Dep : nxt = CtxStep(acc, p) /\ nxt.prev >= acc.prev
      BY CtxStepDep
    <3>3. f[p][acc] = f[q][nxt]
      BY <1>1, <2>2, <3>1, <3>2
    <3>4. f[q][nxt].prev >= nxt.prev
      BY <3>1, <3>2
    <3>5. f[q][nxt].prev \in Nat /\ nxt.prev \in Nat /\ acc.prev \in Nat
      <4>1. f[q][nxt] \in Dep
        BY <1>1, <3>1, <3>2
      <4> QED BY <3>2, <4>1 DEF Dep
    <3> QED BY <3>2, <3>3, <3>4, <3>5
  <2> QED BY <2>1, <2>2
<1>5. S = Nat
  BY <1>3, <1>4, Induct
<1> SUFFICES ASSUME NEW p \in 0..hi, NEW acc \in Dep
             PROVE  f[p][acc] \in Dep /\ f[p][acc].prev >= acc.prev
  OBVIOUS
<1>6. hi - p \in S
  <2> HIDE DEF S
  <2> QED BY <1>5
<1>7. f[p][acc].prev >= acc.prev
  BY <1>6
<1> QED BY <1>1, <1>7

\* The facts about the blocks that the scan leaves behind.
BlockFacts ==
  /\ code \in Seq(Byte) /\ Len(code) \in Nat
  /\ InstrStarts(code) \subseteq 0..Len(code)
  /\ Len(blocks) \in Nat
  /\ \A b \in 1..Len(blocks) :
       /\ blocks[b].first \in InstrStarts(code) /\ blocks[b].end \in InstrStarts(code)
       /\ blocks[b].first < blocks[b].end
       /\ blocks[b].first \in Nat /\ blocks[b].end \in 0..Len(code)
  /\ Disjoint
  /\ \A b \in 1..Len(blocks) : \A q \in InstrStarts(code) :
       blocks[b].first <= q /\ q < blocks[b].end =>
         /\ NextPc(code, q) \in InstrStarts(code)
         /\ NextPc(code, q) <= blocks[b].end
         /\ OpAt(code, q) \in Leaving => NextPc(code, q) = blocks[b].end

\* One block.
LEMMA BlockFact ==
  ASSUME BlockFacts, NEW b \in 1..Len(blocks)
  PROVE  /\ blocks[b].first \in InstrStarts(code) /\ blocks[b].first < blocks[b].end
         /\ blocks[b].first \in Nat /\ blocks[b].end \in Nat
  BY DEF BlockFacts

\* The invariant of the scan gives them.
LEMMA ScanFacts ==
  ASSUME ScanInv
  PROVE  BlockFacts
<1>1. code \in Seq(Byte) /\ Len(code) \in Nat /\ blocks \in Seq(Block)
  BY DEF ScanInv, ScanShape
<1>2. InstrStarts(code) \subseteq 0..Len(code)
  BY <1>1, StartsMember
<1>3. ASSUME NEW b \in 1..Len(blocks)
      PROVE  /\ blocks[b].first \in InstrStarts(code) /\ blocks[b].end \in InstrStarts(code)
             /\ blocks[b].first < blocks[b].end
  BY DEF ScanInv, OnBoundary, Ordered
<1>4. ASSUME NEW b \in 1..Len(blocks)
      PROVE  blocks[b].first \in Nat /\ blocks[b].end \in 0..Len(code)
  BY <1>2, <1>3
<1>5. ASSUME NEW b \in 1..Len(blocks), NEW q \in InstrStarts(code),
             blocks[b].first <= q, q < blocks[b].end
      PROVE  /\ NextPc(code, q) \in InstrStarts(code)
             /\ NextPc(code, q) <= blocks[b].end
             /\ OpAt(code, q) \in Leaving => NextPc(code, q) = blocks[b].end
  <2>1. q < Len(code)
    BY <1>1, <1>2, <1>4, <1>5
  <2>2. NextPc(code, q) \in InstrStarts(code)
    BY <1>1, <2>1, StartsClosed
  <2>3. NextPc(code, q) <= blocks[b].end
    <3>1. LeadsTo(code, blocks[b].end)
      BY <1>1, <1>3, StartsLead
    <3> QED BY <1>5, <3>1 DEF LeadsTo
  <2>4. OpAt(code, q) \in Leaving => NextPc(code, q) = blocks[b].end
    BY <1>5 DEF ScanInv, HaltEndsBlock
  <2> QED BY <2>2, <2>3, <2>4
<1> QED BY <1>1, <1>2, <1>3, <1>4, <1>5 DEF BlockFacts, ScanInv
\* How many items a block needs and how many registers it leaves are numbers;
\* a lone JUMPI leaves none.
LEMMA BlockNeeds ==
  ASSUME BlockFacts, NEW b \in 1..Len(blocks)
  PROVE  /\ ctxDep(b) \in Dep /\ StkIn(b) \in Nat /\ LocalsOut(b) \in Nat
         /\ FirstOp(b) = "JUMPI" => LocalsOut(b) = 0
<1> PICK p \in Nat : p = blocks[b].first
  BY DEF BlockFacts
<1> PICK e \in 0..Len(code) : e = blocks[b].end
  BY DEF BlockFacts
<1> DEFINE acc == [prev |-> 0, now |-> 0]
<1>1. code \in Seq(Byte) /\ Len(code) \in Nat /\ p < e /\ p \in InstrStarts(code)
  BY DEF BlockFacts
<1>2. p \in 0..Len(code) /\ p \in 0..(Len(code) - 1)
  BY <1>1
<1>3. acc \in Dep
  BY DEF Dep
<1>4. ctxDep(b) \in Dep /\ StkIn(b) \in Nat
  <2>1. ctxDep(b) = CtxLoop(b)[p][acc]
    BY DEF ctxDep
  <2> HIDE DEF acc
  <2>2. ctxDep(b) \in Dep
    BY <1>1, <1>2, <1>3, <2>1, CtxLoopGrows
  <2> QED BY <2>2 DEF StkIn, Dep
<1>5. LocalsOut(b) = SizeLoop(b)[p][StkIn(b)] /\ LocalsOut(b) \in Nat
  <2>1. LocalsOut(b) = SizeLoop(b)[p][StkIn(b)]
    BY DEF LocalsOut
  <2>2. SizeLoop(b) \in [0..Len(code) -> [Nat -> Nat]]
    BY <1>1, SizeLoopStep
  <2> QED BY <1>2, <1>4, <2>1, <2>2
<1>6. ASSUME FirstOp(b) = "JUMPI" PROVE LocalsOut(b) = 0
  <2>1. OpAt(code, p) = "JUMPI"
    BY <1>6 DEF FirstOp
  <2>2. NextPc(code, p) = e
    <3>1. OpAt(code, p) \in Leaving
      BY <2>1 DEF Leaving
    <3> QED BY <1>1, <3>1 DEF BlockFacts
  <2>3. StkIn(b) = 2
    <3>1. CtxStep(acc, p) = [prev |-> 2, now |-> 0]
      BY <2>1 DEF CtxStep, StackOut, StackIn
    <3> PICK nxt \in Dep : nxt = CtxStep(acc, p) /\ nxt.prev = 2
      BY <3>1 DEF Dep
    <3>2. ctxDep(b) = CtxLoop(b)[p][acc]
      BY DEF ctxDep
    <3> HIDE DEF acc
    <3>3. CtxLoop(b)[p][acc] = CtxLoop(b)[e][nxt]
      BY <1>1, <1>2, <1>3, <2>2, CtxLoopStep
    <3>4. CtxLoop(b)[e][nxt] = nxt
      BY <1>1, CtxLoopStep
    <3> QED BY <3>2, <3>3, <3>4 DEF StkIn
  <2>4. LeftBy(p, 2) = 0
    <3>1. Operands(OpAt(code, p)) = 2
      BY <2>1 DEF Operands
    <3> QED BY <3>1 DEF LeftBy
  <2>5. ~Stops(b, p) /\ Stops(b, e)
    BY <1>1, <2>1 DEF Stops
  <2>6. SizeLoop(b)[p][2] = SizeLoop(b)[e][0]
    <3>1. \A n \in Nat : SizeLoop(b)[p][n] =
            IF Stops(b, p) THEN n ELSE SizeLoop(b)[NextPc(code, p)][LeftBy(p, n)]
      BY <1>1, <1>2, SizeLoopStep
    <3> QED BY <2>2, <2>4, <2>5, <3>1
  <2>7. SizeLoop(b)[e][0] = 0
    BY <1>1, <2>5, SizeLoopStep
  <2> QED BY <1>5, <2>3, <2>6, <2>7
<1> QED BY <1>4, <1>5, <1>6

\* Nothing here depends on more than the code and its blocks.
LEMMA SameBlocks ==
  ASSUME code' = code, blocks' = blocks
  PROVE  /\ \A b : CtxLoop(b)' = CtxLoop(b)
         /\ \A b : SizeLoop(b)' = SizeLoop(b)
         /\ \A b : ctxDep(b)' = ctxDep(b)
         /\ \A b : StkIn(b)' = StkIn(b)
         /\ \A b : LocalsOut(b)' = LocalsOut(b)
<1>1. \A b : CtxLoop(b)' = CtxLoop(b)
  BY SMT DEF CtxLoop, CtxStep
<1>2. \A b : SizeLoop(b)' = SizeLoop(b)
  BY SMT DEF SizeLoop, LeftBy, Lower, dup, swap, Operands
<1>3. \A b : ctxDep(b)' = ctxDep(b)
  BY <1>1 DEF ctxDep
<1> QED BY <1>1, <1>2, <1>3 DEF StkIn, LocalsOut
(***************************************************************************)
(* The inductive invariant.                                                *)
(***************************************************************************)
\* What dry_run records: an edge leads nowhere, to a jump destination, or to
\* the block that follows.
Edge ==
  {e \in (1..Len(blocks)) \X (0..Len(blocks)) :
     e[2] = 0 \/ FirstOp(e[2]) = "JUMPDEST" \/ e[2] = e[1] + 1}

\* A work list of dry_run.
WorkList(s) == \E D : s \in Seq(D) /\ \A d \in D : d.bb \in 1..Len(blocks)

\* What may wait to be lowered.
Pending ==
  {w \in [bb : 0..Len(blocks), from : 0..Len(blocks)] :
     w.from = 0 \/ \E i \in DOMAIN edges : edges[i] = <<w.from, w.bb>>}

\* A block that takes registers over is entered by falling through from the
\* block before it, which leaves as many.
Handed(b, k) ==
  /\ k \in Nat /\ k <= StkIn(b)
  /\ k = 0 \/ (b > 1 /\ FirstOp(b) # "JUMPDEST" /\ k <= LocalsOut(b - 1))

\* Edge discovery and lowering, once there are blocks.
CompileInv ==
  /\ WorkList(dfs) /\ seen \subseteq 1..Len(blocks) /\ edges \in Seq(Edge)
  /\ queue \in Seq(Pending)
  /\ DOMAIN taken \subseteq 1..Len(blocks)
  /\ \A b \in DOMAIN taken : Handed(b, taken[b])

\* Nothing has happened while the blocks are being found.
Fresh ==
  /\ DryInit
  /\ queue = << [bb |-> 1, from |-> 0] >> /\ taken = << >>
  /\ at = 1 /\ inside = FALSE /\ pc = 0 /\ locals = << >>

RunShape ==
  /\ inside \in BOOLEAN /\ pc \in 0..Len(code)
  /\ locals \in Seq(Reg)
  /\ mstk \in [1..MstkWords -> Nat] /\ sp \in 0..MstkWords /\ target \in Nat
  /\ status \in {"running", "finished", "reverted", "trapped", "undefined"}

\* Between blocks: the registers the block before left are the ones the
\* compiler counted.
AtBoundary ==
  /\ pc = blocks[at].first
  /\ at > 1 /\ FirstOp(at) # "JUMPDEST" => Len(locals) = LocalsOut(at - 1)

\* Inside a block: the registers are what the block started with, what it
\* needed so far and what it has now; what remains of both loops ends as foreseen.
InBlockAt(acc) ==
  /\ acc \in Dep
  /\ CtxLoop(at)[pc][acc] = ctxDep(at)
  /\ Len(locals) = StkIn(at) - acc.prev + acc.now
  /\ SizeLoop(at)[pc][Len(locals)] = LocalsOut(at)

Within ==
  /\ pc \in InstrStarts(code) /\ blocks[at].first <= pc /\ pc <= blocks[at].end
  /\ \E acc \in Dep : InBlockAt(acc)

RunInv ==
  /\ at \in 1..Len(blocks)
  /\ status = "running" => IF inside THEN Within ELSE AtBoundary

LifterInv ==
  /\ ScanInv /\ code \in Programs
  /\ Scanning => Fresh
  /\ RunShape
  /\ ~Scanning => CompileInv /\ RunInv
\* The blocks do not change any more once they are found.
LEMMA SameFacts ==
  ASSUME UNCHANGED scanVars
  PROVE  /\ code' = code /\ blocks' = blocks /\ (Scanning' <=> Scanning)
         /\ \A b : FirstOp(b)' = FirstOp(b)
         /\ Edge' = Edge
         /\ edges' = edges => Pending' = Pending
         /\ \A b, k : Handed(b, k)' <=> Handed(b, k)
<1>1. code' = code /\ blocks' = blocks /\ curr' = curr
  BY DEF scanVars
<1>2. \A b : FirstOp(b)' = FirstOp(b)
  BY <1>1 DEF FirstOp
<1>3. Edge' = Edge
  BY <1>1, <1>2 DEF Edge
<1>4. edges' = edges => Pending' = Pending
  BY <1>1 DEF Pending
<1>5. \A b, k : Handed(b, k)' <=> Handed(b, k)
  <2>1. (\A b : StkIn(b)' = StkIn(b)) /\ (\A b : LocalsOut(b)' = LocalsOut(b))
    BY <1>1, SameBlocks
  <2> QED BY <1>2, <2>1 DEF Handed
<1> QED BY <1>1, <1>2, <1>3, <1>4, <1>5 DEF Scanning

\* The scan leaves at least one block, and the first one begins the code.
LEMMA SomeBlock == ScanInv /\ code \in Programs /\ ~Scanning =>
                     1 \in 1..Len(blocks) /\ blocks[1].first = 0
<1> SUFFICES ASSUME ScanInv, code \in Programs, ~Scanning
             PROVE  1 \in 1..Len(blocks) /\ blocks[1].first = 0
  OBVIOUS
<1>1. code \in Seq(Byte) /\ code # << >> /\ blocks \in Seq(Block)
  BY ProgramsAssumption DEF ScanInv, ScanShape
<1>2. Len(code) \in Nat \ {0} /\ curr = Len(code)
  BY <1>1, EmptySeq DEF ScanInv, ScanShape, Scanning
<1>3. blocks # << >>
  BY <1>2 DEF ScanInv, FirstBlock, Closed
<1>4. Len(blocks) \in Nat \ {0}
  BY <1>1, <1>3, EmptySeq
<1> QED BY <1>3, <1>4 DEF ScanInv, FirstBlock

\* So edge discovery, lowering and the contract start as the invariant says.
LEMMA Ready == ScanInv /\ code \in Programs /\ ~Scanning /\ Fresh => CompileInv /\ RunInv
<1> SUFFICES ASSUME ScanInv, code \in Programs, ~Scanning, Fresh PROVE CompileInv /\ RunInv
  OBVIOUS
<1>1. 1 \in 1..Len(blocks) /\ blocks[1].first = 0
  BY SomeBlock
<1>2. WorkList(dfs)
  <2> DEFINE w == [bb |-> 1, stk |-> << >>]
  <2>1. dfs = << w >> /\ w.bb = 1
    BY DEF Fresh, DryInit
  <2> HIDE DEF w
  <2>2. dfs \in Seq({w}) /\ \A d \in {w} : d.bb \in 1..Len(blocks)
    BY <1>1, <2>1
  <2> QED BY <2>2 DEF WorkList
<1>3. seen \subseteq 1..Len(blocks) /\ edges \in Seq(Edge)
  BY DEF Fresh, DryInit
<1>4. queue \in Seq(Pending)
  <2> DEFINE w == [bb |-> 1, from |-> 0]
  <2>1. w \in Pending
    BY <1>1 DEF Pending
  <2>2. queue = << w >>
    BY DEF Fresh
  <2> HIDE DEF w
  <2> QED BY <2>1, <2>2
<1>5. DOMAIN taken = {}
  BY DEF Fresh
<1>6. RunInv
  BY <1>1 DEF Fresh, RunInv, AtBoundary
<1> QED BY <1>2, <1>3, <1>4, <1>5, <1>6 DEF CompileInv

\* The invariant holds before the scan.
LEMMA InitLifterInv == Init => LifterInv
<1> SUFFICES ASSUME Init PROVE LifterInv
  OBVIOUS
<1>1. code \in Programs /\ code \in Seq(Byte) /\ Len(code) \in Nat
  BY ProgramsAssumption DEF Init, ScanInit
<1>2. ScanInv
  <2>1. ScanStart
    BY <1>1 DEF Init, ScanInit, ScanStart
  <2> QED BY <2>1, InitScanInv
<1>3. Fresh
  BY DEF Init, Fresh
<1>4. RunShape
  <2>1. [i \in 1..MstkWords |-> 0] \in [1..MstkWords -> Nat] /\ 0 \in 0..MstkWords
    BY MachineAssumption
  <2>2. << >> \in Seq(Reg) /\ 0 \in 0..Len(code)
    BY <1>1
  <2> QED BY <2>1, <2>2 DEF Init, RunShape
<1>5. ~Scanning => CompileInv /\ RunInv
  BY <1>1, <1>2, <1>3, Ready
<1> QED BY <1>1, <1>2, <1>3, <1>4, <1>5 DEF LifterInv

\* An iteration of the scan keeps it.
LEMMA ScanningStep ==
  ASSUME LifterInv, ScanNext, UNCHANGED <<dryVars, lowerVars, runVars>>
  PROVE  LifterInv'
<1>1. ScanInv'
  BY StepScanInv DEF LifterInv
<1>2. code' = code /\ Scanning
  BY DEF ScanNext, Scan, SkipDead
<1>3. Fresh'
  BY <1>2 DEF LifterInv, Fresh, DryInit, dryVars, lowerVars, runVars
<1>4. RunShape'
  BY <1>2 DEF LifterInv, RunShape, runVars
<1>5. (code \in Programs)'
  BY <1>2 DEF LifterInv
<1>6. ~Scanning' => CompileInv' /\ RunInv'
  BY <1>1, <1>3, <1>5, Ready, PTL
<1> QED BY <1>1, <1>3, <1>4, <1>5, <1>6 DEF LifterInv

\* A later step of the compiler keeps it if it keeps its own part.
LEMMA CompileKeeps ==
  ASSUME LifterInv, ~Scanning, UNCHANGED <<scanVars, runVars>>, CompileInv'
  PROVE  LifterInv'
<1>1. /\ code' = code /\ blocks' = blocks /\ (Scanning' <=> Scanning)
      /\ \A b : FirstOp(b)' = FirstOp(b)
  BY SameFacts
<1>2. ScanInv' /\ (code \in Programs)'
  BY <1>1, StepScanInv DEF LifterInv
<1>3. RunShape'
  BY <1>1 DEF LifterInv, RunShape, runVars
<1>4. RunInv'
  <2>1. at' = at /\ inside' = inside /\ pc' = pc /\ locals' = locals /\ status' = status
    BY DEF runVars
  <2>2. AtBoundary => AtBoundary'
    BY <1>1, <2>1, SameBlocks DEF AtBoundary
  <2>3. Within => Within'
    BY <1>1, <2>1, SameBlocks DEF Within, InBlockAt
  <2> QED BY <1>1, <2>1, <2>2, <2>3 DEF LifterInv, RunInv
<1> QED BY <1>1, <1>2, <1>3, <1>4 DEF LifterInv

\* A step of the contract keeps it if it keeps its own part.
LEMMA RunKeeps ==
  ASSUME LifterInv, ~Scanning, UNCHANGED <<scanVars, dryVars, lowerVars>>, RunShape', RunInv'
  PROVE  LifterInv'
<1>1. /\ code' = code /\ blocks' = blocks /\ (Scanning' <=> Scanning)
      /\ Edge' = Edge /\ (edges' = edges => Pending' = Pending)
      /\ \A b, k : Handed(b, k)' <=> Handed(b, k)
  BY SameFacts
<1>2. ScanInv' /\ (code \in Programs)'
  BY <1>1, StepScanInv DEF LifterInv
<1>3. CompileInv'
  <2>1. dfs' = dfs /\ seen' = seen /\ edges' = edges /\ queue' = queue /\ taken' = taken
    BY DEF dryVars, lowerVars
  <2>2. WorkList(dfs)'
    BY <1>1, <2>1 DEF LifterInv, CompileInv, WorkList
  <2> QED BY <1>1, <2>1, <2>2 DEF LifterInv, CompileInv
<1> QED BY <1>1, <1>2, <1>3 DEF LifterInv
(***************************************************************************)
(* Edge discovery.                                                         *)
(***************************************************************************)
\* The work list without its top.
LEMMA WorkTop ==
  ASSUME NEW s, WorkList(s), s # << >>
  PROVE  Last(s).bb \in 1..Len(blocks) /\ WorkList(Front(s))
<1>1. PICK D : s \in Seq(D) /\ \A d \in D : d.bb \in 1..Len(blocks)
  BY DEF WorkList
<1>2. Len(s) \in Nat \ {0} /\ s[Len(s)] \in D
  BY <1>1, EmptySeq
<1>3. Front(s) \in Seq(D)
  <2>1. PICK n \in Int : n = Len(s) - 1 /\ \A i \in 1..n : s[i] \in D
    BY <1>1, <1>2
  <2>2. SubSeq(s, 1, n) \in Seq(D)
    BY <1>1, <2>1, SubSeqProperties
  <2> QED BY <2>1, <2>2 DEF Front
<1> QED BY <1>1, <1>2, <1>3 DEF Last, WorkList

\* The work list with one more block, or none.
LEMMA WorkVisit ==
  ASSUME NEW s, WorkList(s), NEW b \in 0..Len(blocks), NEW x
  PROVE  WorkList(s \o Visit(b, x))
<1>1. PICK D : s \in Seq(D) /\ \A d \in D : d.bb \in 1..Len(blocks)
  BY DEF WorkList
<1>2. CASE b = 0
  <2>1. s \o Visit(b, x) = s
    BY <1>1, <1>2 DEF Visit
  <2> QED BY <2>1
<1>3. CASE b # 0
  <2> DEFINE w == [bb |-> b, stk |-> x]
  <2>1. Visit(b, x) = << w >> /\ w.bb = b
    BY <1>3 DEF Visit
  <2> HIDE DEF w
  <2> PICK E : E = D \union {w}
    OBVIOUS
  <2>2. s \in Seq(E) /\ << w >> \in Seq(E)
    BY <1>1
  <2>3. \A d \in E : d.bb \in 1..Len(blocks)
    BY <1>1, <1>3, <2>1
  <2>4. s \o << w >> \in Seq(E)
    BY <2>2
  <2> QED BY <2>1, <2>3, <2>4 DEF WorkList
<1> QED BY <1>2, <1>3

\* idxMap finds a block that begins where it is asked for.
LEMMA BlockAtFinds ==
  ASSUME NEW p
  PROVE  /\ BlockAt(p) = 0 \/ (BlockAt(p) \in 1..Len(blocks) /\ blocks[BlockAt(p)].first = p)
         /\ (\E b \in 1..Len(blocks) : blocks[b].first = p) =>
              BlockAt(p) \in 1..Len(blocks) /\ blocks[BlockAt(p)].first = p
  BY DEF BlockAt

\* Both kinds of edges.
LEMMA EdgesFound ==
  ASSUME BlockFacts, NEW b \in 1..Len(blocks), NEW stk
  PROVE  /\ <<b, JumpTarget(stk)>> \in Edge /\ JumpTarget(stk) \in 0..Len(blocks)
         /\ <<b, Fallout(b)>> \in Edge /\ Fallout(b) \in 0..Len(blocks)
<1>1. Len(blocks) \in Nat
  BY DEF BlockFacts
<1>2. JumpTarget(stk) \in 0..Len(blocks)
      /\ (JumpTarget(stk) = 0 \/ FirstOp(JumpTarget(stk)) = "JUMPDEST")
  <2> PICK t : t = BlockAt(IF stk = << >> THEN 0 ELSE Last(stk))
    OBVIOUS
  <2>1. t \in 0..Len(blocks)
    BY <1>1, BlockAtFinds
  <2>2. JumpTarget(stk) = IF t # 0 /\ FirstOp(t) = "JUMPDEST" THEN t ELSE 0
    BY DEF JumpTarget
  <2> QED BY <1>1, <2>1, <2>2
<1>3. Fallout(b) = 0 \/ (b + 1 \in 1..Len(blocks) /\ Fallout(b) = b + 1)
  <2> SUFFICES ASSUME Fallout(b) # 0 PROVE b + 1 \in 1..Len(blocks) /\ Fallout(b) = b + 1
    OBVIOUS
  <2> PICK t : t = Fallout(b)
    OBVIOUS
  <2>1. t \in 1..Len(blocks) /\ blocks[t].first = blocks[b].end
    BY BlockAtFinds DEF Fallout
  <2>2. \A i \in 1..Len(blocks) : /\ blocks[i].first \in Nat /\ blocks[i].end \in Nat
                                  /\ blocks[i].first < blocks[i].end
    BY DEF BlockFacts
  <2>3. \A i, j \in 1..Len(blocks) : i < j => blocks[i].end <= blocks[j].first
    BY DEF BlockFacts, Disjoint
  <2>4. ~(t <= b)
    <3>1. t # b
      BY <2>1, <2>2
    <3>2. ~(t < b)
      BY <2>1, <2>2, <2>3
    <3> QED BY <2>1, <3>1, <3>2
  <2>5. b + 1 \in 1..Len(blocks)
    BY <1>1, <2>1, <2>4
  <2>6. ~(b + 1 < t)
    <3> SUFFICES ASSUME b + 1 < t PROVE FALSE
      OBVIOUS
    <3>1. blocks[b].end <= blocks[b + 1].first /\ blocks[b + 1].end <= blocks[t].first
      BY <2>1, <2>3, <2>5
    <3>2. blocks[b + 1].first < blocks[b + 1].end /\ blocks[b + 1].first \in Nat
          /\ blocks[b + 1].end \in Nat /\ blocks[b].end \in Nat
      BY <2>2, <2>5
    <3> QED BY <2>1, <3>1, <3>2
  <2> QED BY <2>1, <2>4, <2>5, <2>6
<1> QED BY <1>1, <1>2, <1>3 DEF Edge

\* An iteration of dry_run keeps the invariant.
LEMMA DryingStep ==
  ASSUME LifterInv, DryNext, UNCHANGED <<scanVars, lowerVars, runVars>>
  PROVE  LifterInv'
<1>1. ~Scanning /\ dfs # << >>
  BY DEF DryNext, DrySkip, DryVisit
<1>2. /\ code' = code /\ blocks' = blocks
      /\ Edge' = Edge /\ \A b, k : Handed(b, k)' <=> Handed(b, k)
  BY SameFacts
<1>3. CompileInv /\ BlockFacts
  BY <1>1, ScanFacts DEF LifterInv
<1>4. \A s : WorkList(s)' <=> WorkList(s)
  BY <1>2 DEF WorkList
<1>5. Last(dfs).bb \in 1..Len(blocks) /\ WorkList(Front(dfs))
  BY <1>1, <1>3, WorkTop DEF CompileInv
<1>6. /\ WorkList(dfs') /\ seen' \subseteq 1..Len(blocks)
      /\ edges' \in Seq(Edge) /\ \A i \in DOMAIN edges : i \in DOMAIN edges' /\ edges'[i] = edges[i]
  <2>1. CASE DrySkip
    <3>1. edges' = edges /\ edges \in Seq(Edge)
      BY <1>3, <2>1 DEF DrySkip, CompileInv
    <3> QED BY <1>3, <1>5, <2>1, <3>1 DEF DrySkip, CompileInv
  <2>2. CASE DryVisit
    <3> PICK b \in 1..Len(blocks) : b = Last(dfs).bb
      BY <1>5
    <3> PICK stk : stk = dry_run_bb(b, Last(dfs).stk)
      OBVIOUS
    <3> PICK to \in 0..Len(blocks) : to = JumpTarget(stk) /\ <<b, to>> \in Edge
      BY <1>3, EdgesFound
    <3> PICK fall \in 0..Len(blocks) : fall = Fallout(b) /\ <<b, fall>> \in Edge
      BY <1>3, EdgesFound
    <3>1. /\ seen' = seen \union {b}
          /\ \/ /\ edges' = Append(edges, <<b, to>>)
                /\ dfs' = Front(dfs) \o Visit(to, balanced_stk(stk, 1, 0))
             \/ /\ edges' = edges \o << <<b, fall>>, <<b, to>> >>
                /\ dfs' = Front(dfs) \o Visit(fall, balanced_stk(stk, 2, 0))
                                     \o Visit(to, balanced_stk(stk, 2, 0))
             \/ dfs' = Front(dfs) /\ edges' = edges
      BY <2>2 DEF DryVisit
    <3>2. seen' \subseteq 1..Len(blocks)
      BY <1>3, <3>1 DEF CompileInv
    <3>3. WorkList(dfs')
      <4>1. WorkList(Front(dfs) \o Visit(to, balanced_stk(stk, 1, 0)))
        BY <1>5, WorkVisit
      <4>2. WorkList(Front(dfs) \o Visit(fall, balanced_stk(stk, 2, 0)))
        BY <1>5, WorkVisit
      <4>3. WorkList(Front(dfs) \o Visit(fall, balanced_stk(stk, 2, 0))
                                \o Visit(to, balanced_stk(stk, 2, 0)))
        BY <4>2, WorkVisit
      <4> QED BY <1>5, <3>1, <4>1, <4>3
    <3>4. edges' \in Seq(Edge) /\ \A i \in DOMAIN edges : i \in DOMAIN edges' /\ edges'[i] = edges[i]
      <4>1. PICK e \in Edge, f \in Edge : e = <<b, to>> /\ f = <<b, fall>>
        OBVIOUS
      <4>2. edges \in Seq(Edge)
        BY <1>3 DEF CompileInv
      <4>3. /\ Append(edges, e) \in Seq(Edge)
            /\ \A i \in DOMAIN edges : /\ i \in DOMAIN Append(edges, e)
                                      /\ Append(edges, e)[i] = edges[i]
        BY <4>2
      <4>4. /\ edges \o << f, e >> \in Seq(Edge)
            /\ \A i \in DOMAIN edges : /\ i \in DOMAIN (edges \o << f, e >>)
                                      /\ (edges \o << f, e >>)[i] = edges[i]
        BY <4>2
      <4> QED BY <3>1, <4>1, <4>2, <4>3, <4>4
    <3> QED BY <3>2, <3>3, <3>4
  <2> QED BY <2>1, <2>2 DEF DryNext
<1>7. CompileInv'
  <2>1. queue' = queue /\ taken' = taken
    BY DEF lowerVars
  <2>2. WorkList(dfs)'
    BY <1>4, <1>6
  <2>3. Pending \subseteq Pending'
    BY <1>2, <1>6 DEF Pending
  <2>4. queue \in Seq(Pending')
    BY <1>3, <2>3 DEF CompileInv
  <2> QED BY <1>2, <1>3, <1>6, <2>1, <2>2, <2>4 DEF CompileInv
<1> QED BY <1>1, <1>7, CompileKeeps
(***************************************************************************)
(* Lowering.                                                               *)
(***************************************************************************)
\* A block gets no more registers than the block before it leaves, and only
\* if it is entered from there.
LEMMA RegistersHanded ==
  ASSUME BlockFacts, edges \in Seq(Edge), NEW w \in Pending, w.bb # 0
  PROVE  w.bb \in 1..Len(blocks) /\ Handed(w.bb, Registers(w.bb, w.from))
<1> PICK b : b = w.bb
  OBVIOUS
<1> PICK from : from = w.from
  OBVIOUS
<1>1. /\ Len(blocks) \in Nat /\ b \in 1..Len(blocks) /\ from \in 0..Len(blocks)
      /\ from = 0 \/ \E i \in DOMAIN edges : edges[i] = <<from, b>>
  BY DEF Pending, BlockFacts
<1>2. StkIn(b) \in Nat
  BY <1>1, BlockNeeds
<1>3. CASE from = 0 \/ ~TakesRegisters(b)
  BY <1>1, <1>2, <1>3 DEF Registers, Handed
<1>4. CASE from # 0 /\ TakesRegisters(b)
  <2>1. from \in 1..Len(blocks)
    BY <1>1, <1>4
  <2>2. PICK i \in DOMAIN edges : edges[i] = <<from, b>>
    BY <1>1, <1>4
  <2>3. <<from, b>> \in Edge
    BY <2>2
  <2>4. LocalsOut(from) \in Nat /\ (FirstOp(from) = "JUMPI" => LocalsOut(from) = 0)
    BY <2>1, BlockNeeds
  <2> PICK k : k = Registers(b, from)
    OBVIOUS
  <2>5. k \in Nat /\ k <= StkIn(b) /\ k <= LocalsOut(from)
    BY <1>2, <1>4, <2>4 DEF Registers
  <2>6. CASE FirstOp(b) # "JUMPDEST"
    <3>1. b = from + 1
      BY <1>1, <2>3, <2>6 DEF Edge
    <3>2. b > 1 /\ b - 1 = from
      BY <2>1, <3>1
    <3> QED BY <1>1, <2>5, <2>6, <3>2 DEF Handed
  <2>7. CASE FirstOp(b) = "JUMPDEST"
    <3>1. i \in Predecessors(b) /\ edges[i][1] = from
      BY <2>2 DEF Predecessors
    <3>2. FirstOp(from) = "JUMPI"
      BY <1>4, <2>7, <3>1 DEF TakesRegisters
    <3>3. k = 0
      BY <2>4, <2>5, <3>2
    <3> QED BY <1>1, <2>5, <3>3 DEF Handed
  <2> QED BY <2>6, <2>7
<1> QED BY <1>1, <1>3, <1>4

\* The successors of a block, in order, are things to wait for.
LEMMA SuccessorsWait ==
  ASSUME edges \in Seq(Edge), NEW b \in 1..Len(blocks), NEW s \in InOrder(Successors(b))
  PROVE  [i \in DOMAIN s |-> [bb |-> edges[s[i]][2], from |-> b]] \in Seq(Pending)
<1> PICK n : n = Cardinality(Successors(b))
  OBVIOUS
<1>1. n \in Nat
  <2>1. IsFiniteSet(1..Len(edges))
    BY FS_Interval
  <2>2. Successors(b) \subseteq 1..Len(edges)
    BY DEF Successors
  <2>3. IsFiniteSet(Successors(b))
    BY <2>1, <2>2, FS_Subset
  <2> QED BY <2>3, FS_CardinalityType
<1>2. s \in [1..n -> Successors(b)]
  BY DEF InOrder
<1>3. ASSUME NEW i \in 1..n
      PROVE  [bb |-> edges[s[i]][2], from |-> b] \in Pending
  <2> PICK j \in DOMAIN edges : j = s[i] /\ edges[j][1] = b
    BY <1>2 DEF Successors
  <2>1. edges[j] \in Edge
    OBVIOUS
  <2> PICK t \in 0..Len(blocks) : t = edges[j][2] /\ edges[j] = <<b, t>>
    BY <2>1 DEF Edge
  <2> DEFINE w == [bb |-> t, from |-> b]
  <2>2. w \in [bb : 0..Len(blocks), from : 0..Len(blocks)] /\ w.bb = t /\ w.from = b
    OBVIOUS
  <2> HIDE DEF w
  <2>3. w \in Pending
    BY <2>2 DEF Pending
  <2> QED BY <2>3 DEF w
<1>4. DOMAIN s = 1..n
  BY <1>2
<1> QED BY <1>1, <1>3, <1>4

\* A step of the lowering keeps the invariant.
LEMMA LoweringStep ==
  ASSUME LifterInv, LowerSkip \/ LowerBlock, UNCHANGED <<scanVars, dryVars, runVars>>
  PROVE  LifterInv'
<1>1. ~Scanning /\ queue # << >>
  BY DEF LowerSkip, LowerBlock, DryDone
<1>2. /\ code' = code /\ blocks' = blocks
      /\ Edge' = Edge /\ (edges' = edges => Pending' = Pending)
      /\ \A b, k : Handed(b, k)' <=> Handed(b, k)
  BY SameFacts
<1>3. dfs' = dfs /\ seen' = seen /\ edges' = edges
  BY DEF dryVars
<1>4. CompileInv /\ BlockFacts /\ edges \in Seq(Edge) /\ queue \in Seq(Pending)
  BY <1>1, ScanFacts DEF LifterInv, CompileInv
<1>5. Head(queue) \in Pending /\ Tail(queue) \in Seq(Pending)
  BY <1>1, <1>4
<1>6. /\ queue' \in Seq(Pending)
      /\ DOMAIN taken' \subseteq 1..Len(blocks)
      /\ \A b \in DOMAIN taken' : Handed(b, taken'[b])
  <2>1. CASE LowerSkip
    BY <1>4, <1>5, <2>1 DEF LowerSkip, CompileInv
  <2>2. CASE LowerBlock
    <3> PICK b : b = Head(queue).bb
      OBVIOUS
    <3> PICK k : k = Registers(b, Head(queue).from)
      OBVIOUS
    <3>1. /\ b # 0
          /\ taken' = [c \in DOMAIN taken \union {b} |-> IF c = b THEN k ELSE taken[c]]
          /\ \E s \in InOrder(Successors(b)) :
               queue' = Tail(queue) \o [i \in DOMAIN s |-> [bb |-> edges[s[i]][2], from |-> b]]
      BY <2>2 DEF LowerBlock
    <3>2. b \in 1..Len(blocks) /\ Handed(b, k)
      BY <1>4, <1>5, <3>1, RegistersHanded
    <3>3. queue' \in Seq(Pending)
      <4>1. PICK s \in InOrder(Successors(b)) :
               queue' = Tail(queue) \o [i \in DOMAIN s |-> [bb |-> edges[s[i]][2], from |-> b]]
        BY <3>1
      <4>2. PICK more \in Seq(Pending) :
               more = [i \in DOMAIN s |-> [bb |-> edges[s[i]][2], from |-> b]]
        BY <1>4, <3>2, SuccessorsWait
      <4> QED BY <1>5, <4>1, <4>2
    <3>4. DOMAIN taken' = DOMAIN taken \union {b} /\ taken'[b] = k
          /\ \A c \in DOMAIN taken : c # b => taken'[c] = taken[c]
      BY <3>1
    <3> QED BY <1>4, <3>2, <3>3, <3>4 DEF CompileInv
  <2> QED BY <2>1, <2>2
<1>7. CompileInv'
  <2>1. WorkList(dfs)'
    BY <1>2, <1>3, <1>4 DEF CompileInv, WorkList
  <2> QED BY <1>2, <1>3, <1>4, <1>6, <2>1 DEF CompileInv
<1> QED BY <1>1, <1>7, CompileKeeps
(***************************************************************************)
(* The contract.                                                           *)
(***************************************************************************)
\* Facts every step of the contract starts from.
LEMMA LiveFacts ==
  ASSUME LifterInv, Live
  PROVE  /\ ~Scanning /\ BlockFacts /\ CompileInv /\ RunShape
         /\ at \in 1..Len(blocks) /\ status = "running"
         /\ ctxDep(at) \in Dep /\ StkIn(at) \in Nat /\ LocalsOut(at) \in Nat
         /\ IF inside THEN Within ELSE AtBoundary
<1>1. ~Scanning /\ status = "running"
  BY DEF Live, DryDone
<1>2. BlockFacts /\ CompileInv /\ RunShape /\ RunInv
  BY <1>1, ScanFacts DEF LifterInv
<1>3. at \in 1..Len(blocks) /\ (IF inside THEN Within ELSE AtBoundary)
  BY <1>1, <1>2 DEF RunInv
<1> QED BY <1>1, <1>2, <1>3, BlockNeeds

\* The count of ctxDep balances.
Balanced(k, p, q, r, w, out, in, n) ==
  /\ k \in Nat /\ p \in Nat /\ q \in Nat /\ r \in Nat /\ w \in Nat
  /\ out \in Nat /\ in \in Nat /\ n \in Nat
  /\ r - p + q >= out /\ w - r = q - p - out + in
  /\ k >= r /\ n = k - p + q

\* What the instruction needs is there, and what it leaves is as foreseen.
LEMMA Balance ==
  \A k, p, q, r, w, out, in, n : Balanced(k, p, q, r, w, out, in, n) =>
    n >= out /\ n - out + in = k - r + w
  BY DEF Balanced

\* ctxDep counted right: an instruction finds its operands, and what it takes
\* and gives is what the count says.
LEMMA InsideFacts ==
  ASSUME BlockFacts, RunShape, at \in 1..Len(blocks), Within, pc < blocks[at].end,
         NEW next, next = NextPc(code, pc), NEW n, n = Len(locals)
  PROVE  /\ pc \in 0..(Len(code) - 1)
         /\ next \in InstrStarts(code) /\ blocks[at].first <= next /\ next <= blocks[at].end
         /\ next \in 0..Len(code)
         /\ Op \in Leaving => next = blocks[at].end
         /\ n \in Nat /\ StackOut(Op) \in Nat /\ StackIn(Op) \in Nat /\ n >= StackOut(Op)
         /\ \E acc \in Dep : /\ CtxLoop(at)[next][acc] = ctxDep(at)
                             /\ n - StackOut(Op) + StackIn(Op) = StkIn(at) - acc.prev + acc.now
         /\ Op # "INVALID" =>
              LeftBy(pc, n) \in Nat /\ SizeLoop(at)[next][LeftBy(pc, n)] = LocalsOut(at)
<1>1. /\ code \in Seq(Byte) /\ Len(code) \in Nat /\ InstrStarts(code) \subseteq 0..Len(code)
      /\ blocks[at].end \in 0..Len(code) /\ blocks[at].first \in Nat
  BY DEF BlockFacts
<1>2. /\ pc \in InstrStarts(code) /\ blocks[at].first <= pc /\ pc \in 0..(Len(code) - 1)
      /\ pc \in 0..Len(code) /\ pc < Len(code)
  BY <1>1 DEF Within
<1>3. /\ next \in InstrStarts(code) /\ next <= blocks[at].end
      /\ Op \in Leaving => next = blocks[at].end
  BY <1>2 DEF BlockFacts, Op
<1>4. next \in 0..Len(code) /\ next > pc
  BY <1>1, <1>2, NextPcBound
<1>5. n \in Nat
  BY DEF RunShape
<1>6. PICK acc \in Dep : InBlockAt(acc)
  BY DEF Within
<1>7. PICK nxt \in Dep :
        /\ nxt = CtxStep(acc, pc)
        /\ StackOut(Op) \in Nat /\ StackIn(Op) \in Nat
        /\ nxt.prev >= acc.prev
        /\ nxt.prev - acc.prev + acc.now >= StackOut(Op)
        /\ nxt.now - nxt.prev = acc.now - acc.prev - StackOut(Op) + StackIn(Op)
  BY <1>6, CtxStepDep DEF Op
<1>8. CtxLoop(at)[next][nxt] = ctxDep(at)
  <2>1. CtxLoop(at)[pc][acc] = CtxLoop(at)[next][nxt]
    BY <1>1, <1>2, <1>6, <1>7, CtxLoopStep
  <2> QED BY <1>6, <2>1 DEF InBlockAt
<1>9. StkIn(at) \in Nat /\ StkIn(at) >= nxt.prev
  <2>1. ctxDep(at) \in Dep /\ ctxDep(at).prev >= nxt.prev
    BY <1>1, <1>4, <1>7, <1>8, CtxLoopGrows
  <2> QED BY <2>1 DEF StkIn, Dep
<1>10. n = StkIn(at) - acc.prev + acc.now
  BY <1>6 DEF InBlockAt
<1>11. /\ acc.prev \in Nat /\ acc.now \in Nat /\ nxt.prev \in Nat /\ nxt.now \in Nat
  BY <1>6, <1>7 DEF Dep
<1>12. n >= StackOut(Op) /\ n - StackOut(Op) + StackIn(Op) = StkIn(at) - nxt.prev + nxt.now
  <2>1. Balanced(StkIn(at), acc.prev, acc.now, nxt.prev, nxt.now, StackOut(Op), StackIn(Op), n)
    BY <1>5, <1>7, <1>9, <1>10, <1>11 DEF Balanced
  <2> QED BY <2>1, Balance
<1>13. ASSUME Op # "INVALID"
       PROVE  LeftBy(pc, n) \in Nat /\ SizeLoop(at)[next][LeftBy(pc, n)] = LocalsOut(at)
  <2>1. LeftBy(pc, n) \in Nat
    BY <1>1, <1>2, <1>5, LeftByIs
  <2>2. ~Stops(at, pc)
    BY <1>1, <1>2, <1>13 DEF Stops, Op
  <2>3. SizeLoop(at)[pc][n] = SizeLoop(at)[next][LeftBy(pc, n)]
    BY <1>1, <1>2, <1>5, <2>2, SizeLoopStep
  <2> QED BY <1>6, <2>1, <2>3 DEF InBlockAt
<1>14. blocks[at].first <= next
  BY <1>1, <1>2, <1>4
<1> QED BY <1>2, <1>3, <1>4, <1>5, <1>7, <1>8, <1>12, <1>13, <1>14

\* Nothing is said about a contract that has left mstk, or ended.
LEMMA EndKeeps ==
  ASSUME LifterInv, Live, UNCHANGED <<scanVars, dryVars, lowerVars>>,
         UNCHANGED <<at, inside, pc, locals, mstk, sp, target>>,
         status' \in {"finished", "reverted", "trapped", "undefined"}
  PROVE  LifterInv'
<1>1. ~Scanning /\ RunShape /\ at \in 1..Len(blocks)
  BY LiveFacts
<1>2. code' = code /\ blocks' = blocks
  BY DEF scanVars
<1>3. RunShape'
  BY <1>1, <1>2 DEF RunShape
<1>4. RunInv'
  BY <1>1, <1>2 DEF RunInv
<1> QED BY <1>1, <1>3, <1>4, RunKeeps

\* How a block may be left: for a jump destination, for the next block with
\* the registers the compiler counted, or for the end.
Lands(l) ==
  /\ at' \in 1..Len(blocks) /\ pc' \in 0..Len(code)
  /\ status' \in {"running", "reverted", "finished"}
  /\ status' = "running" =>
       /\ pc' = blocks[at'].first
       /\ FirstOp(at') = "JUMPDEST" \/ (at' = at + 1 /\ Len(l) = LocalsOut(at))

\* Leaving a block that way keeps the invariant.
LEMMA LeaveKeeps ==
  ASSUME LifterInv, Live, UNCHANGED <<scanVars, dryVars, lowerVars>>,
         NEW l \in Seq(Reg), ~Overflows(l), Spill(l), target' \in Nat, inside' = FALSE, Lands(l)
  PROVE  LifterInv'
<1>1. ~Scanning /\ BlockFacts /\ RunShape /\ at \in 1..Len(blocks)
  BY LiveFacts
<1>2. /\ code' = code /\ blocks' = blocks /\ \A b : FirstOp(b)' = FirstOp(b)
  BY SameFacts
<1>3. \A b : LocalsOut(b)' = LocalsOut(b)
  BY <1>2, SameBlocks
<1>4. Len(l) \in Nat /\ sp \in 0..MstkWords /\ MstkWords \in Nat /\ mstk \in [1..MstkWords -> Nat]
  BY <1>1, MachineAssumption DEF RunShape
<1>5. sp' \in 0..MstkWords /\ locals' \in Seq(Reg) /\ locals' = l
  BY <1>4 DEF Spill, Overflows
<1>6. mstk' \in [1..MstkWords -> Nat]
  <2>1. ASSUME NEW i \in 1..MstkWords
        PROVE  (IF sp < i /\ i <= sp + Len(l) THEN l[i - sp].v ELSE mstk[i]) \in Nat
    <3>1. CASE sp < i /\ i <= sp + Len(l)
      <4>1. l[i - sp] \in Reg
        BY <1>4, <3>1
      <4> QED BY <3>1, <4>1 DEF Reg
    <3>2. CASE ~(sp < i /\ i <= sp + Len(l))
      BY <1>4, <3>2
    <3> QED BY <3>1, <3>2
  <2> QED BY <2>1 DEF Spill
<1>7. RunShape'
  BY <1>2, <1>5, <1>6 DEF RunShape, Lands
<1>8. RunInv'
  <2>1. at' \in 1..Len(blocks')
    BY <1>2 DEF Lands
  <2>2. ASSUME status' = "running" PROVE AtBoundary'
    <3>1. pc' = blocks'[at'].first
      BY <1>2, <2>2 DEF Lands
    <3>2. ASSUME FirstOp(at') # "JUMPDEST" PROVE Len(l) = LocalsOut(at' - 1)
      <4>1. at' = at + 1 /\ Len(l) = LocalsOut(at)
        BY <2>2, <3>2 DEF Lands
      <4>2. at' - 1 = at
        BY <1>1, <4>1
      <4> QED BY <4>1, <4>2
    <3>3. FirstOp(at)' = FirstOp(at') /\ LocalsOut(at - 1)' = LocalsOut(at' - 1)
      BY <1>2, <1>3
    <3> QED BY <1>5, <3>1, <3>2, <3>3 DEF AtBoundary
  <2> QED BY <2>1, <2>2 DEF RunInv
<1> QED BY <1>1, <1>7, <1>8, RunKeeps

\* The jump table leads to a jump destination or aborts.
LEMMA DispatchLands ==
  ASSUME LifterInv, Live, NEW p, Dispatch(p), NEW l
  PROVE  Lands(l)
<1>1. BlockFacts /\ RunShape /\ at \in 1..Len(blocks) /\ status = "running"
  BY LiveFacts
<1>2. CASE p \in JumpTable
  <2>1. PICK i \in 1..Len(blocks) : p = blocks[i].first /\ OpAt(code, p) = "JUMPDEST"
    BY <1>2 DEF JumpTable
  <2>2. BlockAt(p) \in 1..Len(blocks) /\ blocks[BlockAt(p)].first = p
    BY <2>1, BlockAtFinds
  <2>3. at' = BlockAt(p) /\ pc' = p /\ status' = status
    BY <1>2 DEF Dispatch
  <2>4. p \in 0..Len(code)
    BY <1>1, <2>1 DEF BlockFacts
  <2>5. FirstOp(at') = "JUMPDEST"
    BY <2>1, <2>2, <2>3 DEF FirstOp
  <2> QED BY <1>1, <2>2, <2>3, <2>4, <2>5 DEF Lands
<1>3. CASE p \notin JumpTable
  BY <1>1, <1>3 DEF Dispatch, Abort, Lands, RunShape
<1> QED BY <1>2, <1>3

\* Falling through leads to the next block, or past the last one to the jump table.
LEMMA FallLands ==
  ASSUME LifterInv, Live, NEW t, FallThrough(t), NEW l, Len(l) = LocalsOut(at)
  PROVE  Lands(l)
<1>1. BlockFacts /\ RunShape /\ at \in 1..Len(blocks) /\ status = "running"
  BY LiveFacts
<1>2. CASE at < Len(blocks)
  <2>1. at' = at + 1 /\ pc' = blocks[at + 1].first /\ status' = status
    BY <1>2 DEF FallThrough
  <2>2. at + 1 \in 1..Len(blocks) /\ blocks[at + 1].first \in 0..Len(code)
    BY <1>1, <1>2 DEF BlockFacts
  <2> QED BY <1>1, <2>1, <2>2 DEF Lands
<1>3. CASE ~(at < Len(blocks))
  BY <1>3, DispatchLands DEF FallThrough
<1> QED BY <1>2, <1>3
\* Registers that are popped and registers that are taken over.
NewLocals(g, below, m, l, k) ==
  [i \in 1..m |-> [v |-> g[below + i], const |-> FALSE]] \o SubSeq(l, Len(l) - k + 1, Len(l))

\* They are as many as the block needs.
LEMMA EnterLocals ==
  ASSUME NEW g, NEW below, NEW m \in Nat, \A i \in 1..m : g[below + i] \in Nat, NEW l \in Seq(Reg), NEW k \in Nat, k <= Len(l)
  PROVE  NewLocals(g, below, m, l, k) \in Seq(Reg) /\ Len(NewLocals(g, below, m, l, k)) = m + k
<1> DEFINE popped == [i \in 1..m |-> [v |-> g[below + i], const |-> FALSE]]
           kept == SubSeq(l, Len(l) - k + 1, Len(l))
<1>0. Len(l) \in Nat
  OBVIOUS
<1>1. ASSUME NEW i \in 1..m PROVE [v |-> g[below + i], const |-> FALSE] \in Reg
  BY DEF Reg
<1>2. popped \in Seq(Reg) /\ Len(popped) = m
  <2>1. popped \in [1..m -> Reg]
    BY <1>1
  <2> HIDE DEF popped
  <2> QED BY <2>1
<1>3. kept \in Seq(Reg) /\ Len(kept) = k
  <2> PICK hi \in Nat : hi = Len(l)
    BY <1>0
  <2>1. PICK lo \in Int : lo = hi - k + 1
    OBVIOUS
  <2>2. \A i \in lo..hi : l[i] \in Reg
    BY <2>1
  <2>3. SubSeq(l, lo, hi) \in Seq(Reg) /\ Len(SubSeq(l, lo, hi)) = IF lo <= hi THEN hi - lo + 1 ELSE 0
    BY <2>2, SubSeqProperties
  <2>4. (IF lo <= hi THEN hi - lo + 1 ELSE 0) = k
    BY <2>1
  <2> QED BY <2>1, <2>3, <2>4
<1> HIDE DEF popped, kept
<1>4. popped \o kept \in Seq(Reg) /\ Len(popped \o kept) = m + k
  BY <1>2, <1>3, ConcatProperties
<1> QED BY <1>4 DEF popped, kept, NewLocals

\* A block starts with the items it needs.
LEMMA EnterStep ==
  ASSUME LifterInv, Enter, UNCHANGED <<scanVars, dryVars, lowerVars>>
  PROVE  LifterInv'
<1>1. Live /\ ~inside
  BY DEF Enter, EnterFrom
<1>2. /\ ~Scanning /\ BlockFacts /\ CompileInv /\ RunShape
      /\ at \in 1..Len(blocks) /\ status = "running"
      /\ StkIn(at) \in Nat /\ LocalsOut(at) \in Nat
      /\ AtBoundary
  BY <1>1, LiveFacts
<1>3. Handed(at, Taken(at))
  <2>1. CASE at \in DOMAIN taken
    BY <1>2, <2>1 DEF CompileInv, Taken
  <2>2. CASE at \notin DOMAIN taken
    BY <1>2, <2>2 DEF Taken, Handed
  <2> QED BY <2>1, <2>2
<1>4. PICK need \in Nat : need = StkIn(at)
  BY <1>2
<1>5. PICK k \in Nat : k = Taken(at) /\ k <= need
  BY <1>3, <1>4 DEF Handed
<1>6. PICK m \in Nat : m = need - k
  BY <1>5
<1>7. PICK W \in Nat : W = MstkWords
  BY MachineAssumption
<1>8. PICK top \in 0..W : top = sp
  BY <1>2, <1>7 DEF RunShape
<1>9. PICK below \in Int : below = top - k - m
  OBVIOUS
<1>10. \/ Corrupt
       \/ /\ below >= 0
          /\ locals' = NewLocals(mstk, below, m, locals, k)
          /\ sp' = below
          /\ inside' = TRUE
          /\ UNCHANGED <<at, pc, mstk, target, status>>
  BY <1>4, <1>5, <1>6, <1>8, <1>9 DEF Enter, EnterFrom, NewLocals
<1>11. CASE Corrupt
  BY <1>1, <1>11, EndKeeps DEF Corrupt
<1>12. CASE ~Corrupt
  <2>1. /\ below >= 0 /\ sp' = below /\ inside' = TRUE
        /\ locals' = NewLocals(mstk, below, m, locals, k)
        /\ at' = at /\ pc' = pc /\ mstk' = mstk /\ target' = target /\ status' = status
    BY <1>10, <1>12
  <2>2. k <= Len(locals) /\ locals \in Seq(Reg)
    <3>1. locals \in Seq(Reg) /\ Len(locals) \in Nat
      BY <1>2 DEF RunShape
    <3>2. k = 0 \/ (at > 1 /\ FirstOp(at) # "JUMPDEST" /\ k <= LocalsOut(at - 1))
      BY <1>3, <1>5 DEF Handed
    <3>3. at > 1 /\ FirstOp(at) # "JUMPDEST" => Len(locals) = LocalsOut(at - 1)
      BY <1>2 DEF AtBoundary
    <3>4. k = 0 \/ k <= Len(locals)
      BY <3>2, <3>3, Zenon
    <3> QED BY <3>1, <3>4
  <2>3. below \in Nat /\ below + m <= W /\ m + k = need /\ below \in 0..W
    <3>1. below >= 0
      BY <2>1
    <3> QED BY <1>5, <1>6, <1>9, <3>1
  <2>4. locals' \in Seq(Reg) /\ Len(locals') = need
    <3>1. \A i \in 1..m : below + i \in 1..W
      BY <2>3
    <3>2. \A i \in 1..m : mstk[below + i] \in Nat
      BY <1>2, <1>7, <3>1 DEF RunShape
    <3>3. PICK new : new = NewLocals(mstk, below, m, locals, k)
      OBVIOUS
    <3>4. new \in Seq(Reg) /\ Len(new) = m + k
      BY <2>2, <3>2, <3>3, EnterLocals
    <3> QED BY <2>1, <2>3, <3>3, <3>4
  <2>5. code' = code /\ blocks' = blocks
    BY DEF scanVars
  <2>6. RunShape'
    BY <1>2, <1>7, <2>1, <2>3, <2>4, <2>5 DEF RunShape
  <2>7. RunInv'
    <3>1. pc = blocks[at].first
      BY <1>2 DEF AtBoundary
    <3>2. pc \in InstrStarts(code) /\ pc <= blocks[at].end /\ blocks[at].first <= pc
      <4>1. /\ blocks[at].first \in InstrStarts(code) /\ blocks[at].first < blocks[at].end
            /\ blocks[at].first \in Nat /\ blocks[at].end \in Nat
        BY <1>2, BlockFact
      <4> QED BY <3>1, <4>1
    <3> DEFINE acc == [prev |-> 0, now |-> 0]
    <3>3. acc \in Dep /\ acc.prev = 0 /\ acc.now = 0
      BY DEF Dep
    <3>4. CtxLoop(at)[pc][acc] = ctxDep(at) /\ SizeLoop(at)[pc][need] = LocalsOut(at)
      BY <1>4, <3>1 DEF ctxDep, LocalsOut
    <3> HIDE DEF acc
    <3>5. Len(locals') = StkIn(at) - acc.prev + acc.now
      BY <1>4, <2>4, <3>3
    <3>6. InBlockAt(acc)'
      BY <2>1, <2>4, <2>5, <3>3, <3>4, <3>5, SameBlocks DEF InBlockAt
    <3>7. Within'
      BY <2>1, <2>5, <3>2, <3>3, <3>6 DEF Within
    <3> QED BY <1>2, <2>1, <2>5, <3>7 DEF RunInv
  <2> QED BY <1>2, <2>6, <2>7, RunKeeps
<1> QED BY <1>11, <1>12

\* An instruction in the middle of a block.
LEMMA ExecStep ==
  ASSUME LifterInv, Exec, UNCHANGED <<scanVars, dryVars, lowerVars>>
  PROVE  LifterInv'
<1>1. /\ Live /\ inside /\ pc < blocks[at].end /\ Op \notin Ending
      /\ at' = at /\ inside' = inside /\ mstk' = mstk /\ sp' = sp /\ target' = target /\ status' = status
  BY DEF Exec
<1> PICK next : next = NextPc(code, pc)
  OBVIOUS
<1> PICK n : n = Len(locals)
  OBVIOUS
<1>2. /\ ~Scanning /\ BlockFacts /\ RunShape /\ at \in 1..Len(blocks) /\ status = "running"
      /\ Within
  BY <1>1, LiveFacts
<1>3. /\ pc \in 0..(Len(code) - 1)
      /\ next \in InstrStarts(code) /\ blocks[at].first <= next /\ next <= blocks[at].end
      /\ next \in 0..Len(code)
      /\ n \in Nat /\ StackOut(Op) \in Nat /\ StackIn(Op) \in Nat /\ n >= StackOut(Op)
      /\ \E acc \in Dep : /\ CtxLoop(at)[next][acc] = ctxDep(at)
                          /\ n - StackOut(Op) + StackIn(Op) = StkIn(at) - acc.prev + acc.now
      /\ Op # "INVALID" =>
           LeftBy(pc, n) \in Nat /\ SizeLoop(at)[next][LeftBy(pc, n)] = LocalsOut(at)
  BY <1>1, <1>2, InsideFacts
<1>4. pc' = next /\ \E v \in Nat : locals' = Lower(Op, pc, locals, v)
  BY MachineAssumption DEF Exec
<1>5. code \in Seq(Byte) /\ locals \in Seq(Reg)
  BY <1>2 DEF BlockFacts, RunShape
<1>6. locals' \in Seq(Reg) /\ Len(locals') = LeftSize(Op, n)
  BY <1>3, <1>4, <1>5, LowerSize
<1>7. LeftSize(Op, n) = n - StackOut(Op) + StackIn(Op)
  <2>1. Op \notin {"JUMP", "JUMPI", "RETURN", "REVERT", "STOP", "SUICIDE", "INVALID"}
    BY <1>1 DEF Ending, Halting
  <2> QED BY <1>3, <2>1, LeftBalance
<1>8. LeftBy(pc, n) = LeftSize(Op, n)
  <2>1. Operands(Op) = 0
    BY <1>1 DEF Operands, Ending, Halting
  <2> QED BY <1>3, <1>5, <2>1, LeftByIs DEF Op
<1>9. code' = code /\ blocks' = blocks
  BY DEF scanVars
<1>10. RunShape'
  BY <1>1, <1>2, <1>3, <1>4, <1>6, <1>9 DEF RunShape
<1>11. RunInv'
  <2>1. PICK acc \in Dep : /\ CtxLoop(at)[next][acc] = ctxDep(at)
                           /\ n - StackOut(Op) + StackIn(Op) = StkIn(at) - acc.prev + acc.now
    BY <1>3
  <2>2. Op # "INVALID"
    BY <1>1 DEF Ending
  <2>3. SizeLoop(at)[next][Len(locals')] = LocalsOut(at)
    BY <1>3, <1>6, <1>8, <2>2
  <2>4. Len(locals') = StkIn(at) - acc.prev + acc.now
    BY <1>6, <1>7, <2>1
  <2>5. InBlockAt(acc)'
    BY <1>1, <1>4, <1>9, <2>1, <2>3, <2>4, SameBlocks DEF InBlockAt
  <2>6. Within'
    BY <1>1, <1>3, <1>4, <1>9, <2>1, <2>5 DEF Within
  <2> QED BY <1>1, <1>2, <1>9, <2>6 DEF RunInv
<1> QED BY <1>2, <1>10, <1>11, RunKeeps
\* The operands of a jump, and what the jump table switches on afterwards.
LEMMA JumpOperands ==
  ASSUME RunShape
  PROVE  /\ Pop(locals) \in Seq(Reg) /\ Pop(Pop(locals)) \in Seq(Reg)
         /\ TargetAfter(Top(locals)) \in Nat
<1>1. locals \in Seq(Reg) /\ target \in Nat
  BY DEF RunShape
<1>2. Top(locals) \in Reg /\ Pop(locals) \in Seq(Reg)
  BY <1>1, PopTop
<1>3. Pop(Pop(locals)) \in Seq(Reg)
  BY <1>2, PopTop
<1>4. Top(locals).v \in Nat
  BY <1>2 DEF Reg
<1> QED BY <1>1, <1>2, <1>3, <1>4 DEF TargetAfter

\* A block is left for a place where the invariant holds, or mstk overflows.
LEMMA LeaveBlockKeeps ==
  ASSUME LifterInv, Live, UNCHANGED <<scanVars, dryVars, lowerVars>>,
         NEW l \in Seq(Reg), NEW t \in Nat,
         Corrupt \/ (~Overflows(l) /\ Spill(l) /\ target' = t /\ inside' = FALSE /\ Lands(l))
  PROVE  LifterInv'
<1>1. CASE Corrupt
  BY <1>1, EndKeeps DEF Corrupt
<1>2. CASE ~Corrupt
  BY <1>2, LeaveKeeps
<1> QED BY <1>1, <1>2

\* Jumps that are taken.
LEMMA JumpStep ==
  ASSUME LifterInv, Jump \/ JumpiTaken, UNCHANGED <<scanVars, dryVars, lowerVars>>
  PROVE  LifterInv'
<1>1. Live /\ inside
  BY DEF Jump, JumpiTaken
<1>2. RunShape
  BY <1>1, LiveFacts
<1>3. PICK t \in Nat : t = TargetAfter(Top(locals))
  BY <1>2, JumpOperands
<1>4. PICK l \in Seq(Reg) :
        Corrupt \/ (~Overflows(l) /\ Spill(l) /\ target' = t /\ inside' = FALSE
                      /\ Dispatch(Top(locals).v))
  <2>1. CASE Jump
    BY <1>2, <1>3, <2>1, JumpOperands DEF Jump, LeaveBlock
  <2>2. CASE JumpiTaken
    BY <1>2, <1>3, <2>2, JumpOperands DEF JumpiTaken, LeaveBlock
  <2> QED BY <2>1, <2>2
<1>5. Corrupt \/ (~Overflows(l) /\ Spill(l) /\ target' = t /\ inside' = FALSE /\ Lands(l))
  BY <1>1, <1>4, DispatchLands
<1> QED BY <1>1, <1>5, LeaveBlockKeeps

\* A JUMPI that is not taken leaves the registers the compiler counted.
LEMMA JumpiLeaves ==
  ASSUME LifterInv, Live, inside, pc < blocks[at].end, Op = "JUMPI"
  PROVE  Len(Pop(Pop(locals))) = LocalsOut(at)
<1>1. /\ BlockFacts /\ RunShape /\ at \in 1..Len(blocks) /\ Within
  BY LiveFacts
<1>2. PICK n : n = Len(locals)
  OBVIOUS
<1>3. PICK next : next = NextPc(code, pc)
  OBVIOUS
<1>4. PICK e : e = blocks[at].end
  OBVIOUS
<1>5. Op \in Leaving /\ StackOut(Op) = 2 /\ Op # "INVALID" /\ Operands(Op) = 2
  BY DEF Leaving, StackOut, Operands
<1>6. /\ pc \in 0..(Len(code) - 1) /\ next = e
      /\ n \in Nat /\ n >= StackOut(Op)
      /\ LeftBy(pc, n) \in Nat /\ SizeLoop(at)[next][LeftBy(pc, n)] = LocalsOut(at)
  BY <1>1, <1>2, <1>3, <1>4, <1>5, InsideFacts
<1>7. code \in Seq(Byte) /\ Len(code) \in Nat /\ e \in 0..Len(code)
  BY <1>1, <1>4 DEF BlockFacts
<1>8. n \in Nat /\ n >= 2
  BY <1>5, <1>6
<1>9. LeftBy(pc, n) = n - 2
  <2>1. Operands(OpAt(code, pc)) = 2
    BY <1>5 DEF Op
  <2>2. \A k \in Nat : k >= 2 => LeftBy(pc, k) = k - 2
    BY <2>1 DEF LeftBy
  <2> QED BY <1>8, <2>2
<1>10. SizeLoop(at)[e][n - 2] = n - 2
  <2>1. Stops(at, e) /\ n - 2 \in Nat
    BY <1>4, <1>7, <1>8 DEF Stops
  <2>2. \A k \in Nat : SizeLoop(at)[e][k] = k
    BY <1>4, <1>7, <2>1, SizeLoopStep
  <2> QED BY <2>1, <2>2
<1>11. Len(Pop(Pop(locals))) = n - 2
  <2>1. locals \in Seq(Reg)
    BY <1>1 DEF RunShape
  <2>2. PICK r \in Seq(Reg) : r = Pop(locals) /\ Len(r) = IF n = 0 THEN 0 ELSE n - 1
    BY <1>2, <2>1, PopTop
  <2>3. Len(Pop(r)) = IF Len(r) = 0 THEN 0 ELSE Len(r) - 1
    BY <2>2, PopTop
  <2> QED BY <1>8, <2>2, <2>3
<1> QED BY <1>6, <1>9, <1>10, <1>11

\* A JUMPI that is not taken, and the end of a block without terminator.
LEMMA FallStep ==
  ASSUME LifterInv, JumpiNotTaken \/ FallOut, UNCHANGED <<scanVars, dryVars, lowerVars>>
  PROVE  LifterInv'
<1>1. Live /\ inside
  BY DEF JumpiNotTaken, FallOut
<1>2. /\ BlockFacts /\ RunShape /\ at \in 1..Len(blocks) /\ Within
  BY <1>1, LiveFacts
<1>3. ASSUME NEW l \in Seq(Reg), NEW t \in Nat, Len(l) = LocalsOut(at),
             LeaveBlock(l, t, FallThrough(t))
      PROVE  LifterInv'
  <2>1. Corrupt \/ (~Overflows(l) /\ Spill(l) /\ target' = t /\ inside' = FALSE /\ FallThrough(t))
    BY <1>3 DEF LeaveBlock
  <2>2. Corrupt \/ (~Overflows(l) /\ Spill(l) /\ target' = t /\ inside' = FALSE /\ Lands(l))
    BY <1>1, <1>3, <2>1, FallLands
  <2> QED BY <1>1, <2>2, LeaveBlockKeeps
<1>4. CASE JumpiNotTaken
  <2>1. pc < blocks[at].end /\ Op = "JUMPI"
    BY <1>4 DEF JumpiNotTaken
  <2>2. PICK t \in Nat : t = TargetAfter(Top(locals))
    BY <1>2, JumpOperands
  <2>3. PICK l \in Seq(Reg) : l = Pop(Pop(locals)) /\ Len(l) = LocalsOut(at)
    BY <1>1, <1>2, <2>1, JumpOperands, JumpiLeaves
  <2>4. LeaveBlock(l, t, FallThrough(t))
    BY <1>4, <2>2, <2>3 DEF JumpiNotTaken
  <2> QED BY <1>3, <2>3, <2>4
<1>5. CASE FallOut
  <2>1. pc = blocks[at].end /\ LeaveBlock(locals, target, FallThrough(target))
    BY <1>5 DEF FallOut
  <2>2. PICK e : e = blocks[at].end
    OBVIOUS
  <2>3. code \in Seq(Byte) /\ Len(code) \in Nat /\ e \in 0..Len(code)
    BY <1>2, <2>2 DEF BlockFacts
  <2>4. locals \in Seq(Reg) /\ target \in Nat /\ Len(locals) \in Nat
    BY <1>2 DEF RunShape
  <2>5. SizeLoop(at)[e][Len(locals)] = LocalsOut(at)
    BY <1>2, <2>1, <2>2 DEF Within, InBlockAt
  <2>6. Stops(at, e)
    BY <2>2, <2>3 DEF Stops
  <2>7. SizeLoop(at)[e][Len(locals)] = Len(locals)
    BY <2>2, <2>3, <2>4, <2>6, SizeLoopStep
  <2>8. Len(locals) = LocalsOut(at)
    BY <2>5, <2>7
  <2> QED BY <1>3, <2>1, <2>4, <2>8
<1> QED BY <1>4, <1>5

\* STOP leaves its block for the end.
LEMMA StopStep ==
  ASSUME LifterInv, Stop, UNCHANGED <<scanVars, dryVars, lowerVars>>
  PROVE  LifterInv'
<1>1. Live /\ LeaveBlock(locals, target, Finish)
  BY DEF Stop
<1>2. BlockFacts /\ RunShape /\ at \in 1..Len(blocks)
  BY <1>1, LiveFacts
<1>3. locals \in Seq(Reg) /\ target \in Nat /\ pc \in 0..Len(code)
  BY <1>2 DEF RunShape
<1>4. Finish => Lands(locals)
  BY <1>2, <1>3 DEF Finish, Lands
<1>5. \/ Corrupt
      \/ /\ ~Overflows(locals) /\ Spill(locals) /\ target' = target /\ inside' = FALSE
         /\ Lands(locals)
  BY <1>1, <1>4 DEF LeaveBlock
<1> QED BY <1>1, <1>3, <1>5, LeaveBlockKeeps

\* Every step keeps the invariant.
LEMMA StepLifterInv == LifterInv /\ [Next]_vars => LifterInv'
<1> SUFFICES ASSUME LifterInv, [Next]_vars PROVE LifterInv'
  OBVIOUS
<1>1. CASE Compile
  BY <1>1, ScanningStep, DryingStep, LoweringStep DEF Compile
<1>2. CASE Run
  <2>1. UNCHANGED <<scanVars, dryVars, lowerVars>>
    BY <1>2 DEF Run
  <2>2. CASE EndExecution
    <3>1. /\ Live /\ UNCHANGED <<at, inside, pc, locals, mstk, sp, target>>
          /\ status' = Outcome(Op)
      BY <2>2 DEF EndExecution
    <3>2. status' \in {"finished", "reverted", "trapped", "undefined"}
      BY <3>1 DEF Outcome
    <3> QED BY <2>1, <3>1, <3>2, EndKeeps
  <2> QED BY <1>2, <2>1, <2>2, EnterStep, ExecStep, JumpStep, FallStep, StopStep DEF Run
<1>3. CASE UNCHANGED vars
  <2>1. UNCHANGED <<scanVars, dryVars, lowerVars>> /\ UNCHANGED runVars
    BY <1>3 DEF vars
  <2>2. CASE Scanning
    <3>1. ScanInv' /\ code' = code /\ Scanning'
      BY <2>1, <2>2, StepScanInv DEF LifterInv, scanVars, Scanning
    <3>2. Fresh' /\ RunShape'
      BY <2>1, <2>2, <3>1 DEF LifterInv, Fresh, RunShape, DryInit, dryVars, lowerVars, runVars
    <3> QED BY <3>1, <3>2 DEF LifterInv
  <2>3. CASE ~Scanning
    <3>1. code' = code /\ blocks' = blocks /\ Edge' = Edge /\ Pending' = Pending
          /\ \A b, k : Handed(b, k)' <=> Handed(b, k)
      BY <2>1, SameFacts DEF dryVars
    <3>2. CompileInv'
      <4>1. dfs' = dfs /\ seen' = seen /\ edges' = edges /\ queue' = queue /\ taken' = taken
        BY <2>1 DEF dryVars, lowerVars
      <4>2. WorkList(dfs)'
        BY <2>3, <3>1, <4>1 DEF LifterInv, CompileInv, WorkList
      <4> QED BY <2>3, <3>1, <4>1, <4>2 DEF LifterInv, CompileInv
    <3> QED BY <2>1, <2>3, <3>2, CompileKeeps
  <2> QED BY <2>2, <2>3
<1> QED BY <1>1, <1>2, <1>3 DEF Next

(***************************************************************************)
(* The theorem.                                                            *)
(***************************************************************************)
\* The invariant keeps GlobalStack from handing out zeros.
LEMMA InvStackSound == LifterInv => StackSound
<1> SUFFICES ASSUME LifterInv PROVE StackSound
  OBVIOUS
<1>1. TypeOK
  <2>1. ScanTypeOK
    BY DEF LifterInv, ScanInv, ScanShape, ScanTypeOK
  <2>2. seen \subseteq 1..Len(blocks) /\ DOMAIN taken \subseteq 1..Len(blocks)
    <3>1. CASE Scanning
      BY <3>1 DEF LifterInv, Fresh, DryInit
    <3>2. CASE ~Scanning
      BY <3>2 DEF LifterInv, CompileInv
    <3> QED BY <3>1, <3>2
  <2>3. ~Scanning => at \in 1..Len(blocks)
    BY DEF LifterInv, RunInv
  <2> QED BY <2>1, <2>2, <2>3 DEF TypeOK, LifterInv, RunShape
<1>2. NeverPads
  <2> SUFFICES ASSUME Live, inside, pc < blocks[at].end
               PROVE  LET need == CASE Op \in {"SWAP1", "SWAP2"} -> Rank(Op) + 1
                                    [] Op \in {"DUP1", "DUP2"} -> Rank(Op)
                                    [] Op = "POP" -> 1
                                    [] Op = "ADD" -> 2
                                    [] Op = "CODECOPY" -> 3
                                    [] OTHER -> Operands(Op)
                      IN Len(locals) >= need
    BY DEF NeverPads
  <2>1. /\ BlockFacts /\ RunShape /\ at \in 1..Len(blocks) /\ Within
    BY LiveFacts
  <2>2. PICK n : n = Len(locals)
    OBVIOUS
  <2>3. PICK op : op = Op
    OBVIOUS
  <2>4. n \in Nat /\ n >= StackOut(op)
    BY <2>1, <2>2, <2>3, InsideFacts
  <2>5. n >= CASE op \in {"SWAP1", "SWAP2"} -> Rank(op) + 1
               [] op \in {"DUP1", "DUP2"} -> Rank(op)
               [] op = "POP" -> 1
               [] op = "ADD" -> 2
               [] op = "CODECOPY" -> 3
               [] OTHER -> Operands(op)
    <3>1. CASE op \in {"SWAP1", "SWAP2", "DUP1", "DUP2"}
      BY <2>4, <3>1 DEF Rank, StackOut
    <3>2. CASE op \in {"POP", "ADD", "CODECOPY"}
      BY <2>4, <3>2 DEF StackOut
    <3>3. CASE op \notin {"SWAP1", "SWAP2", "DUP1", "DUP2", "POP", "ADD", "CODECOPY"}
      <4>1. n >= Operands(op)
        BY <2>4, <3>3 DEF StackOut, Operands
      <4> QED BY <3>3, <4>1
    <3> QED BY <3>1, <3>2, <3>3
  <2> QED BY <2>2, <2>3, <2>5
<1> QED BY <1>1, <1>2 DEF StackSound

\* For every bytecode the registers and mstk are sound: ctxDep foresees what a
\* block needs, the registers handed over a fall through are there, and no
\* access leaves mstk.
THEOREM StackCorrect == Spec => []StackSound
<1> QED BY InitLifterInv, StepLifterInv, InvStackSound, PTL DEF Spec

(***************************************************************************)
(* The refinement.  A step of the translated contract is the step the EVM  *)
(* takes on StackView, or none.  First: both read the same code.           *)
(***************************************************************************)
\* The EVM reads bytecode as the translator does.
LEMMA SameReading ==
  /\ \A c, p : Machine!OpAt(c, p) = OpAt(c, p)
  /\ \A c, p : Machine!NextPc(c, p) = NextPc(c, p)
  /\ \A c, p : Machine!PushData(c, p) = PushData(c, p)
  /\ \A op : Machine!StackOut(op) = StackOut(op)
  /\ \A op : Machine!StackIn(op) = StackIn(op)
  /\ \A op : Machine!Rank(op) = Rank(op)
<1>1. \A c, p : Machine!OpAt(c, p) = OpAt(c, p)
  BY DEF Machine!OpAt, OpAt
<1>2. \A op : Machine!PushSize(op) = PushSize(op)
  BY DEF Machine!PushSize, PushSize
<1>3. \A c, p : Machine!NextPc(c, p) = NextPc(c, p)
  BY <1>1, <1>2 DEF Machine!NextPc, NextPc
<1>4. \A c, p : Machine!PushData(c, p) = PushData(c, p)
  BY <1>1, <1>2 DEF Machine!PushData, PushData
<1> QED BY <1>1, <1>3, <1>4 DEF Machine!StackOut, StackOut, Machine!StackIn, StackIn, Machine!Rank, Rank

\* A contract that has not started stands for an EVM that has not.
LEMMA InitEVM == Init => Machine!Init
<1> SUFFICES ASSUME Init PROVE Machine!Init
  OBVIOUS
<1>1. code \in Seq(Byte) /\ pc = 0 /\ status = "running"
  BY ProgramsAssumption DEF Init, ScanInit
<1>2. StatusView = "running"
  BY <1>1 DEF StatusView
<1>3. Machine!Byte = Byte
  BY DEF Machine!Byte, Byte
<1>4. StackView = << >>
  <2>1. ~Ended /\ sp = 0 /\ ~inside
    BY DEF Init, Ended
  <2>2. StackView = SubSeq(mstk, 1, 0) \o << >>
    BY <2>1 DEF StackView
  <2>3. SubSeq(mstk, 1, 0) = << >>
    BY SubSeqEmpty
  <2> QED BY <2>2, <2>3
<1> QED BY <1>1, <1>2, <1>3, <1>4 DEF Machine!Init

\* The instructions reached from a position by going on from each to the next.
Onward(c, S) == \A r \in S : r < Len(c) => NextPc(c, r) \in S
After(c, p) ==
  {q \in 0..(Len(c) - 1) : \A S \in SUBSET (0..Len(c)) : p \in S /\ Onward(c, S) => q \in S}

\* They are the position itself and those after the next one.
LEMMA AfterStep ==
  ASSUME NEW c \in Seq(Byte), NEW p \in 0..Len(c)
  PROVE  After(c, p) = IF p = Len(c) THEN {} ELSE {p} \union After(c, NextPc(c, p))
<1>1. Len(c) \in Nat
  OBVIOUS
<1>2. CASE p = Len(c)
  <2>1. {p} \in SUBSET (0..Len(c)) /\ p \in {p} /\ Onward(c, {p})
    BY <1>2 DEF Onward
  <2> QED BY <1>1, <1>2, <2>1 DEF After
<1>3. CASE p # Len(c)
  <2> PICK n \in 0..Len(c) : n = NextPc(c, p)
    BY <1>1, <1>3, NextPcBound
  <2>1. ASSUME NEW q \in After(c, p), q # p PROVE q \in After(c, n)
    <3> SUFFICES ASSUME NEW S \in SUBSET (0..Len(c)), n \in S, Onward(c, S) PROVE q \in S
      BY DEF After
    <3> DEFINE T == S \union {p}
    <3>1. T \in SUBSET (0..Len(c)) /\ p \in T /\ Onward(c, T)
      BY DEF Onward
    <3>2. q \in T
      BY <3>1 DEF After
    <3> QED BY <2>1, <3>2
  <2>2. p \in After(c, p)
    BY <1>1, <1>3 DEF After
  <2>3. ASSUME NEW q \in After(c, n) PROVE q \in After(c, p)
    <3> SUFFICES ASSUME NEW S \in SUBSET (0..Len(c)), p \in S, Onward(c, S) PROVE q \in S
      BY DEF After
    <3>1. n \in S
      BY <1>1, <1>3 DEF Onward
    <3> QED BY <3>1 DEF After
  <2>4. After(c, p) = {p} \union After(c, n)
    BY <2>1, <2>2, <2>3
  <2> QED BY <1>3, <2>4
<1> QED BY <1>2, <1>3

\* The EVM's walk over the code finds the targets that the jump table has.
LEMMA MachineDests ==
  ASSUME code \in Seq(Byte)
  PROVE  Machine!JumpDests = ValidJumpDests(code)
<1> DEFINE hi == Len(code)
           Is(f) == f = [p \in 0..Len(code) |->
                           IF p = Len(code) THEN {} ELSE {p} \union f[Machine!NextPc(code, p)]]
           walk == CHOOSE f : Is(f)
<1>1. hi \in Nat
  OBVIOUS
<1>2. \A p \in 0..hi : p < hi => NextPc(code, p) \in (p + 1)..hi
  BY MovesOn
<1>3. \E f : Is(f)
  <2> DEFINE f == [p \in 0..hi |-> After(code, p)]
  <2>1. ASSUME NEW p \in 0..hi
        PROVE  f[p] = IF p = hi THEN {} ELSE {p} \union f[NextPc(code, p)]
    <3>1. After(code, p) = IF p = hi THEN {} ELSE {p} \union After(code, NextPc(code, p))
      BY AfterStep
    <3>2. p # hi => f[NextPc(code, p)] = After(code, NextPc(code, p))
      BY <1>1, <1>2
    <3> QED BY <3>1, <3>2
  <2>2. f = [p \in 0..hi |-> f[p]]
    OBVIOUS
  <2> HIDE DEF f
  <2>3. Is(f)
    BY <2>1, <2>2, SameReading
  <2> QED BY <2>3
<1>4. Is(walk)
  <2> HIDE DEF Is
  <2> QED BY <1>3, Zenon
<1>5. \A p \in 0..hi : walk[p] = IF p = hi THEN {} ELSE {p} \union walk[NextPc(code, p)]
  <2> DEFINE f == walk
  <2>1. Is(f)
    BY <1>4
  <2> HIDE DEF f
  <2>2. \A p \in 0..hi : f[p] = IF p = hi THEN {} ELSE {p} \union f[NextPc(code, p)]
    BY <2>1, SameReading
  <2> QED BY <2>2 DEF f
<1> HIDE DEF walk, Is
<1>6. walk[0] = After(code, 0)
  <2> DEFINE S == {n \in Nat : \A p \in 0..hi : hi - p <= n => walk[p] = After(code, p)}
  <2>1. 0 \in S
    <3> SUFFICES ASSUME NEW p \in 0..hi, hi - p <= 0 PROVE walk[p] = After(code, p)
      OBVIOUS
    <3>1. p = hi
      BY <1>1
    <3> QED BY <1>5, <3>1, AfterStep
  <2>2. ASSUME NEW n \in S PROVE n + 1 \in S
    <3> SUFFICES ASSUME NEW p \in 0..hi, hi - p <= n + 1 PROVE walk[p] = After(code, p)
      OBVIOUS
    <3>1. CASE p = hi
      BY <1>5, <3>1, AfterStep
    <3>2. CASE p # hi
      <4>1. NextPc(code, p) \in 0..hi /\ hi - NextPc(code, p) <= n
        BY <1>1, <1>2, <3>2
      <4>2. walk[NextPc(code, p)] = After(code, NextPc(code, p))
        BY <4>1
      <4>3. walk[p] = {p} \union walk[NextPc(code, p)]
        BY <1>5, <3>2
      <4>4. After(code, p) = {p} \union After(code, NextPc(code, p))
        BY <3>2, AfterStep
      <4> QED BY <4>2, <4>3, <4>4
    <3> QED BY <3>1, <3>2
  <2> HIDE DEF S
  <2>3. S \in SUBSET Nat
    BY DEF S
  <2>4. S = Nat
    BY <2>1, <2>2, <2>3, Induct
  <2>5. hi \in S /\ 0 \in 0..hi /\ hi - 0 <= hi
    BY <1>1, <2>4
  <2> QED BY <2>5 DEF S
<1>7. After(code, 0) = {p \in InstrStarts(code) : p < Len(code)}
  BY <1>1 DEF After, Onward, InstrStarts, ClosedUnderNext
<1>8. Machine!JumpDests = {p \in walk[0] : Machine!OpAt(code, p) = "JUMPDEST"}
  BY DEF Machine!JumpDests, walk, Is
<1> QED BY <1>6, <1>7, <1>8, SameReading DEF ValidJumpDests

(***************************************************************************)
(* The stack that mstk and the registers stand for.                        *)
(***************************************************************************)
Globals == [1..MstkWords -> Nat]
Flat(g, n, l) == SubSeq(g, 1, n) \o [i \in 1..Len(l) |-> l[i].v]

\* It has the words of mstk and, above them, those of the registers.
LEMMA FlatFacts ==
  ASSUME NEW g \in Globals, NEW n \in 0..MstkWords, NEW l \in Seq(Reg)
  PROVE  /\ Flat(g, n, l) \in Seq(Nat) /\ Len(Flat(g, n, l)) = n + Len(l)
         /\ \A i \in 1..(n + Len(l)) : Flat(g, n, l)[i] = IF i <= n THEN g[i] ELSE l[i - n].v
<1> DEFINE low == SubSeq(g, 1, n)
           high == [i \in 1..Len(l) |-> l[i].v]
<1>0. MstkWords \in Nat /\ Len(l) \in Nat /\ n \in Nat
  BY MachineAssumption
<1>1. low \in Seq(Nat) /\ Len(low) = n /\ \A i \in 1..n : low[i] = g[i]
  <2>1. \A i \in 1..n : g[i] \in Nat
    BY <1>0 DEF Globals
  <2>2. PICK m \in Int : m = n
    BY <1>0
  <2>3. /\ SubSeq(g, 1, m) \in Seq(Nat)
        /\ Len(SubSeq(g, 1, m)) = IF 1 <= m THEN m - 1 + 1 ELSE 0
        /\ \A i \in 1..(m - 1 + 1) : SubSeq(g, 1, m)[i] = g[1 + i - 1]
    BY <2>1, <2>2, SubSeqProperties
  <2> QED BY <1>0, <2>2, <2>3
<1>2. high \in Seq(Nat) /\ Len(high) = Len(l) /\ \A i \in 1..Len(l) : high[i] = l[i].v
  <2>1. \A i \in 1..Len(l) : l[i].v \in Nat
    <3>1. \A i \in 1..Len(l) : l[i] \in Reg
      OBVIOUS
    <3> QED BY <3>1 DEF Reg
  <2>2. high \in [1..Len(l) -> Nat]
    BY <2>1
  <2>3. \A i \in 1..Len(l) : high[i] = l[i].v
    OBVIOUS
  <2> HIDE DEF high
  <2>4. high \in Seq(Nat) /\ Len(high) = Len(l)
    BY <1>0, <2>2
  <2> QED BY <2>3, <2>4
<1> HIDE DEF low, high
<1>3. /\ low \o high \in Seq(Nat) /\ Len(low \o high) = n + Len(l)
      /\ \A i \in 1..(n + Len(l)) : (low \o high)[i] = IF i <= n THEN low[i] ELSE high[i - n]
  <2>1. /\ low \o high \in Seq(Nat) /\ Len(low \o high) = Len(low) + Len(high)
        /\ \A i \in 1..(Len(low) + Len(high)) :
             (low \o high)[i] = IF i <= Len(low) THEN low[i] ELSE high[i - Len(low)]
    <3>1. low \in Seq(Nat) /\ high \in Seq(Nat)
      BY <1>1, <1>2
    <3> QED BY <3>1, ConcatProperties
  <2> QED BY <1>1, <1>2, <2>1
<1>4. ASSUME NEW i \in 1..(n + Len(l))
      PROVE  (low \o high)[i] = IF i <= n THEN g[i] ELSE l[i - n].v
  <2>1. i <= n => i \in 1..n
    BY <1>0
  <2>2. ~(i <= n) => i - n \in 1..Len(l)
    BY <1>0
  <2> QED BY <1>1, <1>2, <1>3, <2>1, <2>2
<1> QED BY <1>3, <1>4 DEF Flat, low, high

\* A running contract stands for one.
Held == IF inside THEN locals ELSE << >>
LEMMA ViewIs ==
  ASSUME RunShape, ~Ended
  PROVE  /\ StackView = Flat(mstk, sp, Held)
         /\ mstk \in Globals /\ sp \in 0..MstkWords /\ Held \in Seq(Reg)
<1>1. mstk \in Globals /\ sp \in 0..MstkWords /\ Held \in Seq(Reg)
  BY DEF RunShape, Globals, Held
<1>2. CASE inside
  <2>1. StackView = SubSeq(mstk, 1, sp) \o [i \in 1..Len(locals) |-> locals[i].v]
    BY <1>2 DEF StackView
  <2>2. Held = locals
    BY <1>2 DEF Held
  <2> QED BY <1>1, <2>1, <2>2 DEF Flat
<1>3. CASE ~inside
  <2>1. [i \in 1..Len(Held) |-> Held[i].v] = << >>
    <3>1. Held = << >> /\ Len(Held) = 0
      BY <1>3 DEF Held
    <3>2. 1..Len(Held) = {}
      BY <3>1
    <3> HIDE DEF Held
    <3> QED BY <3>2
  <2>2. StackView = SubSeq(mstk, 1, sp) \o << >>
    BY <1>3 DEF StackView
  <2> QED BY <1>1, <2>1, <2>2 DEF Flat
<1> QED BY <1>1, <1>2, <1>3

\* What a block takes when it starts was on the stack.
LEMMA EnterView ==
  ASSUME NEW g \in Globals, NEW below \in Nat, NEW m \in Nat, NEW k \in Nat,
         NEW l \in Seq(Reg), k <= Len(l), Len(l) <= below + m + k, below + m + k <= MstkWords,
         \A i \in 1..Len(l) : g[below + m + k - Len(l) + i] = l[i].v
  PROVE  Flat(g, below, NewLocals(g, below, m, l, k)) = Flat(g, below + m + k, << >>)
<1>0. MstkWords \in Nat /\ Len(l) \in Nat
  BY MachineAssumption
<1> DEFINE popped == [i \in 1..m |-> [v |-> g[below + i], const |-> FALSE]]
           kept == SubSeq(l, Len(l) - k + 1, Len(l))
           new == NewLocals(g, below, m, l, k)
<1>1. \A i \in 1..m : g[below + i] \in Nat
  BY <1>0 DEF Globals
<1>2. new \in Seq(Reg) /\ Len(new) = m + k
  BY <1>1, EnterLocals
<1>3. popped \in Seq(Reg) /\ Len(popped) = m /\ \A i \in 1..m : popped[i].v = g[below + i]
  <2>1. popped \in [1..m -> Reg]
    BY <1>1 DEF Reg
  <2>2. ASSUME NEW i \in 1..m PROVE popped[i].v = g[below + i]
    <3>1. popped[i] = [v |-> g[below + i], const |-> FALSE]
      OBVIOUS
    <3> HIDE DEF popped
    <3> QED BY <3>1
  <2> HIDE DEF popped
  <2> QED BY <2>1, <2>2
<1>4. kept \in Seq(Reg) /\ Len(kept) = k /\ \A i \in 1..k : kept[i] = l[Len(l) - k + i]
  <2> PICK hi \in Int : hi = Len(l)
    BY <1>0
  <2> HIDE DEF popped, new
  <2>1. PICK lo \in Int : lo = hi - k + 1
    <3>1. hi - k + 1 \in Int
      OBVIOUS
    <3> QED BY <3>1
  <2>2. \A i \in lo..hi : l[i] \in Reg
    BY <2>1
  <2>3. /\ SubSeq(l, lo, hi) \in Seq(Reg) /\ Len(SubSeq(l, lo, hi)) = IF lo <= hi THEN hi - lo + 1 ELSE 0
        /\ \A i \in 1..(hi - lo + 1) : SubSeq(l, lo, hi)[i] = l[lo + i - 1]
    BY <2>2, SubSeqProperties
  <2>4. (IF lo <= hi THEN hi - lo + 1 ELSE 0) = k /\ hi - lo + 1 = k
        /\ \A i \in 1..k : lo + i - 1 = hi - k + i
    BY <2>1
  <2> QED BY <2>1, <2>3, <2>4
<1>5. \A i \in 1..(m + k) : new[i] = IF i <= m THEN popped[i] ELSE kept[i - m]
  <2> HIDE DEF popped, kept
  <2>1. \A i \in 1..(Len(popped) + Len(kept)) :
          (popped \o kept)[i] = IF i <= Len(popped) THEN popped[i] ELSE kept[i - Len(popped)]
    <3>1. popped \in Seq(Reg) /\ kept \in Seq(Reg)
      BY <1>3, <1>4
    <3> QED BY <3>1, ConcatProperties
  <2>2. new = popped \o kept
    BY DEF NewLocals, popped, kept
  <2> HIDE DEF new
  <2> QED BY <1>3, <1>4, <2>1, <2>2
<1> HIDE DEF popped, kept, new
<1>6. ASSUME NEW i \in 1..(m + k) PROVE new[i].v = g[below + i]
  <2>1. CASE i <= m
    BY <1>3, <1>5, <2>1
  <2>2. CASE ~(i <= m)
    <3>1. i - m \in 1..k /\ Len(l) - k + (i - m) \in 1..Len(l)
      BY <1>0, <2>2
    <3>2. new[i] = l[Len(l) - k + (i - m)]
      BY <1>4, <1>5, <2>2, <3>1
    <3>3. below + m + k - Len(l) + (Len(l) - k + (i - m)) = below + i
      BY <1>0
    <3> QED BY <3>1, <3>2, <3>3
  <2> QED BY <2>1, <2>2
<1>7. /\ Flat(g, below, new) \in Seq(Nat) /\ Len(Flat(g, below, new)) = below + m + k
      /\ \A i \in 1..(below + m + k) :
           Flat(g, below, new)[i] = IF i <= below THEN g[i] ELSE new[i - below].v
  <2>1. below \in 0..MstkWords
    BY <1>0
  <2>2. /\ Flat(g, below, new) \in Seq(Nat) /\ Len(Flat(g, below, new)) = below + Len(new)
        /\ \A i \in 1..(below + Len(new)) :
             Flat(g, below, new)[i] = IF i <= below THEN g[i] ELSE new[i - below].v
    BY <1>2, <2>1, FlatFacts
  <2>3. below + Len(new) = below + m + k
    BY <1>2
  <2> QED BY <2>2, <2>3
<1>8. /\ Flat(g, below + m + k, << >>) \in Seq(Nat) /\ Len(Flat(g, below + m + k, << >>)) = below + m + k
      /\ \A i \in 1..(below + m + k) : Flat(g, below + m + k, << >>)[i] = g[i]
  <2>1. below + m + k \in 0..MstkWords
    BY <1>0
  <2>2. << >> \in Seq(Reg) /\ Len(<< >>) = 0
    OBVIOUS
  <2>3. PICK n \in 0..MstkWords : n = below + m + k
    BY <2>1
  <2>4. PICK e \in Seq(Reg) : e = << >> /\ Len(e) = 0
    BY <2>2
  <2>5. /\ Flat(g, n, e) \in Seq(Nat) /\ Len(Flat(g, n, e)) = n + Len(e)
        /\ \A i \in 1..(n + Len(e)) : Flat(g, n, e)[i] = IF i <= n THEN g[i] ELSE e[i - n].v
    BY FlatFacts
  <2> QED BY <2>3, <2>4, <2>5
<1>9. ASSUME NEW i \in 1..(below + m + k)
      PROVE  Flat(g, below, new)[i] = Flat(g, below + m + k, << >>)[i]
  <2>1. CASE i <= below
    BY <1>7, <1>8, <2>1
  <2>2. CASE ~(i <= below)
    <3>1. i - below \in 1..(m + k) /\ below + (i - below) = i
      BY <2>2
    <3> QED BY <1>6, <1>7, <1>8, <2>2, <3>1
  <2> QED BY <2>1, <2>2
<1> QED BY <1>7, <1>8, <1>9, SeqEqual DEF new

\* The registers below the top ones.
Bottom(l, k) == SubSeq(l, 1, Len(l) - k)
LEMMA BottomFacts ==
  ASSUME NEW l \in Seq(Reg), NEW k \in 0..Len(l)
  PROVE  /\ Bottom(l, k) \in Seq(Reg) /\ Len(Bottom(l, k)) = Len(l) - k
         /\ \A i \in 1..(Len(l) - k) : Bottom(l, k)[i] = l[i]
<1>1. Len(l) \in Nat /\ k \in Nat
  OBVIOUS
<1>2. PICK n \in Int : n = Len(l) - k
  BY <1>1
<1>3. \A i \in 1..n : l[i] \in Reg
  BY <1>1, <1>2
<1>4. /\ SubSeq(l, 1, n) \in Seq(Reg) /\ Len(SubSeq(l, 1, n)) = IF 1 <= n THEN n - 1 + 1 ELSE 0
      /\ \A i \in 1..(n - 1 + 1) : SubSeq(l, 1, n)[i] = l[1 + i - 1]
  BY <1>3, SubSeqProperties
<1>5. (IF 1 <= n THEN n - 1 + 1 ELSE 0) = n /\ n - 1 + 1 = n
  BY <1>1, <1>2
<1> QED BY <1>2, <1>4, <1>5 DEF Bottom

\* Pop takes one away.
LEMMA PopIs ==
  ASSUME NEW l \in Seq(Reg), Len(l) >= 1
  PROVE  Pop(l) = Bottom(l, 1) /\ Top(l) = l[Len(l)] /\ Top(l) \in Reg
<1>1. l # << >> /\ Len(l) \in Nat
  OBVIOUS
<1> QED BY <1>1, PopTop DEF Pop, Top, Front, Last, Bottom

\* And another one.
LEMMA BottomTwice ==
  ASSUME NEW l \in Seq(Reg), NEW k \in Nat, k + 1 <= Len(l)
  PROVE  Pop(Bottom(l, k)) = Bottom(l, k + 1) /\ Top(Bottom(l, k)) = l[Len(l) - k]
<1>1. PICK n \in Nat : n = Len(l) /\ k \in 0..n /\ k + 1 \in 0..n
  OBVIOUS
<1>2. PICK b \in Seq(Reg) : b = Bottom(l, k) /\ Len(b) = n - k /\ \A i \in 1..(n - k) : b[i] = l[i]
  BY <1>1, BottomFacts
<1>3. PICK c \in Seq(Reg) : /\ c = Bottom(l, k + 1) /\ Len(c) = n - (k + 1)
                            /\ \A i \in 1..(n - (k + 1)) : c[i] = l[i]
  BY <1>1, BottomFacts
<1>4. PICK m \in Nat : m = n - k /\ m >= 1 /\ m - 1 = n - (k + 1) /\ m \in 1..m /\ 1 \in 0..m
  <2>1. n - k \in Nat /\ n - k >= 1 /\ n - k - 1 = n - (k + 1) /\ n - k \in 1..(n - k) /\ 1 \in 0..(n - k)
    BY <1>1
  <2> QED BY <2>1
<1>5. Pop(b) = Bottom(b, 1) /\ Top(b) = b[m]
  BY <1>2, <1>4, PopIs
<1>6. PICK d \in Seq(Reg) : d = Bottom(b, 1) /\ Len(d) = m - 1 /\ \A i \in 1..(m - 1) : d[i] = b[i]
  <2>1. Len(b) = m /\ 1 \in 0..Len(b)
    BY <1>2, <1>4
  <2> QED BY <2>1, BottomFacts
<1>7. ASSUME NEW i \in 1..(m - 1) PROVE c[i] = d[i]
  <2>1. i \in 1..(n - k) /\ i \in 1..(n - (k + 1))
    BY <1>4
  <2> QED BY <1>2, <1>3, <1>6, <2>1
<1>8. c = d
  BY <1>3, <1>4, <1>6, <1>7, SeqEqual
<1>9. b[m] = l[n - k]
  BY <1>2, <1>4
<1> QED BY <1>1, <1>2, <1>3, <1>5, <1>6, <1>8, <1>9

\* What is left of the stack when registers are popped.
LEMMA FlatBottom ==
  ASSUME NEW g \in Globals, NEW n \in 0..MstkWords, NEW l \in Seq(Reg), NEW k \in 0..Len(l)
  PROVE  LET s == Flat(g, n, l)
         IN  /\ Flat(g, n, Bottom(l, k)) = SubSeq(s, 1, Len(s) - k)
             /\ \A j \in 0..(Len(l) - 1) : s[Len(s) - j] = l[Len(l) - j].v
<1>1. n \in Nat /\ MstkWords \in Nat
  BY MachineAssumption
<1>2. PICK len \in Nat : len = Len(l) /\ k \in 0..len
  OBVIOUS
<1>3. PICK top \in Nat : top = n + len
  BY <1>1
<1>4. PICK m \in Nat : m = top - k /\ m = n + (len - k)
  <2>1. top - k \in Nat /\ top - k = n + (len - k)
    BY <1>1, <1>2, <1>3
  <2> QED BY <2>1
<1>5. PICK b \in Seq(Reg) : b = Bottom(l, k) /\ Len(b) = len - k /\ \A i \in 1..(len - k) : b[i] = l[i]
  BY <1>2, BottomFacts
<1>6. PICK s \in Seq(Nat) : /\ s = Flat(g, n, l) /\ Len(s) = top
        /\ \A i \in 1..top : s[i] = IF i <= n THEN g[i] ELSE l[i - n].v
  BY <1>2, <1>3, FlatFacts
<1>7. PICK t \in Seq(Nat) : /\ t = Flat(g, n, b) /\ Len(t) = m
        /\ \A i \in 1..m : t[i] = IF i <= n THEN g[i] ELSE b[i - n].v
  <2>1. n + Len(b) = m
    BY <1>4, <1>5
  <2> QED BY <2>1, FlatFacts
<1>8. PICK u \in Seq(Nat) : u = SubSeq(s, 1, m) /\ Len(u) = m /\ \A i \in 1..m : u[i] = s[i]
  <2>1. \A i \in 1..m : s[i] \in Nat
    BY <1>2, <1>4, <1>6
  <2>2. /\ SubSeq(s, 1, m) \in Seq(Nat) /\ Len(SubSeq(s, 1, m)) = IF 1 <= m THEN m - 1 + 1 ELSE 0
        /\ \A i \in 1..(m - 1 + 1) : SubSeq(s, 1, m)[i] = s[1 + i - 1]
    BY <2>1, SubSeqProperties
  <2>3. (IF 1 <= m THEN m - 1 + 1 ELSE 0) = m /\ m - 1 + 1 = m
    OBVIOUS
  <2>4. \A i \in 1..m : SubSeq(s, 1, m)[i] = s[i]
    BY <2>2, <2>3
  <2> QED BY <2>2, <2>3, <2>4
<1>9. ASSUME NEW i \in 1..m PROVE t[i] = u[i]
  <2>1. i \in 1..top
    BY <1>2, <1>4
  <2>2. ~(i <= n) => i - n \in 1..(len - k)
    BY <1>1, <1>2, <1>4
  <2> QED BY <1>5, <1>6, <1>7, <1>8, <2>1, <2>2
<1>10. t = u
  BY <1>7, <1>8, <1>9, SeqEqual
<1>11. ASSUME NEW j \in 0..(len - 1) PROVE s[top - j] = l[len - j].v
  <2>1. top - j \in 1..top /\ ~(top - j <= n) /\ (top - j) - n = len - j
    BY <1>1, <1>2, <1>3
  <2> QED BY <1>6, <2>1
<1> QED BY <1>2, <1>4, <1>5, <1>6, <1>7, <1>8, <1>10, <1>11

\* And when one is pushed.
LEMMA FlatAppend ==
  ASSUME NEW g \in Globals, NEW n \in 0..MstkWords, NEW l \in Seq(Reg), NEW x \in Reg
  PROVE  Flat(g, n, Append(l, x)) = Append(Flat(g, n, l), x.v)
<1>1. n \in Nat /\ MstkWords \in Nat /\ x.v \in Nat
  BY MachineAssumption DEF Reg
<1>2. PICK len \in Nat : len = Len(l)
  OBVIOUS
<1>3. PICK top \in Nat : top = n + len /\ top + 1 = n + (len + 1)
  <2>1. n + len \in Nat /\ (n + len) + 1 = n + (len + 1)
    BY <1>1
  <2> QED BY <2>1
<1>4. PICK b \in Seq(Reg) : /\ b = Append(l, x) /\ Len(b) = len + 1
                            /\ b[len + 1] = x /\ \A i \in 1..len : b[i] = l[i]
  <2>1. /\ Append(l, x) \in Seq(Reg) /\ Len(Append(l, x)) = len + 1
        /\ Append(l, x)[len + 1] = x /\ \A i \in 1..len : Append(l, x)[i] = l[i]
    BY <1>2
  <2> QED BY <2>1
<1>5. PICK s \in Seq(Nat) : /\ s = Flat(g, n, l) /\ Len(s) = top
        /\ \A i \in 1..top : s[i] = IF i <= n THEN g[i] ELSE l[i - n].v
  BY <1>2, <1>3, FlatFacts
<1>6. PICK t \in Seq(Nat) : /\ t = Flat(g, n, b) /\ Len(t) = top + 1
        /\ \A i \in 1..(top + 1) : t[i] = IF i <= n THEN g[i] ELSE b[i - n].v
  <2>1. n + Len(b) = top + 1
    BY <1>3, <1>4
  <2> QED BY <2>1, FlatFacts
<1>7. PICK u \in Seq(Nat) : /\ u = Append(s, x.v) /\ Len(u) = top + 1
                            /\ u[top + 1] = x.v /\ \A i \in 1..top : u[i] = s[i]
  <2>1. PICK y \in Nat : y = x.v
    BY <1>1
  <2>2. /\ Append(s, y) \in Seq(Nat) /\ Len(Append(s, y)) = top + 1
        /\ Append(s, y)[top + 1] = y /\ \A i \in 1..top : Append(s, y)[i] = s[i]
    BY <1>5
  <2> QED BY <2>1, <2>2
<1>8. ASSUME NEW i \in 1..(top + 1) PROVE t[i] = u[i]
  <2>1. CASE i = top + 1
    <3>1. ~(i <= n) /\ i - n = len + 1
      BY <1>1, <1>3, <2>1
    <3> QED BY <1>4, <1>6, <1>7, <2>1, <3>1
  <2>2. CASE i # top + 1
    <3>1. i \in 1..top /\ (~(i <= n) => i - n \in 1..len)
      BY <1>1, <1>3, <2>2
    <3>2. ~(i <= n) => b[i - n] = l[i - n]
      BY <1>4, <3>1, Zenon
    <3>3. t[i] = IF i <= n THEN g[i] ELSE b[i - n].v
      BY <1>6, Zenon
    <3>4. s[i] = (IF i <= n THEN g[i] ELSE l[i - n].v) /\ u[i] = s[i]
      BY <1>5, <1>7, <3>1, Zenon
    <3> QED BY <3>2, <3>3, <3>4, Zenon
  <2> QED BY <2>1, <2>2
<1>9. t = u
  BY <1>6, <1>7, <1>8, SeqEqual
<1> QED BY <1>4, <1>5, <1>6, <1>7, <1>9

\* And when two are exchanged.
Exchanged(s, k) == [s EXCEPT ![Len(s)] = s[Len(s) - k], ![Len(s) - k] = s[Len(s)]]
LEMMA FlatSwap ==
  ASSUME NEW g \in Globals, NEW n \in 0..MstkWords, NEW l \in Seq(Reg), NEW j \in Nat,
         j + 2 <= Len(l)
  PROVE  Flat(g, n, swap(l, j)) = Exchanged(Flat(g, n, l), j + 1)
<1> DEFINE k == j + 1
<1>a. PICK s : s = Flat(g, n, l)
  OBVIOUS
<1> DEFINE top == Len(s)
<1>0. k \in Nat \ {0} /\ k + 1 <= Len(l) /\ k - 1 = j
  OBVIOUS
<1> HIDE DEF k
<1>1. Len(l) \in Nat /\ n \in Nat /\ MstkWords \in Nat
  BY MachineAssumption
<1>2. PICK len \in Nat : len = Len(l)
  BY <1>1
<1>3. PICK b \in Seq(Reg) :
        /\ b = swap(l, k - 1) /\ Len(b) = len
        /\ \A i \in 1..len : b[i] = IF i = len THEN l[len - k] ELSE IF i = len - k THEN l[len] ELSE l[i]
  <2>1. swap(l, k - 1) = [l EXCEPT ![len] = l[len - k], ![len - k] = l[len]]
    <3>1. ~(Len(l) <= (k - 1) + 1) /\ Len(l) - (k - 1) - 1 = len - k
      BY <1>0, <1>1, <1>2
    <3> QED BY <1>2, <3>1 DEF swap
  <2>2. len \in 1..len /\ len - k \in 1..len /\ len # len - k
    BY <1>0, <1>2
  <2>3. l \in [1..len -> Reg] /\ l[len] \in Reg /\ l[len - k] \in Reg
    BY <1>2, <2>2
  <2>4. PICK b : b = [l EXCEPT ![len] = l[len - k], ![len - k] = l[len]]
    OBVIOUS
  <2>5. b \in [1..len -> Reg]
        /\ \A i \in 1..len : b[i] = IF i = len THEN l[len - k] ELSE IF i = len - k THEN l[len] ELSE l[i]
    BY <2>2, <2>3, <2>4
  <2>6. b \in Seq(Reg) /\ Len(b) = len
    BY <2>5
  <2> QED BY <2>1, <2>4, <2>5, <2>6
<1>4. /\ s \in Seq(Nat) /\ Len(s) = n + len
      /\ \A i \in 1..(n + len) : s[i] = IF i <= n THEN g[i] ELSE l[i - n].v
  BY <1>a, <1>2, FlatFacts
<1>5. PICK t \in Seq(Nat) : /\ t = Flat(g, n, b) /\ Len(t) = n + len
        /\ \A i \in 1..(n + len) : t[i] = IF i <= n THEN g[i] ELSE b[i - n].v
  BY <1>3, FlatFacts
<1>6. top \in Nat /\ top = n + len
  BY <1>1, <1>4 DEF top
<1> HIDE DEF top
<1>7. top \in 1..top /\ top - k \in 1..top /\ top # top - k /\ ~(top <= n) /\ ~(top - k <= n)
      /\ top - n = len /\ (top - k) - n = len - k /\ len \in 1..len /\ len - k \in 1..len
  BY <1>0, <1>1, <1>2, <1>6
<1>8. PICK u \in Seq(Nat) :
        /\ u = [s EXCEPT ![top] = s[top - k], ![top - k] = s[top]] /\ Len(u) = top
        /\ \A i \in 1..top : u[i] = IF i = top THEN s[top - k] ELSE IF i = top - k THEN s[top] ELSE s[i]
  <2>1. s \in [1..top -> Nat] /\ s[top] \in Nat /\ s[top - k] \in Nat
    <3>1. s \in Seq(Nat) /\ Len(s) = top
      BY <1>4, <1>6
    <3>2. s \in [1..top -> Nat]
      BY <3>1
    <3> QED BY <1>7, <3>2
  <2>2. PICK u : u = [s EXCEPT ![top] = s[top - k], ![top - k] = s[top]]
    OBVIOUS
  <2>3. u \in [1..top -> Nat]
        /\ \A i \in 1..top : u[i] = IF i = top THEN s[top - k] ELSE IF i = top - k THEN s[top] ELSE s[i]
    BY <1>7, <2>1, <2>2
  <2>4. top \in Nat
    BY <1>6
  <2>5. u \in [1..top -> Nat]
    BY <2>3
  <2>6. u \in Seq(Nat) /\ Len(u) = top
    BY <2>4, <2>5
  <2> QED BY <2>2, <2>3, <2>6
<1>9. ASSUME NEW i \in 1..top PROVE t[i] = u[i]
  <2>1. s[top] = l[len].v /\ s[top - k] = l[len - k].v
    BY <1>4, <1>6, <1>7
  <2>0. b[len] = l[len - k] /\ b[len - k] = l[len]
    <3>1. len # len - k
      BY <1>0
    <3> QED BY <1>3, <1>7, <3>1
  <2>0a. t[top] = b[len].v /\ t[top - k] = b[len - k].v
    BY <1>5, <1>6, <1>7
  <2>2. CASE i = top
    BY <1>8, <2>0, <2>0a, <2>1, <2>2
  <2>3. CASE i = top - k
    <3>1. u[top - k] = s[top]
      BY <1>7, <1>8
    <3> QED BY <2>0, <2>0a, <2>1, <2>3, <3>1
  <2>4. CASE i # top /\ i # top - k
    <3>1. ~(i <= n) => i - n \in 1..len /\ i - n # len /\ i - n # len - k
      BY <1>0, <1>1, <1>6, <2>4
    <3>2. u[i] = s[i]
      BY <1>8, <2>4
    <3>3. ~(i <= n) => b[i - n] = l[i - n]
      BY <1>3, <3>1
    <3> QED BY <1>4, <1>5, <1>6, <3>2, <3>3
  <2> QED BY <2>2, <2>3, <2>4
<1>10. Len(t) = Len(u)
  BY <1>5, <1>6, <1>8
<1>11. t = u
  BY <1>8, <1>9, <1>10, SeqEqual
<1> QED BY <1>a, <1>0, <1>3, <1>5, <1>8, <1>11 DEF Exchanged, top, k

\* The instructions that stay in their block, and what the EVM does with its
\* stack for each of them.
Plain == {"POP", "ADD", "GAS", "JUMPDEST", "PUSH1", "PUSH2", "DUP1", "DUP2", "SWAP1", "SWAP2", "CODECOPY"}

EvmResult(op, p, s, v) ==
  CASE op = "POP" -> SubSeq(s, 1, Len(s) - 1)
    [] op = "CODECOPY" -> SubSeq(s, 1, Len(s) - 3)
    [] op = "ADD" -> Append(SubSeq(s, 1, Len(s) - 2), (s[Len(s)] + s[Len(s) - 1]) % WordSize)
    [] op = "GAS" -> Append(s, v)
    [] op \in {"PUSH1", "PUSH2"} -> Append(s, PushData(code, p))
    [] op \in {"DUP1", "DUP2"} -> Append(s, s[Len(s) - (Rank(op) - 1)])
    [] op \in {"SWAP1", "SWAP2"} -> Exchanged(s, Rank(op))
    [] OTHER -> s

\* compileBasicBlock does to registers what the EVM does to its stack.
LEMMA LowerView ==
  ASSUME code \in Seq(Byte), NEW p \in 0..(Len(code) - 1), NEW op \in Plain, NEW v \in Nat,
         NEW g \in Globals, NEW n \in 0..MstkWords, NEW l \in Seq(Reg), Len(l) >= StackOut(op)
  PROVE  Flat(g, n, Lower(op, p, l, v)) = EvmResult(op, p, Flat(g, n, l), v)
<1>1. PICK len \in Nat : len = Len(l) /\ len >= StackOut(op)
  OBVIOUS
<1>2. PICK s \in Seq(Nat) : s = Flat(g, n, l) /\ Len(s) = n + len
  BY <1>1, FlatFacts
<1>3. PICK top \in Nat : top = Len(s)
  OBVIOUS
<1>4. ASSUME NEW k \in Nat, k <= len
      PROVE  Flat(g, n, Bottom(l, k)) = SubSeq(s, 1, top - k) /\ Bottom(l, k) \in Seq(Reg)
  <2>1. k \in 0..Len(l)
    BY <1>1, <1>4
  <2> QED BY <1>2, <1>3, <2>1, FlatBottom, BottomFacts
<1>5. ASSUME NEW j \in Nat, j < len PROVE s[top - j] = l[len - j].v /\ l[len - j] \in Reg
  <2>1. j \in 0..(Len(l) - 1) /\ 0 \in 0..Len(l) /\ len - j \in 1..Len(l)
    BY <1>1, <1>5
  <2>2. l[len - j] \in Reg
    BY <2>1
  <2> QED BY <1>1, <1>2, <1>3, <2>1, <2>2, FlatBottom
<1>6. CASE op = "POP"
  <2>1. len >= 1
    BY <1>1, <1>6 DEF StackOut
  <2>2. Lower(op, p, l, v) = Bottom(l, 1)
    BY <1>1, <1>6, <2>1, PopIs DEF Lower
  <2> QED BY <1>2, <1>3, <1>4, <1>6, <2>1, <2>2 DEF EvmResult
<1>7. CASE op \in {"ADD", "CODECOPY"}
  <2>1. len >= 2
    BY <1>1, <1>7 DEF StackOut
  <2>2. Pop(l) = Bottom(l, 1) /\ Top(l) = l[len]
    BY <1>1, <2>1, PopIs
  <2>3. Pop(Pop(l)) = Bottom(l, 2) /\ Top(Pop(l)) = l[len - 1]
    BY <1>1, <2>1, <2>2, BottomTwice
  <2>4. CASE op = "CODECOPY"
    <3>1. len >= 3
      BY <1>1, <2>4 DEF StackOut
    <3>2. Pop(Pop(Pop(l))) = Bottom(l, 3)
      BY <1>1, <2>3, <3>1, BottomTwice
    <3>3. Lower(op, p, l, v) = Bottom(l, 3)
      BY <2>4, <3>2 DEF Lower
    <3> QED BY <1>2, <1>3, <1>4, <2>4, <3>1, <3>3 DEF EvmResult
  <2>5. CASE op = "ADD"
    <3>1. PICK a, b : a = l[len] /\ b = l[len - 1]
      OBVIOUS
    <3>2. s[top - 0] = l[len - 0].v /\ l[len - 0] \in Reg /\ s[top - 1] = b.v /\ b \in Reg
      <4>1. 0 \in Nat /\ 0 < len /\ 1 \in Nat /\ 1 < len
        BY <2>1
      <4>2. s[top - 0] = l[len - 0].v /\ l[len - 0] \in Reg
        BY <1>5, <4>1
      <4>3. s[top - 1] = l[len - 1].v /\ l[len - 1] \in Reg
        BY <1>5, <4>1
      <4> QED BY <3>1, <4>2, <4>3
    <3>3. s[top] = a.v /\ a \in Reg
      BY <3>1, <3>2
    <3>4. PICK x \in Reg : /\ x = [v |-> (a.v + b.v) % WordSize, const |-> a.const /\ b.const]
                           /\ x.v = (a.v + b.v) % WordSize
      <4>1. (a.v + b.v) % WordSize \in Nat
        <5>1. a.v \in Nat /\ b.v \in Nat
          BY <3>2, <3>3 DEF Reg
        <5>2. WordSize \in Nat \ {0}
          BY MachineAssumption
        <5>3. \A y, z \in Nat : (y + z) % WordSize \in Nat
          BY <5>2
        <5> QED BY <5>1, <5>3, Zenon
      <4>2. (a.const /\ b.const) \in BOOLEAN
        BY <3>2, <3>3 DEF Reg
      <4>3. PICK y \in Nat, c \in BOOLEAN : y = (a.v + b.v) % WordSize /\ c = (a.const /\ b.const)
        BY <4>1, <4>2
      <4>4. [v |-> y, const |-> c] \in Reg /\ [v |-> y, const |-> c].v = y
        BY DEF Reg
      <4> QED BY <4>3, <4>4
    <3>5. Lower(op, p, l, v) = Append(Bottom(l, 2), x)
      BY <2>2, <2>3, <2>5, <3>1, <3>4 DEF Lower
    <3>6. Flat(g, n, Append(Bottom(l, 2), x)) = Append(SubSeq(s, 1, top - 2), x.v)
      <4>1. Flat(g, n, Bottom(l, 2)) = SubSeq(s, 1, top - 2) /\ Bottom(l, 2) \in Seq(Reg)
        BY <1>4, <2>1
      <4>2. Flat(g, n, Append(Bottom(l, 2), x)) = Append(Flat(g, n, Bottom(l, 2)), x.v)
        BY <4>1, FlatAppend, Zenon
      <4> QED BY <4>1, <4>2, Zenon
    <3> QED BY <1>2, <1>3, <2>5, <3>2, <3>3, <3>4, <3>5, <3>6 DEF EvmResult
  <2> QED BY <1>7, <2>4, <2>5
<1>8. CASE op = "GAS"
  <2>1. PICK x \in Reg : x = [v |-> v, const |-> FALSE] /\ x.v = v
    <3>1. [v |-> v, const |-> FALSE] \in Reg
      BY DEF Reg
    <3> QED BY <3>1
  <2>2. Lower(op, p, l, v) = Append(l, x)
    BY <1>8, <2>1 DEF Lower
  <2> QED BY <1>2, <1>8, <2>1, <2>2, FlatAppend DEF EvmResult
<1>9. CASE op \in {"PUSH1", "PUSH2"}
  <2>1. PICK x \in Reg : x = Const(PushData(code, p)) /\ x.v = PushData(code, p)
    <3>1. PICK d \in Nat : d = PushData(code, p)
      BY PushDataNat
    <3>2. Const(d) \in Reg /\ Const(d).v = d
      BY DEF Const, Reg
    <3> QED BY <3>1, <3>2
  <2>2. Lower(op, p, l, v) = Append(l, x)
    BY <1>9, <2>1 DEF Lower
  <2> QED BY <1>2, <1>9, <2>1, <2>2, FlatAppend DEF EvmResult
<1>10. CASE op \in {"DUP1", "DUP2"}
  <2>1. PICK k \in Nat : k = Rank(op) - 1 /\ k < len
    BY <1>1, <1>10 DEF Rank, StackOut
  <2>2. Lower(op, p, l, v) = dup(l, k)
    BY <1>10, <2>1 DEF Lower
  <2>3. dup(l, k) = Append(l, l[len - k])
    BY <1>1, <2>1 DEF dup
  <2>4. s[top - k] = l[len - k].v /\ l[len - k] \in Reg
    BY <1>5, <2>1
  <2>5. Flat(g, n, Append(l, l[len - k])) = Append(s, s[top - k])
    BY <1>2, <2>4, FlatAppend
  <2> QED BY <1>2, <1>3, <1>10, <2>1, <2>2, <2>3, <2>5 DEF EvmResult
<1>11. CASE op \in {"SWAP1", "SWAP2"}
  <2>1. PICK j \in Nat : j = Rank(op) - 1 /\ j + 1 = Rank(op) /\ j + 2 <= len
    BY <1>1, <1>11 DEF Rank, StackOut
  <2>2. Lower(op, p, l, v) = swap(l, j)
    BY <1>11, <2>1 DEF Lower
  <2>3. Flat(g, n, swap(l, j)) = Exchanged(s, j + 1)
    BY <1>1, <1>2, <2>1, FlatSwap
  <2> QED BY <1>2, <1>11, <2>1, <2>2, <2>3 DEF EvmResult
<1>12. CASE op = "JUMPDEST"
  BY <1>2, <1>12 DEF EvmResult, Lower
<1> QED BY <1>6, <1>7, <1>8, <1>9, <1>10, <1>11, <1>12 DEF Plain

\* The last instruction of a block falls through.
FallsOut(b) ==
  \A q \in InstrStarts(code) :
    blocks[b].first <= q /\ q < blocks[b].end /\ NextPc(code, q) = blocks[b].end =>
      OpAt(code, q) \notin NoFallThrough

\* What a block falls through to was not dropped by createBasicBlocks.
LEMMA EntryAfter ==
  ASSUME ScanInv, ~Scanning, NEW b \in 1..Len(blocks), FallsOut(b), blocks[b].end < Len(code)
  PROVE  \E j \in 1..Len(blocks) :
           b < j /\ blocks[j].first <= blocks[b].end /\ blocks[b].end < blocks[j].end
<1>1. BlockFacts
  BY ScanFacts
<1>2. PICK lo, hi \in InstrStarts(code) :
        lo = blocks[b].first /\ hi = blocks[b].end /\ lo < hi /\ lo \in Nat /\ hi \in Nat
  BY <1>1 DEF BlockFacts
<1>3. curr = Len(code) /\ Len(code) \in Nat /\ hi < curr
  BY <1>1, <1>2 DEF ScanInv, ScanShape, Scanning, BlockFacts
<1>4. InBlock(hi)
  <2> SUFFICES ASSUME ~InBlock(hi) PROVE FALSE
    OBVIOUS
  <2>1. PICK q \in InstrStarts(code) :
          q < hi /\ NextPc(code, q) = hi /\ (OpAt(code, q) \in NoFallThrough \/ ~InBlock(q))
    BY <1>2, <1>3 DEF ScanInv, DroppedIsDead
  <2>2. q \in Nat
    BY <1>1 DEF BlockFacts
  <2>3. lo <= q
    <3>1. q < lo => NextPc(code, q) <= lo
      BY <1>1, <1>2, StartsLead DEF BlockFacts, LeadsTo
    <3> QED BY <1>2, <2>1, <2>2, <3>1
  <2>4. InBlock(q)
    BY <1>2, <2>1, <2>3 DEF InBlock
  <2> QED BY <1>2, <2>1, <2>3, <2>4 DEF FallsOut
<1>5. PICK j \in 1..Len(blocks) : blocks[j].first <= hi /\ hi < blocks[j].end
  <2>1. isDead \/ begin = curr
    BY <1>3 DEF ScanInv, Closed
  <2>2. begin \in Nat
    BY DEF ScanInv, ScanShape
  <2> QED BY <1>2, <1>3, <1>4, <2>1, <2>2 DEF InBlock
<1>6. j \in Nat /\ b \in Nat
  BY <1>1 DEF BlockFacts
<1>7. blocks[j].first \in Nat /\ blocks[j].end \in Nat
  BY <1>1, BlockFact
<1>8. j # b
  BY <1>2, <1>5
<1>9. ~(j < b)
  <2>1. j < b => blocks[j].end <= lo
    BY <1>1, <1>2 DEF BlockFacts, Disjoint
  <2> QED BY <1>2, <1>5, <1>7, <2>1
<1> QED BY <1>2, <1>5, <1>6, <1>8, <1>9

\* It is the next block, which begins there.
LEMMA Adjacent ==
  ASSUME ScanInv, ~Scanning, NEW b \in 1..Len(blocks), b < Len(blocks), FallsOut(b)
  PROVE  blocks[b + 1].first = blocks[b].end
<1>1. BlockFacts
  BY ScanFacts
<1>2. PICK hi \in Nat : hi = blocks[b].end
  BY <1>1, BlockFact
<1>3. PICK first, end \in Nat :
        /\ first = blocks[b + 1].first /\ end = blocks[b + 1].end
        /\ first < end /\ end <= Len(code) /\ hi <= first
  <2>1. b + 1 \in 1..Len(blocks) /\ b < b + 1 /\ Len(blocks) \in Nat
    BY <1>1 DEF BlockFacts
  <2>2. /\ blocks[b + 1].first < blocks[b + 1].end /\ blocks[b + 1].first \in Nat
        /\ blocks[b + 1].end \in 0..Len(code) /\ Len(code) \in Nat
    BY <1>1, <2>1 DEF BlockFacts
  <2>3. blocks[b].end <= blocks[b + 1].first
    BY <1>1, <2>1 DEF BlockFacts, Disjoint
  <2> QED BY <1>2, <2>2, <2>3
<1>4. hi < Len(code)
  BY <1>1, <1>2, <1>3 DEF BlockFacts
<1>5. PICK j \in 1..Len(blocks) : b < j /\ blocks[j].first <= hi /\ hi < blocks[j].end
  BY <1>2, <1>4, EntryAfter
<1>6. j \in Nat /\ b \in Nat /\ b + 1 \in 1..Len(blocks) /\ blocks[j].first \in Nat
  BY <1>1, BlockFact DEF BlockFacts
<1>7. ~(b + 1 < j)
  <2>1. b + 1 < j => end <= blocks[j].first
    BY <1>1, <1>3, <1>6 DEF BlockFacts, Disjoint
  <2> QED BY <1>2, <1>3, <1>5, <1>6, <2>1
<1>8. j = b + 1
  BY <1>5, <1>6, <1>7
<1> QED BY <1>2, <1>3, <1>5, <1>8

(***************************************************************************)
(* What the refinement needs besides LifterInv: the registers that a block *)
(* left are also in mstk, and a block runs past no instruction that ends   *)
(* it.                                                                     *)
(***************************************************************************)
Stored ==
  ~inside => /\ Len(locals) <= sp
             /\ \A i \in 1..Len(locals) : mstk[sp - Len(locals) + i] = locals[i].v

Passed ==
  inside /\ status = "running" =>
    \A q \in InstrStarts(code) : blocks[at].first <= q /\ q < pc => OpAt(code, q) \notin Ending

RefInv == LifterInv /\ Stored /\ Passed

\* Both hold at the start: there are no registers and no block has been entered.
LEMMA InitRefInv == Init => RefInv
<1> SUFFICES ASSUME Init PROVE RefInv
  OBVIOUS
<1>1. LifterInv
  BY InitLifterInv
<1>2. ~inside /\ sp = 0 /\ locals = << >> /\ Len(locals) = 0
  BY DEF Init
<1>3. Stored
  BY <1>2 DEF Stored
<1> QED BY <1>1, <1>2, <1>3 DEF RefInv, Passed

\* What storing registers leaves.
LEMMA SpillStores ==
  ASSUME RunShape, NEW l \in Seq(Reg), ~Overflows(l), Spill(l)
  PROVE  /\ sp' = sp + Len(l) /\ locals' = l /\ mstk' \in Globals /\ sp' \in 0..MstkWords
         /\ Len(l) <= sp' /\ sp' - Len(l) = sp
         /\ \A i \in 1..Len(l) : mstk'[sp + i] = l[i].v
         /\ \A i \in 1..sp : mstk'[i] = mstk[i]
<1>1. sp \in Nat /\ MstkWords \in Nat /\ Len(l) \in Nat /\ sp + Len(l) <= MstkWords
  BY MachineAssumption DEF RunShape, Overflows
<1>2. sp' = sp + Len(l) /\ locals' = l
      /\ mstk' = [i \in 1..MstkWords |-> IF sp < i /\ i <= sp + Len(l) THEN l[i - sp].v ELSE mstk[i]]
  BY DEF Spill
<1>3. \A i \in 1..Len(l) : l[i].v \in Nat
  <2>1. \A i \in 1..Len(l) : l[i] \in Reg
    OBVIOUS
  <2> QED BY <2>1 DEF Reg
<1>4. mstk' \in Globals
  <2>1. ASSUME NEW i \in 1..MstkWords
        PROVE  (IF sp < i /\ i <= sp + Len(l) THEN l[i - sp].v ELSE mstk[i]) \in Nat
    <3>1. sp < i /\ i <= sp + Len(l) => i - sp \in 1..Len(l)
      BY <1>1
    <3>2. mstk[i] \in Nat
      BY DEF RunShape
    <3> QED BY <1>3, <3>1, <3>2
  <2> QED BY <1>2, <2>1 DEF Globals
<1>5. ASSUME NEW i \in 1..Len(l) PROVE mstk'[sp + i] = l[i].v
  <2>1. sp + i \in 1..MstkWords /\ sp < sp + i /\ sp + i <= sp + Len(l) /\ (sp + i) - sp = i
    BY <1>1
  <2> QED BY <1>2, <2>1
<1>6. ASSUME NEW i \in 1..sp PROVE mstk'[i] = mstk[i]
  <2>1. i \in 1..MstkWords /\ ~(sp < i)
    BY <1>1
  <2> QED BY <1>2, <2>1
<1>7. sp' \in 0..MstkWords /\ Len(l) <= sp' /\ sp' - Len(l) = sp
  BY <1>1, <1>2
<1> QED BY <1>2, <1>4, <1>5, <1>6, <1>7

\* They hold after a block, whose registers are stored.
LEMMA LeaveStored ==
  ASSUME RunShape, Stored, inside, NEW l \in Seq(Reg), NEW t, NEW branch \in BOOLEAN,
         LeaveBlock(l, t, branch)
  PROVE  Stored' /\ Passed'
<1>1. CASE Corrupt
  BY <1>1 DEF Corrupt, Stored, Passed
<1>2. CASE ~Overflows(l) /\ Spill(l) /\ inside' = FALSE
  <2>1. /\ sp' = sp + Len(l) /\ locals' = l /\ Len(l) <= sp' /\ sp' - Len(l) = sp
        /\ \A i \in 1..Len(l) : mstk'[sp + i] = l[i].v
    BY <1>2, SpillStores
  <2> QED BY <1>2, <2>1 DEF Stored, Passed
<1> QED BY <1>1, <1>2 DEF LeaveBlock

\* And after every step of the compiler and the contract.
LEMMA StepRefInv == RefInv /\ [Next]_vars => RefInv'
<1> SUFFICES ASSUME RefInv, [Next]_vars PROVE RefInv'
  OBVIOUS
<1>1. LifterInv'
  BY StepLifterInv DEF RefInv
<1>2. LifterInv /\ Stored /\ Passed
  BY DEF RefInv
<1>3. CASE UNCHANGED runVars /\ (Scanning \/ UNCHANGED scanVars)
  <2>1. Stored'
    BY <1>2, <1>3 DEF Stored, runVars
  <2>2. Passed'
    <3>1. CASE Scanning
      <4>1. ~inside /\ inside' = inside
        BY <1>2, <1>3, <3>1 DEF LifterInv, Fresh, runVars
      <4> QED BY <4>1 DEF Passed
    <3>2. CASE UNCHANGED scanVars
      BY <1>2, <1>3, <3>2 DEF Passed, runVars, scanVars
    <3> QED BY <1>3, <3>1, <3>2
  <2> QED BY <1>1, <2>1, <2>2 DEF RefInv
<1>4. CASE Run
  <2>1. Live
    BY <1>4 DEF Run, Enter, EnterFrom, Exec, Jump, JumpiTaken, JumpiNotTaken, FallOut, Stop,
               EndExecution
  <2>2. /\ BlockFacts /\ RunShape /\ at \in 1..Len(blocks) /\ status = "running"
        /\ IF inside THEN Within ELSE AtBoundary
    BY <1>2, <2>1, LiveFacts
  <2>3. code' = code /\ blocks' = blocks
    BY <1>4 DEF Run, scanVars
  <2>4. CASE Enter
    <3>1. CASE Corrupt
      BY <1>1, <1>2, <3>1 DEF RefInv, Corrupt, Stored, Passed
    <3>2. CASE inside' = TRUE /\ UNCHANGED <<at, pc, mstk, target, status>> /\ ~inside
      <4>1. pc = blocks[at].first /\ pc \in Nat
        BY <2>2, <3>2 DEF AtBoundary, BlockFacts
      <4>2. \A q \in InstrStarts(code) : q \in Nat
        BY <2>2 DEF BlockFacts
      <4> QED BY <1>1, <2>3, <3>2, <4>1, <4>2 DEF RefInv, Stored, Passed
    <3> QED BY <2>4, <3>1, <3>2 DEF Enter, EnterFrom
  <2>5. CASE Exec
    <3>1. inside /\ inside' = inside /\ at' = at /\ Op \notin Ending /\ pc < blocks[at].end
          /\ pc' = NextPc(code, pc) /\ status' = status
      BY <2>5 DEF Exec
    <3>2. pc \in InstrStarts(code) /\ pc \in Nat /\ pc < Len(code)
      BY <2>2, <3>1 DEF Within, BlockFacts
    <3>3. \A q \in InstrStarts(code) : q <= pc \/ q >= NextPc(code, pc)
      <4>1. LeadsTo(code, pc) /\ code \in Seq(Byte)
        BY <2>2, <3>2, StartsLead DEF BlockFacts
      <4> QED BY <3>2, <4>1, NoGap
    <3>4. NextPc(code, pc) \in Nat /\ \A q \in InstrStarts(code) : q \in Nat
      <4>1. NextPc(code, pc) \in InstrStarts(code)
        BY <2>2, <3>1, <3>2 DEF BlockFacts, Within
      <4> QED BY <2>2, <4>1 DEF BlockFacts
    <3>5. ASSUME NEW q \in InstrStarts(code), blocks[at].first <= q, q < NextPc(code, pc)
          PROVE  OpAt(code, q) \notin Ending
      <4>1. q < pc \/ q = pc
        <5>1. q \in Nat /\ pc \in Nat /\ q <= pc
          <6>1. PICK next \in Nat : next = NextPc(code, pc)
            BY <3>4
          <6>2. q \in Nat /\ pc \in Nat /\ (q <= pc \/ q >= next) /\ q < next
            BY <3>2, <3>3, <3>4, <3>5, <6>1
          <6> QED BY <6>2
        <5> QED BY <5>1
      <4>2. CASE q < pc
        BY <1>2, <2>2, <3>1, <3>5, <4>2 DEF Passed
      <4>3. CASE q = pc
        BY <3>1, <4>3 DEF Op
      <4> QED BY <4>1, <4>2, <4>3
    <3>6. Passed'
      BY <2>3, <3>1, <3>5 DEF Passed, Ending
    <3> QED BY <1>1, <3>1, <3>6 DEF RefInv, Stored
  <2>6. CASE Jump \/ JumpiTaken \/ JumpiNotTaken \/ FallOut \/ Stop
    <3>1. Pop(locals) \in Seq(Reg) /\ Pop(Pop(locals)) \in Seq(Reg) /\ locals \in Seq(Reg)
      BY <2>2, JumpOperands DEF RunShape
    <3>2. inside /\ \E l \in Seq(Reg) : \E t : \E branch \in BOOLEAN : LeaveBlock(l, t, branch)
      <4>1. CASE Jump
        BY <3>1, <4>1 DEF Jump, LeaveBlock
      <4>2. CASE JumpiTaken
        BY <3>1, <4>2 DEF JumpiTaken, LeaveBlock
      <4>3. CASE JumpiNotTaken
        BY <3>1, <4>3 DEF JumpiNotTaken, LeaveBlock
      <4>4. CASE FallOut
        BY <3>1, <4>4 DEF FallOut, LeaveBlock
      <4>5. CASE Stop
        BY <3>1, <4>5 DEF Stop, LeaveBlock
      <4> QED BY <2>6, <4>1, <4>2, <4>3, <4>4, <4>5
    <3> QED BY <1>1, <1>2, <2>2, <3>2, LeaveStored DEF RefInv
  <2>7. CASE EndExecution
    <3>1. inside /\ inside' = inside /\ status' # "running"
      BY <2>7 DEF EndExecution, Outcome
    <3> QED BY <1>1, <3>1 DEF RefInv, Stored, Passed
  <2> QED BY <1>4, <2>4, <2>5, <2>6, <2>7 DEF Run
<1>5. CASE Compile
  BY <1>3, <1>5 DEF Compile, ScanNext, SkipDead, Scan
<1>6. CASE UNCHANGED vars
  BY <1>3, <1>6 DEF vars
<1> QED BY <1>3, <1>4, <1>5, <1>6 DEF Next

\* Without registers the stack is what is in mstk.
LEMMA FlatEmpty ==
  \A g, n : Flat(g, n, << >>) = SubSeq(g, 1, n) \o << >>
<1> SUFFICES ASSUME NEW g, NEW n PROVE Flat(g, n, << >>) = SubSeq(g, 1, n) \o << >>
  OBVIOUS
<1>1. PICK e : e = << >> /\ 1..Len(e) = {}
  OBVIOUS
<1>2. [i \in 1..Len(e) |-> e[i].v] = << >>
  BY <1>1
<1> QED BY <1>1, <1>2 DEF Flat

\* The stack of the next state, when the contract goes on.
LEMMA ViewNext ==
  ASSUME status' \in {"running", "undefined"}
  PROVE  /\ StatusView' = "running"
         /\ inside' = TRUE => StackView' = Flat(mstk', sp', locals')
         /\ inside' = FALSE => StackView' = Flat(mstk', sp', << >>)
<1>1. ~Ended' /\ StatusView' = "running"
  BY DEF Ended, StatusView
<1>2. inside' = TRUE => StackView' = Flat(mstk', sp', locals')
  BY <1>1 DEF StackView, Flat
<1>3. inside' = FALSE => StackView' = Flat(mstk', sp', << >>)
  BY <1>1, FlatEmpty DEF StackView
<1> QED BY <1>1, <1>2, <1>3

\* And when it has ended.
LEMMA ViewEnd ==
  ASSUME status' \in {"finished", "reverted", "trapped"}
  PROVE  /\ StackView' = << >>
         /\ StatusView' = IF status' = "finished" THEN "finished" ELSE "undone"
BY DEF Ended, StatusView, StackView

\* And of this one, when the contract is inside a block.
LEMMA ViewNow ==
  ASSUME RunShape, status = "running"
  PROVE  /\ StatusView = "running" /\ mstk \in Globals /\ sp \in 0..MstkWords /\ sp \in Nat
         /\ locals \in Seq(Reg) /\ Len(locals) \in Nat
         /\ inside => /\ StackView = Flat(mstk, sp, locals) /\ StackView \in Seq(Nat)
                      /\ Len(StackView) = sp + Len(locals)
         /\ ~inside => StackView = Flat(mstk, sp, << >>)
<1>1. ~Ended /\ StatusView = "running"
  BY DEF Ended, StatusView
<1>2. /\ StackView = Flat(mstk, sp, Held)
      /\ mstk \in Globals /\ sp \in 0..MstkWords /\ Held \in Seq(Reg)
  BY <1>1, ViewIs
<1>3. sp \in Nat /\ locals \in Seq(Reg) /\ Len(locals) \in Nat
  BY MachineAssumption DEF RunShape
<1>4. inside => StackView \in Seq(Nat) /\ Len(StackView) = sp + Len(locals)
  BY <1>2, FlatFacts DEF Held
<1> QED BY <1>1, <1>2, <1>3, <1>4 DEF Held

\* A contract that leaves mstk does nothing more.
LEMMA CorruptView ==
  ASSUME status = "running", Corrupt, code' = code
  PROVE  UNCHANGED Machine!vars
<1>1. StackView' = StackView /\ StatusView' = StatusView
  BY DEF Corrupt, StackView, StatusView, Ended
<1> QED BY <1>1 DEF Machine!vars, Corrupt

\* Storing the registers leaves the stack as it is.
LEMMA SpillView ==
  ASSUME RunShape, NEW l \in Seq(Reg), ~Overflows(l), Spill(l)
  PROVE  Flat(mstk', sp', << >>) = Flat(mstk, sp, l)
<1>1. PICK g \in Globals, n \in 0..MstkWords : g = mstk /\ n = sp
  BY DEF RunShape, Globals
<1>2. PICK h \in Globals, m \in 0..MstkWords : h = mstk' /\ m = sp'
  BY SpillStores
<1>3. /\ n \in Nat /\ m \in Nat /\ Len(l) \in Nat /\ m = n + Len(l)
      /\ \A i \in 1..Len(l) : h[n + i] = l[i].v
      /\ \A i \in 1..n : h[i] = g[i]
  BY <1>1, <1>2, SpillStores, MachineAssumption
<1>4. PICK s \in Seq(Nat) : /\ s = Flat(g, n, l) /\ Len(s) = m
                            /\ \A i \in 1..m : s[i] = IF i <= n THEN g[i] ELSE l[i - n].v
  BY <1>3, FlatFacts
<1>5. PICK t \in Seq(Nat) : t = Flat(h, m, << >>) /\ Len(t) = m /\ \A i \in 1..m : t[i] = h[i]
  <2>0. << >> \in Seq(Reg) /\ Len(<< >>) = 0
    OBVIOUS
  <2>1. PICK e \in Seq(Reg) : e = << >> /\ Len(e) = 0
    BY <2>0
  <2>2. /\ Flat(h, m, e) \in Seq(Nat) /\ Len(Flat(h, m, e)) = m + Len(e)
        /\ \A i \in 1..(m + Len(e)) : Flat(h, m, e)[i] = IF i <= m THEN h[i] ELSE e[i - m].v
    BY FlatFacts
  <2>3. m + Len(e) = m /\ \A i \in 1..m : i <= m
    BY <1>3, <2>1
  <2> QED BY <2>1, <2>2, <2>3
<1>6. ASSUME NEW i \in 1..m PROVE s[i] = t[i]
  <2>1. CASE i <= n
    BY <1>3, <1>4, <1>5, <2>1
  <2>2. CASE ~(i <= n)
    <3>1. i - n \in 1..Len(l) /\ n + (i - n) = i
      BY <1>3, <2>2
    <3> QED BY <1>3, <1>4, <1>5, <2>2, <3>1
  <2> QED BY <2>1, <2>2
<1>7. s = t
  BY <1>4, <1>5, <1>6, SeqEqual
<1> QED BY <1>1, <1>2, <1>4, <1>5, <1>7

\* Entering a block moves items from mstk to registers: no step of the EVM.
LEMMA EnterRefines ==
  ASSUME RefInv, Enter, code' = code
  PROVE  UNCHANGED Machine!vars
<1>0. LifterInv /\ Stored
  BY DEF RefInv
<1>1. Live /\ ~inside
  BY DEF Enter, EnterFrom
<1>2. /\ CompileInv /\ RunShape /\ at \in 1..Len(blocks) /\ status = "running"
      /\ StkIn(at) \in Nat /\ AtBoundary
  BY <1>0, <1>1, LiveFacts
<1>3. Handed(at, Taken(at))
  <2>1. CASE at \in DOMAIN taken
    BY <1>2, <2>1 DEF CompileInv, Taken
  <2>2. CASE at \notin DOMAIN taken
    BY <1>2, <2>2 DEF Taken, Handed
  <2> QED BY <2>1, <2>2
<1>4. PICK k \in Nat, m \in Nat : k = Taken(at) /\ m = StkIn(at) - k
  <2>1. PICK k \in Nat, need \in Nat : k = Taken(at) /\ need = StkIn(at) /\ k <= need
    BY <1>2, <1>3 DEF Handed
  <2>2. need - k \in Nat
    BY <2>1
  <2> QED BY <2>1, <2>2
<1>5. CASE Corrupt
  BY <1>2, <1>5, CorruptView
<1>6. CASE ~Corrupt
  <2>1. PICK below \in Nat :
          /\ below + m + k = sp /\ sp' = below /\ inside' = TRUE
          /\ locals' = NewLocals(mstk, below, m, locals, k)
          /\ at' = at /\ pc' = pc /\ mstk' = mstk /\ target' = target /\ status' = status
    <3>1. sp \in Nat
      BY <1>2, ViewNow
    <3>2. PICK below \in Int : below = sp - k - m /\ below + m + k = sp
      BY <3>1
    <3>3. /\ below >= 0 /\ sp' = below /\ inside' = TRUE
          /\ locals' = NewLocals(mstk, below, m, locals, k)
          /\ UNCHANGED <<at, pc, mstk, target, status>>
      BY <1>4, <1>6, <3>2 DEF Enter, EnterFrom, NewLocals
    <3>4. below \in Nat
      BY <3>2, <3>3
    <3> QED BY <3>2, <3>3, <3>4
  <2>2. k <= Len(locals) /\ locals \in Seq(Reg) /\ Len(locals) \in Nat
    <3>1. locals \in Seq(Reg) /\ Len(locals) \in Nat
      BY <1>2 DEF RunShape
    <3>2. k = 0 \/ (at > 1 /\ FirstOp(at) # "JUMPDEST" /\ k <= LocalsOut(at - 1))
      BY <1>3, <1>4 DEF Handed
    <3>3. at > 1 /\ FirstOp(at) # "JUMPDEST" => Len(locals) = LocalsOut(at - 1)
      BY <1>2 DEF AtBoundary
    <3>4. k = 0 \/ k <= Len(locals)
      BY <3>2, <3>3, Zenon
    <3> QED BY <3>1, <3>4
  <2>3. PICK g \in Globals, l \in Seq(Reg) : g = mstk /\ l = locals
    BY <1>2, ViewNow
  <2>4. Flat(g, below, NewLocals(g, below, m, l, k)) = Flat(g, below + m + k, << >>)
    <3>1. below + m + k \in 0..MstkWords /\ MstkWords \in Nat
      BY <1>2, <2>1, ViewNow, MachineAssumption
    <3>2. /\ k <= Len(l) /\ Len(l) <= below + m + k /\ below + m + k <= MstkWords
          /\ \A i \in 1..Len(l) : g[below + m + k - Len(l) + i] = l[i].v
      BY <1>0, <1>1, <2>1, <2>2, <2>3, <3>1 DEF Stored
    <3> QED BY <3>2, EnterView
  <2>5. StackView' = Flat(mstk', sp', locals') /\ StatusView' = "running"
    BY <1>2, <2>1, ViewNext
  <2>6. StackView = Flat(mstk, sp, << >>) /\ StatusView = "running"
    BY <1>1, <1>2, ViewNow
  <2>7. StackView' = StackView
    BY <2>1, <2>3, <2>4, <2>5, <2>6
  <2> QED BY <2>1, <2>5, <2>6, <2>7 DEF Machine!vars
<1> QED BY <1>5, <1>6

\* The EVM's own step on the stack that the registers stand for.
LEMMA PlainExecutes ==
  ASSUME NEW op \in Plain, NEW v \in Nat, op = "GAS" => v \in Inputs,
         StackView \in Seq(Nat), StackView' = EvmResult(op, pc, StackView, v),
         pc' = NextPc(code, pc), code' = code, StatusView' = StatusView
  PROVE  Machine!Execute(op)
<1>1. Len(StackView) \in Nat
  OBVIOUS
<1>2. \A s : Machine!Continue(s) <=> StackView' = s
  BY SameReading DEF Machine!Continue
<1>3. \A n : Machine!Below(n) = SubSeq(StackView, 1, Len(StackView) - n)
  BY DEF Machine!Below
<1>4. \A n : Machine!Item(n) = StackView[Len(StackView) - n]
  BY DEF Machine!Item
<1>5. Machine!Item(0) = StackView[Len(StackView)]
  BY <1>1, <1>4
<1>6. CASE op = "POP"
  BY <1>2, <1>3, <1>6 DEF Machine!Execute, EvmResult
<1>7. CASE op = "CODECOPY"
  BY <1>2, <1>3, <1>7 DEF Machine!Execute, EvmResult
<1>8. CASE op = "ADD"
  BY <1>2, <1>3, <1>4, <1>5, <1>8 DEF Machine!Execute, EvmResult
<1>9. CASE op = "GAS"
  BY <1>2, <1>9 DEF Machine!Execute, EvmResult
<1>10. CASE op \in {"PUSH1", "PUSH2"}
  BY <1>2, <1>10, SameReading DEF Machine!Execute, EvmResult
<1>11. CASE op \in {"DUP1", "DUP2"}
  BY <1>2, <1>4, <1>11, SameReading DEF Machine!Execute, EvmResult
<1>12. CASE op \in {"SWAP1", "SWAP2"}
  BY <1>2, <1>4, <1>5, <1>12, SameReading DEF Machine!Execute, EvmResult, Exchanged
<1>13. CASE op = "JUMPDEST"
  BY <1>2, <1>13 DEF Machine!Execute, EvmResult
<1> QED BY <1>6, <1>7, <1>8, <1>9, <1>10, <1>11, <1>12, <1>13 DEF Plain

\* Inside a block, before an instruction, the EVM has what the instruction takes.
LEMMA InsideView ==
  ASSUME RefInv, Live, inside, pc < blocks[at].end
  PROVE  /\ ScanInv /\ ~Scanning /\ BlockFacts /\ RunShape /\ at \in 1..Len(blocks)
         /\ status = "running" /\ Within
         /\ code \in Seq(Byte) /\ pc \in 0..(Len(code) - 1) /\ pc < Len(code)
         /\ Machine!OpAt(code, pc) = Op /\ Op \in Ops
         /\ Machine!Running
         /\ Len(locals) \in Nat /\ StackOut(Op) \in Nat /\ StackIn(Op) \in Nat
         /\ Len(locals) >= StackOut(Op)
<1>1. LifterInv
  BY DEF RefInv
<1>2. /\ ~Scanning /\ BlockFacts /\ RunShape /\ at \in 1..Len(blocks) /\ status = "running"
      /\ Within
  BY <1>1, LiveFacts
<1>3. ScanInv
  BY <1>1 DEF LifterInv
<1>4. /\ pc \in 0..(Len(code) - 1) /\ Len(locals) \in Nat /\ StackOut(Op) \in Nat
      /\ StackIn(Op) \in Nat /\ Len(locals) >= StackOut(Op)
  BY <1>2, InsideFacts
<1>5. code \in Seq(Byte) /\ Len(code) \in Nat
  BY <1>2 DEF BlockFacts
<1>6. Op \in Ops
  <2>1. code[pc + 1] \in Byte
    BY <1>4, <1>5
  <2> QED BY <2>1, BytecodeAssumption DEF Op, OpAt
<1>7. Machine!OpAt(code, pc) = Op
  BY SameReading DEF Op
<1>8. Machine!Running
  BY <1>2, ViewNow DEF Machine!Running
<1>9. pc < Len(code)
  BY <1>4, <1>5
<1> QED BY <1>2, <1>3, <1>4, <1>5, <1>6, <1>7, <1>8, <1>9

\* What the refinement takes for granted: the contract does not run off the end
\* of its code, where the source goes to the jump table and the EVM stops, and
\* its stack is one the EVM allows.
RunsOff ==
  /\ Live /\ inside /\ at = Len(blocks)
  /\ pc = blocks[at].end \/ (Op = "JUMPI" /\ Top(Pop(locals)).v = 0)

InBounds == ~RunsOff /\ Len(StackView) <= StackLimit

\* The EVM does not fail the instruction.
LEMMA EvmFits ==
  ASSUME RefInv, InBounds, Live, inside, pc < blocks[at].end,
         \/ StackIn(Op) = 0
         \/ Len(StackView) - StackOut(Op) + StackIn(Op) <= StackLimit
  PROVE  Machine!Fits(Op)
<1>1. /\ RunShape /\ status = "running" /\ Len(locals) \in Nat
      /\ StackOut(Op) \in Nat /\ StackIn(Op) \in Nat /\ Len(locals) >= StackOut(Op)
  BY InsideView
<1>2. sp \in Nat /\ Len(StackView) = sp + Len(locals)
  BY <1>1, ViewNow
<1>3. Len(StackView) <= StackLimit /\ StackLimit \in Nat
  BY MachineAssumption DEF InBounds
<1>4. Len(StackView) >= StackOut(Op) /\ Len(StackView) - StackOut(Op) + StackIn(Op) <= StackLimit
  BY <1>1, <1>2, <1>3
<1>5. Machine!StackOut(Op) = StackOut(Op) /\ Machine!StackIn(Op) = StackIn(Op)
  BY SameReading
<1> QED BY <1>4, <1>5 DEF Machine!Fits

\* An instruction inside a block is the EVM's.
LEMMA ExecRefines ==
  ASSUME RefInv, InBounds, InBounds', Exec, code' = code
  PROVE  Machine!Next
<1>1. /\ Live /\ inside /\ pc < blocks[at].end /\ Op \notin Ending
      /\ inside' = TRUE /\ mstk' = mstk /\ sp' = sp /\ status' = status /\ pc' = NextPc(code, pc)
  BY DEF Exec, RefInv, LifterInv, RunShape
<1>2. PICK v \in Nat : locals' = Lower(Op, pc, locals, v) /\ (Op = "GAS" => v \in Inputs)
  BY MachineAssumption DEF Exec
<1>3. /\ RunShape /\ status = "running" /\ code \in Seq(Byte) /\ pc \in 0..(Len(code) - 1)
      /\ pc < Len(code) /\ Machine!OpAt(code, pc) = Op /\ Op \in Ops /\ Machine!Running
      /\ Len(locals) \in Nat /\ StackOut(Op) \in Nat /\ StackIn(Op) \in Nat
      /\ Len(locals) >= StackOut(Op)
  BY <1>1, InsideView
<1>4. Op \in Plain
  BY <1>1, <1>3 DEF Ops, Ending, Halting, Plain
<1>5. PICK g \in Globals, n \in 0..MstkWords, l \in Seq(Reg) : g = mstk /\ n = sp /\ l = locals
  BY <1>3, ViewNow
<1>6. /\ StackView = Flat(g, n, l) /\ StackView \in Seq(Nat) /\ StatusView = "running"
      /\ Len(StackView) = n + Len(l) /\ n \in Nat
  BY <1>1, <1>3, <1>5, ViewNow
<1>7. StackView' = Flat(g, n, Lower(Op, pc, l, v)) /\ StatusView' = "running"
  BY <1>1, <1>2, <1>3, <1>5, ViewNext
<1>8. StackView' = EvmResult(Op, pc, StackView, v)
  BY <1>3, <1>4, <1>5, <1>6, <1>7, LowerView
<1>9. Machine!Execute(Op)
  BY <1>1, <1>2, <1>4, <1>6, <1>7, <1>8, PlainExecutes
<1>10. Len(StackView') = Len(StackView) - StackOut(Op) + StackIn(Op)
  <2>1. PICK m \in Seq(Reg) : m = Lower(Op, pc, l, v) /\ Len(m) = LeftSize(Op, Len(l))
    BY <1>3, LowerSize
  <2>2. LeftSize(Op, Len(l)) = Len(l) - StackOut(Op) + StackIn(Op)
    <3>1. Op \notin {"JUMP", "JUMPI", "RETURN", "REVERT", "STOP", "SUICIDE", "INVALID"}
      BY <1>1 DEF Ending, Halting
    <3> QED BY <1>3, <1>5, <3>1, LeftBalance
  <2>3. Len(Flat(g, n, m)) = n + Len(m)
    BY FlatFacts
  <2>4. Len(l) \in Nat
    OBVIOUS
  <2> QED BY <1>3, <1>6, <1>7, <2>1, <2>2, <2>3, <2>4
<1>11. Machine!Fits(Op)
  <2>1. Len(StackView') <= StackLimit
    BY DEF InBounds
  <2> QED BY <1>1, <1>10, <2>1, EvmFits
<1> QED BY <1>3, <1>9, <1>11 DEF Machine!Next

\* The operands of a jump are the EVM's, and what is left below them.
LEMMA JumpView ==
  ASSUME RefInv, Live, inside, pc < blocks[at].end, Op \in {"JUMP", "JUMPI"}
  PROVE  /\ Machine!Item(0) = Top(locals).v
         /\ Flat(mstk, sp, Pop(locals)) = Machine!Below(1)
         /\ Op = "JUMPI" => /\ Machine!Item(1) = Top(Pop(locals)).v
                            /\ Flat(mstk, sp, Pop(Pop(locals))) = Machine!Below(2)
<1>1. /\ RunShape /\ status = "running" /\ Len(locals) >= StackOut(Op)
  BY InsideView
<1>2. PICK g \in Globals, n \in 0..MstkWords, l \in Seq(Reg), len \in Nat :
        g = mstk /\ n = sp /\ l = locals /\ len = Len(l) /\ len >= 1 /\ (Op = "JUMPI" => len >= 2)
  BY <1>1, ViewNow DEF StackOut
<1>3. PICK s \in Seq(Nat) : s = StackView /\ s = Flat(g, n, l)
  BY <1>1, <1>2, ViewNow
<1>4. PICK top \in Nat : top = Len(s)
  OBVIOUS
<1>5. ASSUME NEW k \in Nat, k <= len PROVE Flat(g, n, Bottom(l, k)) = SubSeq(s, 1, top - k)
  <2>1. k \in 0..Len(l)
    BY <1>2, <1>5
  <2> QED BY <1>3, <1>4, <2>1, FlatBottom
<1>6. ASSUME NEW j \in Nat, j < len PROVE s[top - j] = l[len - j].v
  <2>1. j \in 0..(Len(l) - 1) /\ 0 \in 0..Len(l)
    BY <1>2, <1>6
  <2>2. \A i \in 0..(Len(l) - 1) : s[Len(s) - i] = l[Len(l) - i].v
    BY <1>3, <2>1, FlatBottom
  <2> QED BY <1>2, <1>4, <2>1, <2>2
<1>7. Pop(l) = Bottom(l, 1) /\ Top(l) = l[len]
  BY <1>2, PopIs
<1>8. Machine!Item(0) = Top(l).v
  <2>1. 0 \in Nat /\ 0 < len /\ len - 0 = len
    BY <1>2
  <2>2. s[top - 0] = l[len].v
    BY <1>6, <2>1
  <2> QED BY <1>3, <1>4, <1>7, <2>2 DEF Machine!Item
<1>9. Flat(g, n, Pop(l)) = Machine!Below(1)
  <2>1. 1 \in Nat /\ 1 <= len
    BY <1>2
  <2> QED BY <1>3, <1>4, <1>5, <1>7, <2>1 DEF Machine!Below
<1>10. CASE Op = "JUMPI"
  <2>1. 2 \in Nat /\ 2 <= len /\ 1 \in Nat /\ 1 < len /\ 1 + 1 <= len
    BY <1>2, <1>10
  <2>2. Pop(Pop(l)) = Bottom(l, 2) /\ Top(Pop(l)) = l[len - 1]
    BY <1>2, <1>7, <2>1, BottomTwice
  <2>3. Machine!Item(1) = Top(Pop(l)).v
    BY <1>3, <1>4, <1>6, <2>1, <2>2 DEF Machine!Item
  <2>4. Flat(g, n, Pop(Pop(l))) = Machine!Below(2)
    BY <1>3, <1>4, <1>5, <2>1, <2>2 DEF Machine!Below
  <2> QED BY <1>2, <1>8, <1>9, <2>3, <2>4
<1> QED BY <1>2, <1>8, <1>9, <1>10

\* A jump goes where the EVM's does, by a case of the jump table or its default.
LEMMA DispatchGoes ==
  ASSUME RefInv, Live, inside, pc < blocks[at].end, code' = code,
         NEW l \in Seq(Reg), ~Overflows(l), Spill(l), inside' = FALSE, NEW p, Dispatch(p)
  PROVE  Machine!Goto(p, Flat(mstk, sp, l))
<1>1. /\ ScanInv /\ ~Scanning /\ RunShape /\ status = "running" /\ code \in Seq(Byte)
  BY InsideView
<1>2. Machine!JumpDests = JumpTable
  BY <1>1, InvJumpTable, MachineDests DEF JumpTableExact
<1>3. StatusView = "running"
  BY <1>1, ViewNow
<1>4. CASE p \in JumpTable
  <2>1. pc' = p /\ status' = status
    BY <1>4 DEF Dispatch
  <2>2. StackView' = Flat(mstk, sp, l) /\ StatusView' = "running"
    BY <1>1, <2>1, ViewNext, SpillView
  <2> QED BY <1>2, <1>3, <1>4, <2>1, <2>2 DEF Machine!Goto
<1>5. CASE p \notin JumpTable
  <2>1. pc' = pc /\ status' = "reverted"
    BY <1>5 DEF Dispatch, Abort
  <2>2. StackView' = << >> /\ StatusView' = "undone"
    BY <2>1, ViewEnd
  <2> QED BY <1>2, <1>5, <2>1, <2>2 DEF Machine!Goto, Machine!Halt
<1> QED BY <1>4, <1>5

\* JUMP, and JUMPI when it jumps, are the EVM's.
LEMMA JumpRefines ==
  ASSUME RefInv, InBounds, Jump \/ JumpiTaken, code' = code
  PROVE  Machine!Next \/ Corrupt
<1>1. Live /\ inside /\ pc < blocks[at].end /\ Op \in {"JUMP", "JUMPI"}
  BY DEF Jump, JumpiTaken
<1>2. /\ RunShape /\ status = "running" /\ pc < Len(code) /\ Machine!OpAt(code, pc) = Op
      /\ Machine!Running
  BY <1>1, InsideView
<1>3. Machine!Fits(Op)
  <2>1. StackIn(Op) = 0
    BY <1>1 DEF StackIn
  <2> QED BY <1>1, <2>1, EvmFits
<1>4. Pop(locals) \in Seq(Reg) /\ Pop(Pop(locals)) \in Seq(Reg)
  BY <1>2, JumpOperands
<1>5. CASE Corrupt
  BY <1>5
<1>6. CASE Jump /\ ~Corrupt
  <2>1. /\ Op = "JUMP" /\ ~Overflows(Pop(locals)) /\ Spill(Pop(locals)) /\ inside' = FALSE
        /\ Dispatch(Top(locals).v)
    BY <1>6 DEF Jump, LeaveBlock
  <2>2. Machine!Goto(Top(locals).v, Flat(mstk, sp, Pop(locals)))
    BY <1>1, <1>4, <2>1, DispatchGoes
  <2>3. Machine!Goto(Machine!Item(0), Machine!Below(1))
    BY <1>1, <2>2, JumpView
  <2>4. Machine!Execute(Op)
    BY <2>1, <2>3 DEF Machine!Execute
  <2> QED BY <1>2, <1>3, <2>4 DEF Machine!Next
<1>7. CASE JumpiTaken /\ ~Corrupt
  <2>1. /\ Op = "JUMPI" /\ ~Overflows(Pop(Pop(locals))) /\ Spill(Pop(Pop(locals))) /\ inside' = FALSE
        /\ Dispatch(Top(locals).v) /\ Top(Pop(locals)).v # 0
    BY <1>7 DEF JumpiTaken, LeaveBlock
  <2>2. Machine!Goto(Top(locals).v, Flat(mstk, sp, Pop(Pop(locals))))
    BY <1>1, <1>4, <2>1, DispatchGoes
  <2>3. Machine!Goto(Machine!Item(0), Machine!Below(2)) /\ Machine!Item(1) # 0
    BY <1>1, <2>1, <2>2, JumpView
  <2>4. Machine!Execute(Op)
    BY <2>1, <2>3 DEF Machine!Execute
  <2> QED BY <1>2, <1>3, <2>4 DEF Machine!Next
<1> QED BY <1>5, <1>6, <1>7

\* A contract that is at the end of a block, or at a JUMPI, is in a block that
\* falls through.
LEMMA AtFallOut ==
  ASSUME RefInv, Live, inside, pc = blocks[at].end \/ Op = "JUMPI"
  PROVE  FallsOut(at)
<1>1. /\ BlockFacts /\ RunShape /\ at \in 1..Len(blocks) /\ status = "running" /\ Within
      /\ Passed
  BY LiveFacts DEF RefInv
<1>2. CASE pc = blocks[at].end
  BY <1>1, <1>2 DEF Passed, FallsOut, NoFallThrough, Ending, Halting
<1>3. CASE pc # blocks[at].end
  <2>1. pc \in Nat /\ pc \in InstrStarts(code) /\ pc < blocks[at].end /\ code \in Seq(Byte)
    <3>1. blocks[at].end \in Nat
      BY <1>1, BlockFact
    <3> QED BY <1>1, <1>3, <3>1 DEF BlockFacts, Within
  <2>2. PICK next \in Nat : /\ next = NextPc(code, pc) /\ next = blocks[at].end
                            /\ \A q \in InstrStarts(code) : q <= pc \/ q >= next
    <3>1. NextPc(code, pc) = blocks[at].end
      BY <1>1, <1>3, <2>1, InsideFacts DEF Leaving
    <3>2. LeadsTo(code, pc) /\ blocks[at].end \in Nat /\ pc < Len(code)
      BY <1>1, <2>1, StartsLead DEF BlockFacts
    <3> QED BY <2>1, <3>1, <3>2, NoGap
  <2>3. ASSUME NEW q \in InstrStarts(code), q < blocks[at].end, NextPc(code, q) = blocks[at].end
        PROVE  OpAt(code, q) \notin NoFallThrough
    <3>1. q \in Nat
      BY <1>1 DEF BlockFacts
    <3>2. q < pc => NextPc(code, q) <= pc
      BY <2>1, StartsLead DEF LeadsTo
    <3>3. q = pc
      <4>1. q <= pc \/ q >= next
        BY <2>2
      <4>2. q < next /\ (q < pc => next <= pc) /\ pc < next
        BY <2>1, <2>2, <2>3, <3>2
      <4> QED BY <2>1, <3>1, <4>1, <4>2
    <3> QED BY <1>3, <3>3 DEF NoFallThrough, Op
  <2> QED BY <2>3 DEF FallsOut
<1> QED BY <1>2, <1>3

\* JUMPI that does not jump goes on to the block after it, as the EVM does, if
\* mstk has room.
LEMMA NotTakenRefines ==
  ASSUME RefInv, InBounds, JumpiNotTaken, code' = code
  PROVE  Machine!Next \/ Corrupt
<1>1. Live /\ inside /\ pc < blocks[at].end /\ Op = "JUMPI" /\ Top(Pop(locals)).v = 0
  BY DEF JumpiNotTaken
<1>2. /\ ScanInv /\ ~Scanning /\ BlockFacts /\ RunShape /\ at \in 1..Len(blocks)
      /\ status = "running" /\ Within /\ code \in Seq(Byte) /\ pc < Len(code)
      /\ Machine!OpAt(code, pc) = Op /\ Machine!Running
  BY <1>1, InsideView
<1>3. Machine!Fits(Op)
  <2>1. StackIn(Op) = 0
    BY <1>1 DEF StackIn
  <2> QED BY <1>1, <2>1, EvmFits
<1>4. Pop(Pop(locals)) \in Seq(Reg)
  BY <1>2, JumpOperands
<1>5. CASE Corrupt
  BY <1>5
<1>6. CASE ~Corrupt
  <2>1. /\ ~Overflows(Pop(Pop(locals))) /\ Spill(Pop(Pop(locals))) /\ inside' = FALSE
        /\ FallThrough(TargetAfter(Top(locals)))
    BY <1>6 DEF JumpiNotTaken, LeaveBlock
  <2>2. at < Len(blocks) /\ Len(blocks) \in Nat
    <3>1. at # Len(blocks)
      BY <1>1 DEF InBounds, RunsOff
    <3>2. Len(blocks) \in Nat
      BY <1>2 DEF BlockFacts
    <3> QED BY <1>2, <3>1, <3>2
  <2>3. pc' = blocks[at + 1].first /\ status' = status
    BY <2>1, <2>2 DEF FallThrough
  <2>4. NextPc(code, pc) = blocks[at].end
    BY <1>1, <1>2, InsideFacts DEF Leaving
  <2>5. FallsOut(at)
    BY <1>1, AtFallOut
  <2>6. pc' = NextPc(code, pc)
    BY <1>2, <2>2, <2>3, <2>4, <2>5, Adjacent
  <2>7. StackView' = Flat(mstk, sp, Pop(Pop(locals))) /\ StatusView' = "running"
    BY <1>2, <1>4, <2>1, <2>3, ViewNext, SpillView
  <2>8. StatusView = "running"
    BY <1>2, ViewNow
  <2>9. Machine!Continue(Machine!Below(2)) /\ Machine!Item(1) = 0
    BY <1>1, <2>6, <2>7, <2>8, JumpView, SameReading DEF Machine!Continue
  <2>10. Machine!Execute(Op)
    BY <1>1, <2>9 DEF Machine!Execute
  <2> QED BY <1>2, <1>3, <2>10 DEF Machine!Next
<1> QED BY <1>5, <1>6

\* Falling through to a JUMPDEST is no step of the EVM.
LEMMA FallOutRefines ==
  ASSUME RefInv, InBounds, FallOut, code' = code
  PROVE  UNCHANGED Machine!vars
<1>1. Live /\ inside /\ pc = blocks[at].end
  BY DEF FallOut
<1>2. /\ ~Scanning /\ BlockFacts /\ RunShape /\ at \in 1..Len(blocks) /\ status = "running"
      /\ ScanInv
  BY <1>1, LiveFacts DEF RefInv, LifterInv
<1>3. CASE Corrupt
  BY <1>2, <1>3, CorruptView
<1>4. CASE ~Corrupt
  <2>1. ~Overflows(locals) /\ Spill(locals) /\ inside' = FALSE /\ FallThrough(target)
    BY <1>4 DEF FallOut, LeaveBlock
  <2>2. at < Len(blocks)
    <3>1. at # Len(blocks)
      BY <1>1 DEF InBounds, RunsOff
    <3>2. Len(blocks) \in Nat
      BY <1>2 DEF BlockFacts
    <3> QED BY <1>2, <3>1, <3>2
  <2>3. pc' = blocks[at + 1].first /\ status' = status
    BY <2>1, <2>2 DEF FallThrough
  <2>4. FallsOut(at)
    BY <1>1, AtFallOut
  <2>5. pc' = pc
    BY <1>1, <1>2, <2>2, <2>3, <2>4, Adjacent
  <2>6. StackView' = Flat(mstk, sp, locals) /\ StatusView' = "running"
    <3>1. locals \in Seq(Reg)
      BY <1>2, ViewNow
    <3> QED BY <1>2, <2>1, <2>3, <3>1, ViewNext, SpillView
  <2>7. StackView = Flat(mstk, sp, locals) /\ StatusView = "running"
    BY <1>1, <1>2, ViewNow
  <2> QED BY <2>5, <2>6, <2>7 DEF Machine!vars
<1> QED BY <1>3, <1>4

\* The end of the contract is the EVM's.
LEMMA StopRefines ==
  ASSUME RefInv, InBounds, Stop \/ EndExecution, code' = code
  PROVE  Machine!Next \/ Corrupt
<1> SUFFICES ASSUME ~Corrupt PROVE Machine!Next
  OBVIOUS
<1>1. /\ Live /\ inside /\ pc < blocks[at].end /\ Op \in Ending \ {"JUMP", "JUMPI"}
      /\ status' = Outcome(Op) /\ pc' = pc
  BY DEF Stop, EndExecution, LeaveBlock, Finish, Outcome, Ending, Halting
<1>2. Machine!OpAt(code, pc) = Op /\ Machine!Running /\ pc < Len(code)
  BY <1>1, InsideView
<1>3. CASE Op = "INVALID"
  <2>1. StackView' = << >> /\ StatusView' = "undone"
    BY <1>1, <1>3, ViewEnd DEF Outcome
  <2> QED BY <1>1, <1>2, <1>3, <2>1 DEF Machine!Next, Machine!Fail, Machine!Halt
<1>4. CASE Op \in {"STOP", "RETURN", "SUICIDE", "REVERT"}
  <2>1. StackView' = << >> /\ StatusView' = IF Op = "REVERT" THEN "undone" ELSE "finished"
    BY <1>1, <1>4, ViewEnd DEF Outcome
  <2>2. Machine!Fits(Op)
    <3>1. StackIn(Op) = 0
      BY <1>4 DEF StackIn
    <3> QED BY <1>1, <3>1, EvmFits
  <2>3. Machine!Execute(Op)
    BY <1>1, <1>4, <2>1 DEF Machine!Execute, Machine!Halt
  <2> QED BY <1>2, <2>2, <2>3 DEF Machine!Next
<1> QED BY <1>1, <1>3, <1>4 DEF Ending, Halting

\* Every step is the EVM's or leaves the EVM where it is.
LEMMA StepEVM ==
  RefInv /\ InBounds /\ InBounds' /\ [Next]_vars => [Machine!Next]_(Machine!vars)
<1> SUFFICES ASSUME RefInv, InBounds, InBounds', [Next]_vars
             PROVE  Machine!Next \/ UNCHANGED Machine!vars
  OBVIOUS
<1>1. CASE UNCHANGED runVars /\ code' = code
  BY <1>1 DEF runVars, Machine!vars, StackView, StatusView, Ended
<1>2. CASE Run
  <2>1. code' = code
    BY <1>2 DEF Run, scanVars
  <2>2. Enter \/ Exec \/ Jump \/ JumpiTaken \/ JumpiNotTaken \/ FallOut \/ Stop
          \/ EndExecution
    BY <1>2 DEF Run
  <2>3. Live /\ Corrupt => UNCHANGED Machine!vars
    BY <2>1, CorruptView DEF Live
  <2>4. Jump \/ JumpiTaken \/ JumpiNotTaken \/ Stop \/ EndExecution => Live
    BY DEF Jump, JumpiTaken, JumpiNotTaken, Stop, EndExecution
  <2> QED BY <2>1, <2>2, <2>3, <2>4, EnterRefines, ExecRefines, JumpRefines, NotTakenRefines,
             FallOutRefines, StopRefines
<1>3. CASE Compile
  BY <1>1, <1>3 DEF Compile, ScanNext, SkipDead, Scan, scanVars
<1>4. CASE UNCHANGED vars
  BY <1>1, <1>4 DEF vars, scanVars
<1> QED BY <1>2, <1>3, <1>4 DEF Next

\* For every bytecode, every size of mstk and everything the environment
\* answers: within the bounds the translated contract does what the EVM does.
THEOREM Refinement == Spec /\ []InBounds => ImplementsEVM
<1>1. Spec => []RefInv
  BY InitRefInv, StepRefInv, PTL DEF Spec
<1> QED BY <1>1, InitEVM, StepEVM, PTL DEF Spec, ImplementsEVM, Machine!Spec

\* Code whose last instruction does not fall through.
Terminated(c) ==
  \A q \in InstrStarts(c) :
    q < Len(c) /\ NextPc(c, q) = Len(c) => OpAt(c, q) \in NoFallThrough

\* Every instruction but the first one follows another one.
LEMMA Follow ==
  ASSUME NEW c \in Seq(Byte), NEW p \in InstrStarts(c), p # 0
  PROVE  \E q \in InstrStarts(c) : q < Len(c) /\ NextPc(c, q) = p
<1> SUFFICES ASSUME \A q \in InstrStarts(c) : q < Len(c) => NextPc(c, q) # p PROVE FALSE
  OBVIOUS
<1> DEFINE S == InstrStarts(c) \ {p}
<1>1. S \in SUBSET (0..Len(c))
  BY StartsMember
<1>2. ClosedUnderNext(c, S)
  BY StartsClosed DEF ClosedUnderNext
<1>3. p \in S
  BY <1>1, <1>2, StartsMember
<1> QED BY <1>3

\* Such code is never left at its end.
LEMMA NeverRunsOff == RefInv /\ Terminated(code) => ~RunsOff
<1> SUFFICES ASSUME RefInv, Terminated(code), RunsOff PROVE FALSE
  OBVIOUS
<1>1. /\ Live /\ inside /\ at = Len(blocks)
      /\ pc = blocks[at].end \/ Op = "JUMPI"
  BY DEF RunsOff
<1>2. ~Scanning /\ BlockFacts /\ at \in 1..Len(blocks) /\ ScanInv
  BY <1>1, LiveFacts DEF RefInv, LifterInv
<1>3. FallsOut(at)
  BY <1>1, AtFallOut
<1>4. PICK lo, hi \in InstrStarts(code) :
        lo = blocks[at].first /\ hi = blocks[at].end /\ lo < hi /\ lo \in Nat /\ hi \in Nat
  BY <1>2 DEF BlockFacts
<1>5. code \in Seq(Byte) /\ Len(code) \in Nat /\ hi <= Len(code)
  BY <1>2, <1>4 DEF BlockFacts
<1>6. CASE hi < Len(code)
  <2>1. \E j \in 1..Len(blocks) : at < j
    BY <1>2, <1>3, <1>4, <1>6, EntryAfter
  <2>2. Len(blocks) \in Nat
    BY <1>2 DEF BlockFacts
  <2> QED BY <1>1, <2>1, <2>2
<1>7. CASE hi = Len(code)
  <2>1. PICK q \in InstrStarts(code) : q < Len(code) /\ NextPc(code, q) = hi
    BY <1>4, <1>5, Follow
  <2>2. q \in Nat
    BY <1>2 DEF BlockFacts
  <2>3. lo <= q
    <3>1. q < lo => NextPc(code, q) <= lo
      BY <1>4, <1>5, StartsLead DEF LeadsTo
    <3> QED BY <1>4, <2>1, <2>2, <3>1
  <2>4. OpAt(code, q) \in NoFallThrough
    BY <1>7, <2>1 DEF Terminated
  <2> QED BY <1>3, <1>4, <1>7, <2>1, <2>3, <2>4 DEF FallsOut
<1> QED BY <1>4, <1>5, <1>6, <1>7

\* For code that ends itself the limit of the stack is all that is left to ask.
THEOREM TerminatedRefinement ==
  Spec /\ Terminated(code) /\ [](Len(StackView) <= StackLimit) => ImplementsEVM
<1>1. Spec => []RefInv
  BY InitRefInv, StepRefInv, PTL DEF Spec
<1>2. Terminated(code) /\ [Next]_vars => Terminated(code)'
  <2>1. [Next]_vars => code' = code
    BY DEF Next, Compile, Run, ScanNext, SkipDead, Scan, scanVars, vars
  <2> QED BY <2>1 DEF Terminated
<1>3. RefInv /\ Terminated(code) /\ Len(StackView) <= StackLimit => InBounds
  BY NeverRunsOff DEF InBounds
<1> QED BY <1>1, <1>2, <1>3, Refinement, PTL DEF Spec

(***************************************************************************)
(* Nothing runs for ever but the EVM itself.                               *)
(***************************************************************************)
\* What the passes of the compiler have left, each while the later ones wait:
\* bytes to scan; blocks to visit, three times each, and entries of dfs; blocks
\* to lower, once more than there are edges each, and entries of the queue.
ScanLeft == Len(code) - curr
DryLeft == 3 * (Len(blocks) - Cardinality(seen)) + Len(dfs)
LowerLeft == (Len(edges) + 1) * (Len(blocks) - Cardinality(DOMAIN taken)) + Len(queue)

\* A step of the compiler: one pass has less left, the passes before it as much.
CompilesOn ==
  \/ ScanLeft' < ScanLeft
  \/ ScanLeft' = ScanLeft /\ DryLeft' < DryLeft
  \/ ScanLeft' = ScanLeft /\ DryLeft' = DryLeft /\ LowerLeft' < LowerLeft

\* The steps of the contract before the next instruction of the EVM.
IdleLeft ==
  IF status # "running" THEN 0
  ELSE IF ~inside THEN 2
  ELSE IF pc = blocks[at].end THEN 3
  ELSE 1

SameCompiler == UNCHANGED <<scanVars, dryVars, lowerVars>>

\* A set of blocks has no more members than there are blocks.
LEMMA CountBlocks ==
  ASSUME NEW n \in Nat, NEW S, S \subseteq 1..n
  PROVE  IsFiniteSet(S) /\ Cardinality(S) \in 0..n
<1>1. IsFiniteSet(1..n) /\ Cardinality(1..n) = n
  BY FS_Interval
<1>2. IsFiniteSet(S) /\ Cardinality(S) <= Cardinality(1..n)
  BY <1>1, FS_Subset
<1>3. Cardinality(S) \in Nat
  BY <1>2, FS_CardinalityType
<1> QED BY <1>1, <1>2, <1>3

\* What is counted: lengths and numbers of blocks.
LEMMA Counts ==
  ASSUME LifterInv
  PROVE  /\ Len(blocks) \in Nat /\ Len(dfs) \in Nat /\ Len(queue) \in Nat /\ Len(edges) \in Nat
         /\ IsFiniteSet(seen) /\ Cardinality(seen) \in 0..Len(blocks)
         /\ IsFiniteSet(DOMAIN taken) /\ Cardinality(DOMAIN taken) \in 0..Len(blocks)
         /\ Len(code) \in Nat /\ curr \in 0..Len(code)
<1>1. Len(blocks) \in Nat /\ Len(code) \in Nat /\ curr \in 0..Len(code)
  BY DEF LifterInv, ScanInv, ScanShape
<1>2. /\ Len(dfs) \in Nat /\ Len(queue) \in Nat /\ Len(edges) \in Nat
      /\ seen \subseteq 1..Len(blocks) /\ DOMAIN taken \subseteq 1..Len(blocks)
  <2>1. CASE Scanning
    <3>1. /\ Len(dfs) = 1 /\ Len(queue) = 1 /\ Len(edges) = 0 /\ seen = {} /\ DOMAIN taken = {}
      BY <2>1 DEF LifterInv, Fresh, DryInit
    <3> QED BY <3>1
  <2>2. CASE ~Scanning
    <3>1. CompileInv
      BY <2>2 DEF LifterInv
    <3>2. PICK D : dfs \in Seq(D)
      BY <3>1 DEF CompileInv, WorkList
    <3> QED BY <3>1, <3>2 DEF CompileInv
  <2> QED BY <2>1, <2>2
<1> QED BY <1>1, <1>2, CountBlocks

\* So what is left is a number.
LEMMA LeftNat ==
  ASSUME LifterInv
  PROVE  ScanLeft \in Nat /\ DryLeft \in Nat /\ LowerLeft \in Nat
<1> PICK L \in Nat, E \in Nat, d \in Nat, q \in Nat :
      L = Len(blocks) /\ E = Len(edges) /\ d = Len(dfs) /\ q = Len(queue)
  BY Counts
<1> PICK s \in 0..L, t \in 0..L : s = Cardinality(seen) /\ t = Cardinality(DOMAIN taken)
  BY Counts
<1>1. ScanLeft \in Nat
  BY Counts DEF ScanLeft
<1>2. 3 * (L - s) + d \in Nat
  OBVIOUS
<1>3. (E + 1) * (L - t) + q \in Nat
  <2>1. PICK r \in Nat : r = L - t
    OBVIOUS
  <2>2. (E + 1) * r \in Nat
    OBVIOUS
  <2>3. PICK m \in Nat : m = (E + 1) * (L - t)
    BY <2>1, <2>2, Zenon
  <2>4. m + q \in Nat
    OBVIOUS
  <2> QED BY <2>3, <2>4, Zenon
<1> QED BY <1>1, <1>2, <1>3 DEF DryLeft, LowerLeft

\* One block of the work list is replaced by two at most.
LEMMA VisitLen ==
  ASSUME NEW s, WorkList(s), s # << >>, NEW b, NEW x, NEW c, NEW y
  PROVE  /\ Len(Front(s)) = Len(s) - 1
         /\ Len(Front(s) \o Visit(b, x)) \in {Len(s) - 1, Len(s)}
         /\ Len(Front(s) \o Visit(b, x) \o Visit(c, y)) \in {Len(s) - 1, Len(s), Len(s) + 1}
<1>1. PICK D : s \in Seq(D)
  BY DEF WorkList
<1>2. PICK n \in Nat \ {0} : n = Len(s)
  BY <1>1, EmptySeq
<1>3. Front(s) \in Seq(D) /\ Len(Front(s)) = n - 1
  <2>1. \A i \in 1..(n - 1) : s[i] \in D
    BY <1>1, <1>2
  <2>2. SubSeq(s, 1, n - 1) \in Seq(D) /\ Len(SubSeq(s, 1, n - 1)) = n - 1
    BY <1>1, <1>2, <2>1, SubSeqProperties
  <2> QED BY <1>2, <2>2 DEF Front
<1> DEFINE R == D \union {[bb |-> b, stk |-> x], [bb |-> c, stk |-> y]}
<1>4. Front(s) \in Seq(R)
  BY <1>3
<1>5. \A z, u : [bb |-> z, stk |-> u] \in R =>
        Visit(z, u) \in Seq(R) /\ (Len(Visit(z, u)) = 0 \/ Len(Visit(z, u)) = 1)
  <2> HIDE DEF R
  <2> SUFFICES ASSUME NEW z, NEW u, [bb |-> z, stk |-> u] \in R
               PROVE  Visit(z, u) \in Seq(R) /\ (Len(Visit(z, u)) = 0 \/ Len(Visit(z, u)) = 1)
    OBVIOUS
  <2>1. PICK d \in R : d = [bb |-> z, stk |-> u]
    OBVIOUS
  <2>2. Visit(z, u) = << >> \/ Visit(z, u) = << d >>
    BY <2>1 DEF Visit
  <2>3. << >> \in Seq(R) /\ Len(<< >>) = 0 /\ << d >> \in Seq(R) /\ Len(<< d >>) = 1
    OBVIOUS
  <2> QED BY <2>2, <2>3, Zenon
<1>6. /\ Visit(b, x) \in Seq(R) /\ (Len(Visit(b, x)) = 0 \/ Len(Visit(b, x)) = 1)
      /\ Visit(c, y) \in Seq(R) /\ (Len(Visit(c, y)) = 0 \/ Len(Visit(c, y)) = 1)
  BY <1>5
<1> HIDE DEF R
<1>7. /\ Front(s) \o Visit(b, x) \in Seq(R)
      /\ Len(Front(s) \o Visit(b, x)) = n - 1 + Len(Visit(b, x))
  BY <1>3, <1>4, <1>6
<1>8. Len(Front(s) \o Visit(b, x) \o Visit(c, y)) = n - 1 + Len(Visit(b, x)) + Len(Visit(c, y))
  BY <1>6, <1>7
<1> PICK k, l : k = Len(Visit(b, x)) /\ l = Len(Visit(c, y))
  OBVIOUS
<1>9. (k = 0 \/ k = 1) /\ (l = 0 \/ l = 1)
  BY <1>6
<1>10. n - 1 + k \in {n - 1, n} /\ n - 1 + k + l \in {n - 1, n, n + 1}
  BY <1>2, <1>9
<1> QED BY <1>2, <1>3, <1>7, <1>8, <1>10

\* A block less to visit makes up for two more entries.
LEMMA ThreeLess ==
  \A L, s, d \in Nat : \A k \in Int : k <= d + 1 => 3 * (L - (s + 1)) + k < 3 * (L - s) + d
  OBVIOUS

\* dry_run has less left after each iteration, however the contract loops.
LEMMA DryFalls ==
  ASSUME LifterInv, DryNext, UNCHANGED <<scanVars, lowerVars, runVars>>
  PROVE  ScanLeft' = ScanLeft /\ DryLeft' < DryLeft
<1>1. ~Scanning /\ dfs # << >>
  BY DEF DryNext, DrySkip, DryVisit
<1>2. code' = code /\ blocks' = blocks /\ curr' = curr
  BY DEF scanVars
<1>3. CompileInv
  BY <1>1 DEF LifterInv
<1>4. WorkList(dfs)
  BY <1>3 DEF CompileInv
<1>5. PICK L \in Nat, d \in Nat, s \in Nat :
        L = Len(blocks) /\ d = Len(dfs) /\ s = Cardinality(seen) /\ s <= L
  BY Counts
<1>6. CASE DrySkip
  <2>1. seen' = seen /\ dfs' = Front(dfs)
    BY <1>6 DEF DrySkip
  <2>2. Len(dfs') = d - 1
    BY <1>1, <1>4, <1>5, <2>1, VisitLen
  <2> QED BY <1>2, <1>5, <2>1, <2>2 DEF ScanLeft, DryLeft
<1>7. CASE DryVisit
  <2> PICK b : b = Last(dfs).bb
    OBVIOUS
  <2> PICK stk : stk = dry_run_bb(b, Last(dfs).stk)
    OBVIOUS
  <2>1. /\ b \notin seen /\ seen' = seen \union {b}
        /\ \/ dfs' = Front(dfs) \o Visit(JumpTarget(stk), balanced_stk(stk, 1, 0))
           \/ dfs' = Front(dfs) \o Visit(Fallout(b), balanced_stk(stk, 2, 0))
                                \o Visit(JumpTarget(stk), balanced_stk(stk, 2, 0))
           \/ dfs' = Front(dfs)
    BY <1>7 DEF DryVisit
  <2>2. Len(dfs') \in {d - 1, d, d + 1}
    <3>1. CASE dfs' = Front(dfs) \o Visit(JumpTarget(stk), balanced_stk(stk, 1, 0))
      BY <1>1, <1>4, <1>5, <3>1, VisitLen
    <3>2. CASE dfs' = Front(dfs) \o Visit(Fallout(b), balanced_stk(stk, 2, 0))
                                 \o Visit(JumpTarget(stk), balanced_stk(stk, 2, 0))
      BY <1>1, <1>4, <1>5, <3>2, VisitLen
    <3>3. CASE dfs' = Front(dfs)
      BY <1>1, <1>4, <1>5, <3>3, VisitLen
    <3> QED BY <2>1, <3>1, <3>2, <3>3
  <2>3. Cardinality(seen') = s + 1
    BY <1>5, <2>1, Counts, FS_AddElement
  <2>4. 3 * (L - (s + 1)) + Len(dfs') < 3 * (L - s) + d
    <3>1. Len(dfs') \in Int /\ Len(dfs') <= d + 1
      BY <1>5, <2>2
    <3> QED BY <1>5, <3>1, ThreeLess, Zenon
  <2> QED BY <1>2, <1>5, <2>3, <2>4 DEF ScanLeft, DryLeft
<1> QED BY <1>6, <1>7 DEF DryNext

\* The lowering has less left after each entry of its queue.
LEMMA LowerFalls ==
  ASSUME LifterInv, LowerSkip \/ LowerBlock, UNCHANGED <<scanVars, dryVars, runVars>>
  PROVE  ScanLeft' = ScanLeft /\ DryLeft' = DryLeft /\ LowerLeft' < LowerLeft
<1>1. ~Scanning /\ queue # << >>
  BY DEF LowerSkip, LowerBlock, DryDone
<1>2. /\ code' = code /\ blocks' = blocks /\ curr' = curr
      /\ seen' = seen /\ dfs' = dfs /\ edges' = edges
  BY DEF scanVars, dryVars
<1>3. ScanLeft' = ScanLeft /\ DryLeft' = DryLeft
  BY <1>2 DEF ScanLeft, DryLeft
<1>4. CompileInv /\ BlockFacts /\ edges \in Seq(Edge) /\ queue \in Seq(Pending)
  BY <1>1, ScanFacts DEF LifterInv, CompileInv
<1>5. PICK L \in Nat, E \in Nat, q \in Nat \ {0}, t \in Nat :
        /\ L = Len(blocks) /\ E = Len(edges) /\ q = Len(queue)
        /\ t = Cardinality(DOMAIN taken) /\ t <= L
  BY <1>1, <1>4, Counts, EmptySeq
<1>6. Tail(queue) \in Seq(Pending) /\ Len(Tail(queue)) = q - 1
  BY <1>1, <1>4, <1>5
<1>7. CASE LowerSkip
  <2>1. taken' = taken /\ Len(queue') = q - 1
    BY <1>6, <1>7 DEF LowerSkip
  <2>2. PICK m \in Nat : m = (E + 1) * (L - t)
    <3>1. PICK r \in Nat : r = L - t
      BY <1>5
    <3>2. (E + 1) * r \in Nat
      BY <1>5
    <3> QED BY <3>1, <3>2
  <2>3. LowerLeft = m + q /\ LowerLeft' = m + (q - 1)
    BY <1>2, <1>5, <2>1, <2>2 DEF LowerLeft
  <2> QED BY <1>3, <1>5, <2>3
<1>8. CASE LowerBlock
  <2> PICK b : b = Head(queue).bb
    OBVIOUS
  <2>1. /\ b # 0 /\ b \notin DOMAIN taken /\ DOMAIN taken' = DOMAIN taken \union {b}
        /\ \E s \in InOrder(Successors(b)) :
             queue' = Tail(queue) \o [i \in DOMAIN s |-> [bb |-> edges[s[i]][2], from |-> b]]
    BY <1>8 DEF LowerBlock
  <2>2. b \in 1..Len(blocks)
    <3>1. Head(queue) \in Pending
      BY <1>1, <1>4
    <3> QED BY <1>4, <2>1, <3>1, RegistersHanded
  <2>3. PICK n \in 0..E : n = Cardinality(Successors(b))
    <3>1. Successors(b) \subseteq 1..E
      BY <1>4, <1>5 DEF Successors
    <3> QED BY <1>5, <3>1, CountBlocks
  <2>4. Len(queue') = q - 1 + n
    <3>1. PICK s \in InOrder(Successors(b)) :
            queue' = Tail(queue) \o [i \in DOMAIN s |-> [bb |-> edges[s[i]][2], from |-> b]]
      BY <2>1
    <3>2. DOMAIN s = 1..n
      BY <2>3 DEF InOrder
    <3>3. PICK more \in Seq(Pending) :
            more = [i \in DOMAIN s |-> [bb |-> edges[s[i]][2], from |-> b]]
      BY <1>4, <2>2, SuccessorsWait
    <3>4. DOMAIN more = 1..n
      BY <3>2, <3>3
    <3>5. Len(more) = n
      BY <2>3, <3>3, <3>4
    <3>6. Len(Tail(queue) \o more) = Len(Tail(queue)) + Len(more)
      BY <1>6, <3>3
    <3> QED BY <1>6, <3>1, <3>3, <3>5, <3>6
  <2>5. Cardinality(DOMAIN taken') = t + 1
    BY <1>5, <2>1, Counts, FS_AddElement
  <2>6. t + 1 \in 0..L
    <3>1. DOMAIN taken' \subseteq 1..L
      BY <1>4, <1>5, <2>1, <2>2 DEF CompileInv
    <3> QED BY <1>5, <2>5, <3>1, CountBlocks
  <2>7. PICK r \in Nat : r = L - (t + 1)
    BY <2>6
  <2>8. PICK m \in Nat : m = (E + 1) * r /\ (E + 1) * (r + 1) = m + E + 1
    <3>1. (E + 1) * r \in Nat /\ (E + 1) * (r + 1) = (E + 1) * r + E + 1
      BY <1>5
    <3> QED BY <3>1
  <2>9. L - t = r + 1
    BY <2>7, <1>5
  <2>10. LowerLeft = m + E + 1 + q /\ LowerLeft' = m + (q - 1 + n)
    BY <1>2, <1>5, <2>4, <2>5, <2>7, <2>8, <2>9 DEF LowerLeft
  <2> QED BY <1>3, <1>5, <2>3, <2>10
<1> QED BY <1>7, <1>8

\* The compiler goes on with every step.
LEMMA CompileFalls ==
  ASSUME LifterInv, Compile
  PROVE  CompilesOn
<1>1. CASE ScanNext
  <2>1. Scanning /\ code' = code /\ curr' = NextPc(code, curr)
    BY <1>1 DEF ScanNext, SkipDead, Scan
  <2>2. code \in Seq(Byte) /\ curr \in 0..Len(code) /\ Len(code) \in Nat
    BY DEF LifterInv, ScanInv, ScanShape
  <2>3. curr' \in 0..Len(code) /\ curr' > curr
    BY <2>1, <2>2, NextPcBound DEF Scanning
  <2> QED BY <2>1, <2>2, <2>3 DEF CompilesOn, ScanLeft
<1> QED BY <1>1, DryFalls, LowerFalls DEF Compile, CompilesOn

\* Entering and leaving blocks ends with an instruction: a block has one.
LEMMA IdleFalls ==
  ASSUME LifterInv, Enter \/ FallOut, SameCompiler
  PROVE  IdleLeft' < IdleLeft
<1>1. Live
  BY DEF Enter, EnterFrom, FallOut
<1>2. /\ BlockFacts /\ RunShape /\ at \in 1..Len(blocks) /\ status = "running"
      /\ IF inside THEN Within ELSE AtBoundary
  BY <1>1, LiveFacts
<1>3. blocks' = blocks
  BY DEF SameCompiler, scanVars
<1>4. CASE Enter
  <2>1. ~inside /\ IdleLeft = 2
    BY <1>2, <1>4 DEF Enter, EnterFrom, IdleLeft
  <2>2. CASE status' = "undefined"
    BY <2>1, <2>2 DEF IdleLeft
  <2>3. CASE inside' = TRUE /\ UNCHANGED <<at, pc, status>>
    <3>1. pc = blocks[at].first /\ blocks[at].first < blocks[at].end
          /\ blocks[at].first \in Nat /\ blocks[at].end \in Nat
      BY <1>2, <2>1, BlockFact DEF AtBoundary
    <3>2. pc # blocks[at].end
      BY <3>1
    <3>3. IdleLeft' = 1
      BY <1>2, <1>3, <2>3, <3>2 DEF IdleLeft
    <3> QED BY <2>1, <3>3
  <2> QED BY <1>4, <2>2, <2>3 DEF Enter, EnterFrom, Corrupt
<1>5. CASE FallOut
  <2>1. inside /\ pc = blocks[at].end
    BY <1>5 DEF FallOut
  <2>2. IdleLeft = 3
    BY <1>2, <2>1 DEF IdleLeft
  <2>3. status' = "undefined" \/ inside' = FALSE
    BY <1>5 DEF FallOut, LeaveBlock, Corrupt
  <2>4. IdleLeft' = 0 \/ IdleLeft' = 2
    BY <2>3 DEF IdleLeft
  <2> QED BY <2>2, <2>4
<1> QED BY <1>4, <1>5

\* A contract that leaves mstk has no step left.
LEMMA CorruptFalls ==
  ASSUME Live, Corrupt
  PROVE  IdleLeft' < IdleLeft
<1>1. IdleLeft \in {1, 2, 3}
  BY DEF Live, IdleLeft
<1>2. IdleLeft' = 0
  BY DEF Corrupt, IdleLeft
<1> QED BY <1>1, <1>2

\* The passes leave the contract alone and the contract leaves them alone, so
\* that the four measures are compared one after the other.
GoesOn == CompilesOn \/ (SameCompiler /\ IdleLeft' < IdleLeft)

\* A step that is none of the EVM's instructions goes on towards one.
LEMMA IdleStep ==
  ASSUME RefInv, InBounds, InBounds', Next
  PROVE  Machine!Next \/ GoesOn
<1>0. LifterInv
  BY DEF RefInv
<1>1. CASE Compile
  BY <1>0, <1>1, CompileFalls DEF GoesOn
<1>2. CASE Run
  <2>1. SameCompiler /\ code' = code
    BY <1>2 DEF Run, SameCompiler, scanVars
  <2>2. CASE Enter \/ FallOut
    BY <1>0, <2>1, <2>2, IdleFalls DEF GoesOn
  <2>3. CASE Exec
    BY <2>1, <2>3, ExecRefines
  <2>4. CASE Jump \/ JumpiTaken \/ JumpiNotTaken \/ Stop \/ EndExecution
    <3>1. Live
      BY <2>4 DEF Jump, JumpiTaken, JumpiNotTaken, Stop, EndExecution
    <3>2. Machine!Next \/ Corrupt
      BY <2>1, <2>4, JumpRefines, NotTakenRefines, StopRefines
    <3> QED BY <2>1, <3>1, <3>2, CorruptFalls DEF GoesOn
  <2> QED BY <1>2, <2>2, <2>3, <2>4 DEF Run
<1> QED BY <1>1, <1>2 DEF Next

\* What is left is a number throughout.
LEMMA AlwaysLeft ==
  Spec => [](ScanLeft \in Nat /\ DryLeft \in Nat /\ LowerLeft \in Nat /\ IdleLeft \in 0..3)
<1>1. IdleLeft \in 0..3
  BY DEF IdleLeft
<1> QED BY <1>1, LeftNat, InitLifterInv, StepLifterInv, PTL DEF Spec

\* For every bytecode the compiler ends: createBasicBlocks, dry_run and the
\* walk that lowers the blocks each have less left after every iteration,
\* although the edges dry_run follows go round the loops of the contract.
THEOREM CompilerEnds ==
  Spec => /\ [](ScanLeft \in Nat /\ DryLeft \in Nat /\ LowerLeft \in Nat)
          /\ [][CompilesOn \/ SameCompiler]_vars
<1>1. LifterInv /\ [Next]_vars => CompilesOn \/ SameCompiler \/ UNCHANGED vars
  BY CompileFalls DEF Next, Run, SameCompiler
<1> QED BY <1>1, AlwaysLeft, InitLifterInv, StepLifterInv, PTL DEF Spec

\* For every bytecode, within the bounds: once compiled, the contract does no
\* more than three steps between two instructions of the EVM, so it never loops
\* where the EVM goes on; NeverHangs is this and that no step is ever missing.
THEOREM NeverIdles ==
  Spec /\ []InBounds => /\ [](IdleLeft \in 0..3)
                       /\ [][Machine!Next \/ GoesOn]_vars
<1>1. Spec => []RefInv
  BY InitRefInv, StepRefInv, PTL DEF Spec
<1>2. RefInv /\ InBounds /\ InBounds' /\ [Next]_vars => Machine!Next \/ GoesOn \/ UNCHANGED vars
  BY IdleStep
<1> QED BY <1>1, <1>2, AlwaysLeft, PTL DEF Spec
=============================================================================
