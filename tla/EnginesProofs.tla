--------------------------- MODULE EnginesProofs ----------------------------
(***************************************************************************)
(* Proofs about message execution and the wasm engines.                    *)
(*                                                                         *)
(* Hera: for every set of accounts, of codes and of initial worlds and for *)
(* every depth of calls.  The safety properties need to know what an       *)
(* activation stands on: which activations wait below it and for what.     *)
(* The inductive invariant says it of each activation (FrameInv), of two   *)
(* neighbours (Waits) and of the answer on its way (AnswerInv); the stack  *)
(* of interfaces follows the stack of activations (InterfaceOfRunning).    *)
(*                                                                         *)
(* Linking: for every number of host instructions and every fault a module *)
(* may have.  The tables are merged from entries of one type each, so what *)
(* they have and whether they have the type of wasm is settled entry by    *)
(* entry (Has, Fits); the inductive invariant says what the engines made   *)
(* of the contract to get where it is (LinkInv).                           *)
(*                                                                         *)
(* MemoryOps: for every size of the address space, the memory and the      *)
(* buffers, the interface's memory operations stay inside the memory and   *)
(* inside the buffers they copy from, and what they store is what they     *)
(* load again.                                                             *)
(***************************************************************************)
EXTENDS Hera, Linking, MemoryOps, TLAPS


(***************************************************************************)
(* The inductive invariant.  mode and metered are the instance's options   *)
(* and tr is the code of the account of evm2wasm.                          *)
(***************************************************************************)

\* One activation: where it stands tells what it has checked.
FrameInv(f, mode, metered, tr) ==
  /\ f.kind = "CREATE" => f.dest \in Users
  /\ f.dest = "evm2wasm" => f.kind = "CALL" /\ f.state = tr
  /\ f.at = "start" => f.meter = TRUE
  /\ f.at = "run" => Loadable(f.run)
  /\ f.at = "runevm" \/ f.meter = FALSE => mode = "runevm" /\ f.isWasm = FALSE
  /\ f.at = "evm2wasm" => mode = "evm2wasm"
  /\ f.at \in {"meterCreate", "meterDeploy"} => f.kind = "CREATE"
  /\ f.at = "run" /\ f.kind = "CREATE" /\ f.isWasm = TRUE /\ metered = TRUE =>
       f.run = "metered"

\* A message of hera's own to a system contract.
Asks(f, address) == f.kind = "CALL" /\ f.dest = address

\* Activation i waits below the activation g.
Waits(i, f, g) ==
  /\ f.at \in {"run", "evm2wasm", "meterCreate", "meterDeploy"}
  /\ f.at = "run" => i + 1 <= MaxCalls
  /\ f.at = "evm2wasm" => Asks(g, "evm2wasm")
  /\ f.at \in {"meterCreate", "meterDeploy"} => Asks(g, "sentinel")

\* Only the system contracts are entered beyond the bound on calls.
Deep(i, f) == i > MaxCalls => IsSystem(f)

StackInv(fs, mode, metered, tr) ==
  /\ fs \in Seq(Frame)
  /\ \A i \in 1..Len(fs) : FrameInv(fs[i], mode, metered, tr) /\ Deep(i, fs[i])
  /\ \A i \in 1..Len(fs) : i < Len(fs) => Waits(i, fs[i], fs[i + 1])

\* What the sentinel answered is metered, or nothing.
AnswerInv(fs, ans) ==
  /\ fs # <<>>
  /\ fs[Len(fs)].at \in {"meterCreate", "meterDeploy"}
  /\ ans.status = "SUCCESS"
  => ans.out \in {"metered", "empty"}

\* One interface for each activation inside an engine, in order.
Tracks(is, fs) ==
  /\ is \in Seq(Nat)
  /\ Ascending(is)
  /\ Range(is) = InEngine(fs)

Inv ==
  /\ HeraTypeOK
  /\ StackInv(frames, evm1mode, metering, world["evm2wasm"])
  /\ AnswerInv(frames, answer)
  /\ Tracks(interfaces, frames)
  /\ TranslatorEnds
  /\ ReplacedOnlyIfSupplied

(***************************************************************************)
(* The stack of activations.                                               *)
(***************************************************************************)

\* What Front (the end of hera_execute) leaves.
LEMMA FrontFacts ==
  ASSUME NEW S, NEW seq \in Seq(S), seq # <<>>
  PROVE  /\ Len(seq) \in Nat \ {0}
         /\ Front(seq) \in Seq(S)
         /\ Len(Front(seq)) = Len(seq) - 1
         /\ \A i \in 1..(Len(seq) - 1) : Front(seq)[i] = seq[i]
PROOF
  <1>1. Len(seq) \in Nat \ {0}
    OBVIOUS
  <1> DEFINE m == Len(seq) - 1
  <1>2. m \in Nat /\ m <= Len(seq)
    BY <1>1
  <1> HIDE DEF m
  <1>3. SubSeq(seq, 1, m) \in Seq(S) /\ Len(SubSeq(seq, 1, m)) = m
    BY <1>1, <1>2
  <1>4. \A i \in 1..m : SubSeq(seq, 1, m)[i] = seq[i]
    BY <1>1, <1>2
  <1> QED
    BY <1>1, <1>2, <1>3, <1>4 DEF Front, m

\* What Append adds.
LEMMA AppendFacts ==
  ASSUME NEW S, NEW seq \in Seq(S), NEW e \in S
  PROVE  /\ Append(seq, e) \in Seq(S)
         /\ Len(Append(seq, e)) = Len(seq) + 1
         /\ \A i \in 1..Len(seq) : Append(seq, e)[i] = seq[i]
         /\ Append(seq, e)[Len(seq) + 1] = e
  OBVIOUS

\* What Replace changes.
LEMMA PutFacts ==
  ASSUME NEW S, NEW seq \in Seq(S), seq # <<>>, NEW e \in S
  PROVE  LET put == [seq EXCEPT ![Len(seq)] = e]
         IN  /\ put \in Seq(S) /\ put # <<>> /\ Len(put) = Len(seq)
             /\ \A i \in 1..Len(seq) : i # Len(seq) => put[i] = seq[i]
             /\ put[Len(seq)] = e
PROOF
  <1> DEFINE put == [seq EXCEPT ![Len(seq)] = e]
  <1>1. Len(seq) \in Nat \ {0} /\ DOMAIN seq = 1..Len(seq)
    OBVIOUS
  <1>2. put \in Seq(S) /\ Len(put) = Len(seq)
    BY <1>1
  <1>2a. put = [i \in 1..Len(seq) |-> IF i = Len(seq) THEN e ELSE seq[i]]
    BY <1>1
  <1>2b. Len(seq) \in 1..Len(seq)
    BY <1>1
  <1>3. put[Len(seq)] = e /\ \A i \in 1..Len(seq) : i # Len(seq) => put[i] = seq[i]
    BY <1>2a, <1>2b, Zenon
  <1>4. put # <<>>
    BY <1>1, <1>2
  <1> QED
    BY <1>2, <1>3, <1>4

\* The end of an activation leaves the ones below as they were.
LEMMA FrontKeeps ==
  ASSUME NEW fs, NEW mode, NEW metered, NEW tr, fs # <<>>,
         StackInv(fs, mode, metered, tr)
  PROVE  StackInv(Front(fs), mode, metered, tr)
PROOF
  <1>1. fs \in Seq(Frame)
    BY DEF StackInv
  <1> DEFINE gs == Front(fs)
             n == Len(fs)
  <1>2. /\ n \in Nat \ {0} /\ gs \in Seq(Frame) /\ Len(gs) = n - 1
        /\ \A i \in 1..(n - 1) : gs[i] = fs[i]
    BY <1>1, FrontFacts
  <1> HIDE DEF gs
  <1>3. \A i \in 1..Len(gs) : i \in 1..n /\ gs[i] = fs[i]
    BY <1>2
  <1>4. ASSUME NEW i \in 1..Len(gs)
        PROVE  FrameInv(gs[i], mode, metered, tr) /\ Deep(i, gs[i])
    BY <1>3 DEF StackInv
  <1>5. ASSUME NEW i \in 1..Len(gs), i < Len(gs)
        PROVE  Waits(i, gs[i], gs[i + 1])
    <2>1. i \in 1..n /\ i < n /\ gs[i] = fs[i]
      BY <1>2, <1>3, <1>5
    <2>2. gs[i + 1] = fs[i + 1]
      BY <1>2, <1>5
    <2> QED
      BY <2>1, <2>2 DEF StackInv
  <1>6. StackInv(gs, mode, metered, tr)
    BY <1>2, <1>4, <1>5 DEF StackInv
  <1> QED
    BY <1>6 DEF gs

\* An activation that moves on for the same message keeps its place.
LEMMA PutKeeps ==
  ASSUME NEW fs, NEW mode, NEW metered, NEW tr, fs # <<>>,
         StackInv(fs, mode, metered, tr),
         NEW f \in Frame, FrameInv(f, mode, metered, tr),
         f.kind = fs[Len(fs)].kind, f.dest = fs[Len(fs)].dest
  PROVE  StackInv([fs EXCEPT ![Len(fs)] = f], mode, metered, tr)
PROOF
  <1>1. fs \in Seq(Frame)
    BY DEF StackInv
  <1> DEFINE gs == [fs EXCEPT ![Len(fs)] = f]
             n == Len(fs)
  <1>2. n \in Nat \ {0}
    BY <1>1
  <1>3. /\ gs \in Seq(Frame) /\ Len(gs) = n
        /\ \A i \in 1..n : i # n => gs[i] = fs[i]
        /\ gs[n] = f
    BY <1>1, PutFacts
  <1> HIDE DEF gs
  <1>4. Deep(n, f)
    <2>1. Deep(n, fs[n])
      BY <1>2 DEF StackInv
    <2> QED
      BY <2>1 DEF Deep, IsSystem
  <1>5. ASSUME NEW i \in 1..Len(gs)
        PROVE  FrameInv(gs[i], mode, metered, tr) /\ Deep(i, gs[i])
    <2>1. CASE i = n
      BY <2>1, <1>3, <1>4
    <2>2. CASE i # n
      BY <2>2, <1>3 DEF StackInv
    <2> QED
      BY <2>1, <2>2
  <1>6. ASSUME NEW i \in 1..Len(gs), i < Len(gs)
        PROVE  Waits(i, gs[i], gs[i + 1])
    <2>1. i \in 1..n /\ i < n /\ i # n /\ i + 1 \in 1..n
      BY <1>2, <1>3, <1>6
    <2>2. Waits(i, fs[i], fs[i + 1]) /\ gs[i] = fs[i]
      BY <2>1, <1>3 DEF StackInv
    <2>3. gs[i + 1].kind = fs[i + 1].kind /\ gs[i + 1].dest = fs[i + 1].dest
      BY <2>1, <1>3
    <2> QED
      BY <2>2, <2>3 DEF Waits, Asks
  <1>7. StackInv(gs, mode, metered, tr)
    BY <1>3, <1>5, <1>6 DEF StackInv
  <1> QED
    BY <1>7 DEF gs

\* The activation that Enter puts on a stack.
Fresh(kind, dest, rev, code) ==
  [at |-> "start", kind |-> kind, dest |-> dest, rev |-> rev,
   state |-> code, run |-> code, isWasm |-> FALSE, meter |-> TRUE]

\* A new activation, above one that may wait for it.
LEMMA EnterKeeps ==
  ASSUME NEW fs, NEW mode, NEW metered, NEW tr,
         StackInv(fs, mode, metered, tr),
         NEW kind \in {"CALL", "CREATE"}, NEW dest \in Address, NEW rev \in Revisions,
         NEW code \in Codes,
         kind = "CREATE" => dest \in Users,
         dest = "evm2wasm" => kind = "CALL" /\ code = tr,
         Deep(Len(fs) + 1, Fresh(kind, dest, rev, code)),
         fs # <<>> => Waits(Len(fs), fs[Len(fs)], Fresh(kind, dest, rev, code))
  PROVE  /\ StackInv(Enter(fs, kind, dest, rev, code), mode, metered, tr)
         /\ Enter(fs, kind, dest, rev, code) # <<>>
         /\ Len(Enter(fs, kind, dest, rev, code)) = Len(fs) + 1
         /\ \A i \in 1..Len(fs) : Enter(fs, kind, dest, rev, code)[i] = fs[i]
         /\ Enter(fs, kind, dest, rev, code)[Len(fs) + 1].at = "start"
PROOF
  <1>1. fs \in Seq(Frame)
    BY DEF StackInv
  <1> DEFINE f == Fresh(kind, dest, rev, code)
             gs == Append(fs, f)
             n == Len(fs)
  <1>2. n \in Nat
    BY <1>1
  <1>3. f \in Frame
    BY DEF Fresh, Frame
  <1>3a. FrameInv(f, mode, metered, tr)
    BY DEF Fresh, FrameInv
  <1>3b. f.at = "start"
    BY DEF Fresh
  <1>3c. Deep(n + 1, f) /\ (fs # <<>> => Waits(n, fs[n], f))
    OBVIOUS
  <1> HIDE DEF f
  <1>4. /\ gs \in Seq(Frame) /\ Len(gs) = n + 1
        /\ \A i \in 1..n : gs[i] = fs[i]
        /\ gs[n + 1] = f
    BY <1>1, <1>3, AppendFacts
  <1> HIDE DEF gs
  <1>5. ASSUME NEW i \in 1..Len(gs)
        PROVE  FrameInv(gs[i], mode, metered, tr) /\ Deep(i, gs[i])
    <2>1. CASE i = n + 1
      BY <2>1, <1>3a, <1>3c, <1>4
    <2>2. CASE i # n + 1
      <3>1. i \in 1..n
        BY <2>2, <1>2, <1>4
      <3> QED
        BY <3>1, <1>4 DEF StackInv
    <2> QED
      BY <2>1, <2>2
  <1>6. ASSUME NEW i \in 1..Len(gs), i < Len(gs)
        PROVE  Waits(i, gs[i], gs[i + 1])
    <2>1. i \in 1..n /\ n # 0 /\ fs # <<>>
      BY <1>1, <1>2, <1>4, <1>6
    <2>2. CASE i = n
      BY <2>1, <2>2, <1>3c, <1>4
    <2>3. CASE i # n
      <3>1. i < n /\ i + 1 \in 1..n
        BY <2>1, <2>3, <1>2
      <3>2. gs[i] = fs[i] /\ gs[i + 1] = fs[i + 1]
        BY <2>1, <3>1, <1>4
      <3> QED
        BY <2>1, <3>1, <3>2 DEF StackInv
    <2> QED
      BY <2>2, <2>3
  <1>7. StackInv(gs, mode, metered, tr)
    BY <1>4, <1>5, <1>6 DEF StackInv
  <1>8. gs # <<>>
    BY <1>2, <1>4
  <1>9. Enter(fs, kind, dest, rev, code) = gs
    BY DEF Enter, gs, f, Fresh
  <1> QED
    BY <1>3b, <1>4, <1>7, <1>8, <1>9

(***************************************************************************)
(* The stack of interfaces.                                                *)
(***************************************************************************)
Within == {"run", "runevm"}

\* An activation that ended, and one that was replaced, disturb only their own place.
LEMMA InEngineFront ==
  ASSUME NEW fs \in Seq(Frame), fs # <<>>
  PROVE  InEngine(Front(fs)) = InEngine(fs) \ {Len(fs)}
PROOF
  <1> DEFINE gs == Front(fs)
             n == Len(fs)
  <1>1. /\ n \in Nat \ {0} /\ gs \in Seq(Frame) /\ Len(gs) = n - 1
        /\ \A i \in 1..(n - 1) : gs[i] = fs[i]
    BY FrontFacts
  <1> HIDE DEF gs
  <1>2. DOMAIN gs = 1..(n - 1) /\ DOMAIN fs = 1..n
    BY <1>1
  <1>3. \A i : i \in 1..(n - 1) <=> i \in 1..n /\ i # n
    BY <1>1
  <1>4. InEngine(gs) = InEngine(fs) \ {n}
    BY <1>1, <1>2, <1>3 DEF InEngine
  <1> QED
    BY <1>4 DEF gs

\* The same for an activation that moves on.
LEMMA InEnginePut ==
  ASSUME NEW fs \in Seq(Frame), fs # <<>>, NEW f \in Frame
  PROVE  /\ f.at \in Within =>
              InEngine([fs EXCEPT ![Len(fs)] = f]) = InEngine(fs) \union {Len(fs)}
         /\ f.at \notin Within =>
              InEngine([fs EXCEPT ![Len(fs)] = f]) = InEngine(fs) \ {Len(fs)}
PROOF
  <1> DEFINE gs == [fs EXCEPT ![Len(fs)] = f]
             n == Len(fs)
  <1>1. n \in Nat \ {0}
    OBVIOUS
  <1>2. /\ gs \in Seq(Frame) /\ Len(gs) = n
        /\ \A i \in 1..n : i # n => gs[i] = fs[i]
        /\ gs[n] = f
    BY PutFacts
  <1> HIDE DEF gs
  <1>3. DOMAIN gs = 1..n /\ DOMAIN fs = 1..n /\ n \in 1..n
    BY <1>1, <1>2
  <1> HIDE DEF n
  <1>4. f.at \in Within => InEngine(gs) = InEngine(fs) \union {n}
    BY <1>2, <1>3 DEF InEngine, Within
  <1>5. f.at \notin Within => InEngine(gs) = InEngine(fs) \ {n}
    BY <1>2, <1>3 DEF InEngine, Within
  <1> QED
    BY <1>4, <1>5 DEF gs, n

\* A new activation is in no engine yet.
LEMMA InEngineEnter ==
  ASSUME NEW fs \in Seq(Frame), NEW gs \in Seq(Frame), Len(gs) = Len(fs) + 1,
         \A i \in 1..Len(fs) : gs[i] = fs[i],
         gs[Len(fs) + 1].at = "start"
  PROVE  InEngine(gs) = InEngine(fs)
PROOF
  <1> DEFINE n == Len(fs)
  <1>1. n \in Nat /\ DOMAIN fs = 1..n /\ DOMAIN gs = 1..(n + 1)
    OBVIOUS
  <1>2. \A i : i \in 1..(n + 1) <=> i \in 1..n \/ i = n + 1
    BY <1>1
  <1>3. gs[n + 1].at \notin {"run", "runevm"}
    OBVIOUS
  <1>4. \A i \in 1..n : gs[i] = fs[i]
    OBVIOUS
  <1>5. n + 1 \notin 1..n
    BY <1>1
  <1> HIDE DEF n
  <1> QED
    BY <1>1, <1>2, <1>3, <1>4, <1>5 DEF InEngine

\* The positions of the stack of activations.
LEMMA InEngineBelow ==
  ASSUME NEW fs \in Seq(Frame)
  PROVE  \A i \in InEngine(fs) : i \in Nat /\ i <= Len(fs)
  BY DEF InEngine

\* WavmInterfaceKeeper's constructor, when nothing above runs.
LEMMA PushTracks ==
  ASSUME NEW is \in Seq(Nat), Ascending(is), NEW n \in Nat,
         \A i \in Range(is) : i < n
  PROVE  /\ Append(is, n) \in Seq(Nat)
         /\ Ascending(Append(is, n))
         /\ Range(Append(is, n)) = Range(is) \union {n}
PROOF
  <1> DEFINE js == Append(is, n)
             l == Len(is)
  <1>1. /\ js \in Seq(Nat) /\ Len(js) = l + 1
        /\ \A i \in 1..l : js[i] = is[i]
        /\ js[l + 1] = n
    BY AppendFacts
  <1>2. l \in Nat /\ DOMAIN is = 1..l
    OBVIOUS
  <1> HIDE DEF js
  <1>3. DOMAIN js = 1..(l + 1)
    BY <1>1
  <1>4. \A i \in 1..(l + 1) : i \in 1..l \/ i = l + 1
    BY <1>2
  <1>5. \A i \in 1..l : is[i] \in Range(is)
    BY <1>2 DEF Range
  <1>6. Ascending(js)
    <2> SUFFICES ASSUME NEW j \in 1..(l + 1), NEW k \in 1..(l + 1), j < k
                 PROVE  js[j] < js[k]
      BY <1>3 DEF Ascending
    <2>1. j \in 1..l /\ js[j] = is[j]
      BY <1>1, <1>2
    <2>2. CASE k = l + 1
      BY <2>1, <2>2, <1>1, <1>5
    <2>3. CASE k # l + 1
      <3>1. k \in 1..l /\ js[k] = is[k]
        BY <2>3, <1>1, <1>4
      <3> QED
        BY <2>1, <3>1, <1>2 DEF Ascending
    <2> QED
      BY <2>2, <2>3
  <1>7. l + 1 \in 1..(l + 1) /\ \A i \in 1..l : i \in 1..(l + 1)
    BY <1>2
  <1>8. Range(js) = Range(is) \union {n}
    <2>1. ASSUME NEW x \in Range(js)
          PROVE  x \in Range(is) \union {n}
      <3>1. PICK i \in 1..(l + 1) : x = js[i]
        BY <1>3 DEF Range
      <3> QED
        BY <3>1, <1>1, <1>4, <1>5
    <2>2. ASSUME NEW x \in Range(is)
          PROVE  x \in Range(js)
      <3>1. PICK i \in 1..l : x = is[i]
        BY <1>2 DEF Range
      <3> QED
        BY <3>1, <1>1, <1>3, <1>7 DEF Range
    <2>3. n \in Range(js)
      BY <1>1, <1>3, <1>7 DEF Range
    <2> QED
      BY <2>1, <2>2, <2>3
  <1> QED
    BY <1>1, <1>6, <1>8 DEF js

\* The keeper's destructor removes the interface of the activation that ends.
LEMMA PopTracks ==
  ASSUME NEW is \in Seq(Nat), Ascending(is), NEW n \in Range(is),
         \A i \in Range(is) : i <= n
  PROVE  /\ is # <<>> /\ Last(is) = n
         /\ Front(is) \in Seq(Nat)
         /\ Ascending(Front(is))
         /\ Range(Front(is)) = Range(is) \ {n}
PROOF
  <1> DEFINE l == Len(is)
  <1>1. DOMAIN is = 1..l /\ l \in Nat
    OBVIOUS
  <1>2. PICK k \in 1..l : is[k] = n
    BY <1>1 DEF Range
  <1>3. l \in 1..l /\ is # <<>>
    BY <1>1, <1>2
  <1>4. \A i \in 1..l : is[i] \in Nat /\ is[i] \in Range(is)
    BY <1>1 DEF Range
  <1>5. k = l
    <2> SUFFICES ASSUME k # l
                 PROVE  FALSE
      OBVIOUS
    <2>1. k < l
      BY <1>2, <1>3
    <2>2. is[k] < is[l]
      BY <2>1, <1>1, <1>3 DEF Ascending
    <2>3. is[l] <= n /\ n \in Nat /\ is[l] \in Nat
      BY <1>2, <1>3, <1>4
    <2> QED
      BY <2>2, <2>3, <1>2
  <1> DEFINE js == Front(is)
  <1>6. /\ js \in Seq(Nat) /\ Len(js) = l - 1
        /\ \A i \in 1..(l - 1) : js[i] = is[i]
    BY <1>3, FrontFacts
  <1> HIDE DEF js
  <1>7. DOMAIN js = 1..(l - 1) /\ \A i \in 1..(l - 1) : i \in 1..l /\ i < l
    BY <1>1, <1>3, <1>6
  <1>8. Ascending(js)
    <2> SUFFICES ASSUME NEW j \in 1..(l - 1), NEW m \in 1..(l - 1), j < m
                 PROVE  js[j] < js[m]
      BY <1>7 DEF Ascending
    <2>1. js[j] = is[j] /\ js[m] = is[m] /\ j \in 1..l /\ m \in 1..l
      BY <1>6, <1>7
    <2> QED
      BY <2>1, <1>1 DEF Ascending
  <1>9. Range(js) = Range(is) \ {n}
    <2>1. ASSUME NEW x \in Range(js)
          PROVE  x \in Range(is) \ {n}
      <3>1. PICK i \in 1..(l - 1) : x = js[i]
        BY <1>7 DEF Range
      <3>2. x = is[i] /\ i \in 1..l /\ i < l
        BY <3>1, <1>6, <1>7
      <3>3. is[i] < is[l]
        BY <3>2, <1>1, <1>3 DEF Ascending
      <3>4. is[i] \in Nat /\ is[l] \in Nat /\ is[l] = n
        BY <3>2, <1>2, <1>3, <1>4, <1>5
      <3> QED
        BY <3>2, <3>3, <3>4, <1>4
    <2>2. ASSUME NEW x \in Range(is) \ {n}
          PROVE  x \in Range(js)
      <3>1. PICK i \in 1..l : x = is[i]
        BY <1>1 DEF Range
      <3>2. i # l
        BY <3>1, <1>2, <1>5
      <3>2a. \A a \in Nat : \A b \in 1..a : b # a => b \in 1..(a - 1)
        OBVIOUS
      <3>3. i \in 1..(l - 1)
        BY <3>1, <3>2, <3>2a, <1>1
      <3> QED
        BY <3>1, <3>3, <1>6, <1>7 DEF Range
    <2> QED
      BY <2>1, <2>2
  <1> QED
    BY <1>2, <1>3, <1>5, <1>6, <1>8, <1>9 DEF Last, js

(***************************************************************************)
(* The locals of an activation.                                            *)
(***************************************************************************)
Places == {"start", "evm2wasm", "runevm", "checked", "meterCreate", "run", "meterDeploy"}

\* Moving on to another place.
LEMMA PlaceSet ==
  ASSUME NEW f \in Frame, NEW a \in Places
  PROVE  LET g == [f EXCEPT !.at = a]
         IN  /\ g \in Frame /\ g.at = a /\ g.kind = f.kind /\ g.dest = f.dest
             /\ g.state = f.state /\ g.run = f.run /\ g.isWasm = f.isWasm
             /\ g.meter = f.meter /\ g.rev = f.rev
PROOF
  <1> DEFINE g == [f EXCEPT !.at = a]
  <1>1. g \in Frame
    BY DEF Frame, Places
  <1>2. /\ g.at = a /\ g.kind = f.kind /\ g.dest = f.dest
        /\ g.state = f.state /\ g.run = f.run /\ g.isWasm = f.isWasm
        /\ g.meter = f.meter /\ g.rev = f.rev
    BY DEF Frame
  <1> QED
    BY <1>1, <1>2

\* What is known of the innermost activation.
LEMMA TopFacts ==
  ASSUME Inv, frames # <<>>
  PROVE  /\ frames \in Seq(Frame) /\ Len(frames) \in Nat \ {0}
         /\ Top \in Frame
         /\ FrameInv(Top, evm1mode, metering, world["evm2wasm"])
         /\ Deep(Len(frames), Top)
PROOF
  <1>1. frames \in Seq(Frame) /\ Len(frames) \in Nat \ {0}
    BY DEF Inv, StackInv
  <1>2. Len(frames) \in 1..Len(frames)
    BY <1>1
  <1> QED
    BY <1>1, <1>2 DEF Inv, StackInv, Top

(***************************************************************************)
(* The three ways in which the stack of activations changes.               *)
(***************************************************************************)

\* What a step has to show of the rest when hera goes on.
Rest ==
  /\ UNCHANGED <<evm1mode, metering, supplied>>
  /\ ~crashed' /\ crashed' = FALSE
  /\ preload' \in [Address -> Codes \union {Absent}]
  /\ ReplacedOnlyIfSupplied'
  /\ world' \in [Address -> Codes]
  /\ world'["evm2wasm"] = world["evm2wasm"]

\* An activation moves on, entering or leaving an engine or neither.
LEMMA Moves ==
  ASSUME Inv, frames # <<>>, Rest,
         NEW f \in Frame, FrameInv(f, evm1mode, metering, world["evm2wasm"]),
         f.kind = Top.kind, f.dest = Top.dest,
         frames' = Replace(f), answer' = NoAnswer,
         \/ /\ UNCHANGED interfaces
            /\ Top.at \in Within <=> f.at \in Within
         \/ /\ interfaces' = Append(interfaces, Len(frames))
            /\ Top.at \notin Within /\ f.at \in Within
         \/ /\ interfaces' = Front(interfaces)
            /\ Top.at \in Within /\ f.at \notin Within
  PROVE  Inv'
PROOF
  <1> DEFINE n == Len(frames)
  <1>1. frames \in Seq(Frame) /\ n \in Nat \ {0}
    BY TopFacts
  <1>2. StackInv(frames', evm1mode', metering', world'["evm2wasm"])
    BY PutKeeps DEF Inv, Rest, Replace, Top
  <1>3. AnswerInv(frames', answer')
    BY DEF AnswerInv, NoAnswer
  <1>4. frames' \in Seq(Frame)
    BY <1>2 DEF StackInv
  <1>5. Tracks(interfaces', frames')
    <2>1. /\ interfaces \in Seq(Nat) /\ Ascending(interfaces)
          /\ Range(interfaces) = InEngine(frames)
      BY DEF Inv, Tracks
    <2>2. /\ f.at \in Within => InEngine(frames') = InEngine(frames) \union {n}
          /\ f.at \notin Within => InEngine(frames') = InEngine(frames) \ {n}
      BY <1>1, InEnginePut DEF Replace
    <2>3. n \in InEngine(frames) <=> Top.at \in Within
      <3>1. n \in DOMAIN frames
        BY <1>1
      <3> QED
        BY <3>1 DEF InEngine, Within, Top
    <2>4. \A i \in InEngine(frames) : i \in Nat /\ i <= n
      BY <1>1, InEngineBelow
    <2>5. CASE UNCHANGED interfaces /\ (Top.at \in Within <=> f.at \in Within)
      <3>1. InEngine(frames') = InEngine(frames)
        BY <2>2, <2>3, <2>5
      <3> QED
        BY <3>1, <2>1, <2>5 DEF Tracks
    <2>6. CASE /\ interfaces' = Append(interfaces, Len(frames))
               /\ Top.at \notin Within /\ f.at \in Within
      <3>1. \A i \in Range(interfaces) : i # n
        BY <2>1, <2>3, <2>6
      <3>2. \A i \in Range(interfaces) : i < n
        BY <3>1, <2>1, <2>4, <1>1
      <3> QED
        BY <3>2, <2>1, <2>2, <2>6, <1>1, PushTracks DEF Tracks
    <2>7. CASE /\ interfaces' = Front(interfaces)
               /\ Top.at \in Within /\ f.at \notin Within
      <3>1. n \in Range(interfaces)
        BY <2>1, <2>3, <2>7
      <3>2. \A i \in Range(interfaces) : i <= n
        BY <2>1, <2>4
      <3> QED
        BY <3>1, <3>2, <2>1, <2>2, <2>7, PopTracks DEF Tracks
    <2> QED
      BY <2>5, <2>6, <2>7
  <1>6. HeraTypeOK'
    <2>1. interfaces' \in Seq(Nat)
      BY <1>5 DEF Tracks
    <2> QED
      BY <2>1, <1>4 DEF Inv, HeraTypeOK, Rest
  <1>7. TranslatorEnds' /\ ReplacedOnlyIfSupplied'
    BY DEF TranslatorEnds, Rest
  <1> QED
    BY <1>2, <1>3, <1>5, <1>6, <1>7 DEF Inv

\* An activation ends, and with it its engine if it was in one.
LEMMA Returns ==
  ASSUME Inv, frames # <<>>, Rest,
         NEW outcome \in Statuses, NEW out \in Codes, Return(outcome, out),
         Top.kind = "CALL" /\ Top.dest = "sentinel" /\ outcome = "SUCCESS" =>
           out \in {"metered", "empty"},
         \/ UNCHANGED interfaces /\ Top.at \notin Within
         \/ interfaces' = Front(interfaces) /\ Top.at \in Within
  PROVE  Inv'
PROOF
  <1> DEFINE n == Len(frames)
  <1>1. frames \in Seq(Frame) /\ n \in Nat \ {0} /\ frames' = Front(frames)
    BY TopFacts DEF Return
  <1>2. StackInv(frames', evm1mode', metering', world'["evm2wasm"])
    BY <1>1, FrontKeeps DEF Inv, Rest
  <1>3. frames' \in Seq(Frame) /\ Len(frames') = n - 1
        /\ \A i \in 1..(n - 1) : frames'[i] = frames[i]
    BY <1>1, FrontFacts
  <1>4. AnswerInv(frames', answer')
    <2> SUFFICES ASSUME frames' # <<>>,
                        frames'[Len(frames')].at \in {"meterCreate", "meterDeploy"},
                        outcome = "SUCCESS"
                 PROVE  out \in {"metered", "empty"}
      BY DEF AnswerInv, Return
    <2>1. n - 1 \in 1..(n - 1) /\ n - 1 \in 1..n /\ n - 1 < n /\ n - 1 + 1 = n
      BY <1>1, <1>3
    <2>2. frames[n - 1].at \in {"meterCreate", "meterDeploy"}
      BY <2>1, <1>3
    <2>3. Waits(n - 1, frames[n - 1], frames[n - 1 + 1])
      BY <2>1 DEF Inv, StackInv
    <2> QED
      BY <2>1, <2>2, <2>3 DEF Waits, Asks, Top
  <1>5. Tracks(interfaces', frames')
    <2>1. /\ interfaces \in Seq(Nat) /\ Ascending(interfaces)
          /\ Range(interfaces) = InEngine(frames)
      BY DEF Inv, Tracks
    <2>2. InEngine(frames') = InEngine(frames) \ {n}
      BY <1>1, InEngineFront
    <2>3. n \in InEngine(frames) <=> Top.at \in Within
      <3>1. n \in DOMAIN frames
        BY <1>1
      <3> QED
        BY <3>1 DEF InEngine, Within, Top
    <2>4. \A i \in InEngine(frames) : i \in Nat /\ i <= n
      BY <1>1, InEngineBelow
    <2>5. CASE UNCHANGED interfaces /\ Top.at \notin Within
      BY <2>1, <2>2, <2>3, <2>5 DEF Tracks
    <2>6. CASE interfaces' = Front(interfaces) /\ Top.at \in Within
      <3>1. n \in Range(interfaces)
        BY <2>1, <2>3, <2>6
      <3>2. \A i \in Range(interfaces) : i <= n
        BY <2>1, <2>4
      <3> QED
        BY <3>1, <3>2, <2>1, <2>2, <2>6, PopTracks DEF Tracks
    <2> QED
      BY <2>5, <2>6
  <1>6. HeraTypeOK'
    <2>1. interfaces' \in Seq(Nat)
      BY <1>5 DEF Tracks
    <2>2. answer' \in [status : Statuses, out : Codes]
      BY DEF Return
    <2> QED
      BY <2>1, <2>2, <1>3 DEF Inv, HeraTypeOK, Rest
  <1>7. TranslatorEnds' /\ ReplacedOnlyIfSupplied'
    BY DEF TranslatorEnds, Rest
  <1> QED
    BY <1>2, <1>4, <1>5, <1>6, <1>7 DEF Inv

\* A message the host or a contract sends is entered above the stack.
LEMMA Enters ==
  ASSUME Inv, Rest, UNCHANGED <<interfaces, answer>>,
         NEW fs, StackInv(fs, evm1mode, metering, world["evm2wasm"]),
         InEngine(fs) = InEngine(frames),
         NEW kind \in {"CALL", "CREATE"}, NEW dest \in Address, NEW rev \in Revisions,
         NEW code \in Codes,
         kind = "CREATE" => dest \in Users,
         dest = "evm2wasm" => kind = "CALL" /\ code = world["evm2wasm"],
         Deep(Len(fs) + 1, Fresh(kind, dest, rev, code)),
         fs # <<>> => Waits(Len(fs), fs[Len(fs)], Fresh(kind, dest, rev, code)),
         frames' = Enter(fs, kind, dest, rev, code)
  PROVE  Inv'
PROOF
  <1>1. /\ StackInv(frames', evm1mode, metering, world["evm2wasm"])
        /\ frames' # <<>>
        /\ Len(frames') = Len(fs) + 1
        /\ \A i \in 1..Len(fs) : frames'[i] = fs[i]
        /\ frames'[Len(fs) + 1].at = "start"
    BY EnterKeeps
  <1>2. frames' \in Seq(Frame) /\ fs \in Seq(Frame)
    BY <1>1 DEF StackInv
  <1>3. InEngine(frames') = InEngine(frames)
    BY <1>1, <1>2, InEngineEnter
  <1>4. Tracks(interfaces', frames')
    BY <1>3 DEF Inv, Tracks
  <1>5. AnswerInv(frames', answer')
    BY <1>1 DEF AnswerInv
  <1>6. HeraTypeOK'
    BY <1>2 DEF Inv, HeraTypeOK, Rest
  <1>7. TranslatorEnds' /\ ReplacedOnlyIfSupplied'
    BY DEF TranslatorEnds, Rest
  <1>8. StackInv(frames', evm1mode', metering', world'["evm2wasm"])
    BY <1>1 DEF Rest
  <1> QED
    BY <1>4, <1>5, <1>6, <1>7, <1>8 DEF Inv

\* The steps that leave the options, the accounts and the native stack alone.
LEMMA RestKept ==
  ASSUME Inv, ~crashed, UNCHANGED <<options, world, crashed>>
  PROVE  Rest
PROOF
  <1>1. ReplacedOnlyIfSupplied'
    BY DEF Inv, ReplacedOnlyIfSupplied, options
  <1>2. crashed' = FALSE
    BY DEF Inv, HeraTypeOK
  <1> QED
    BY <1>1, <1>2 DEF Inv, HeraTypeOK, Rest, options

\* hera asks a system contract: the sentinel or the translator.
LEMMA Asking ==
  ASSUME Inv, ~crashed, frames # <<>>, answer = NoAnswer,
         NEW f \in Frame, FrameInv(f, evm1mode, metering, world["evm2wasm"]),
         f.kind = Top.kind, f.dest = Top.dest, Top.at \notin Within,
         NEW address \in {"sentinel", "evm2wasm"},
         f.at \in {"evm2wasm", "meterCreate", "meterDeploy"},
         f.at = "evm2wasm" <=> address = "evm2wasm",
         Len(frames) >= StackLimit =>
           /\ evm1mode = "evm2wasm"
           /\ ~hasWasmPreamble(IF preload["evm2wasm"] = Absent THEN world["evm2wasm"]
                               ELSE preload["evm2wasm"]),
         callSystemContract(address, f)
  PROVE  Inv'
PROOF
  <1>1. frames \in Seq(Frame) /\ Len(frames) \in Nat \ {0}
    BY TopFacts
  <1> DEFINE fs == Replace(f)
             n == Len(frames)
  <1>2. /\ StackInv(fs, evm1mode, metering, world["evm2wasm"])
        /\ fs # <<>> /\ Len(fs) = n /\ fs[n] = f
    <2>1. StackInv(fs, evm1mode, metering, world["evm2wasm"])
      BY PutKeeps DEF Inv, Replace, Top
    <2>2. fs # <<>> /\ Len(fs) = n /\ fs[n] = f
      BY <1>1, PutFacts DEF Replace
    <2> QED
      BY <2>1, <2>2
  <1>3. InEngine(fs) = InEngine(frames)
    <2>1. InEngine(fs) = InEngine(frames) \ {n}
      <3>1. f.at \notin Within
        BY DEF Within
      <3> QED
        BY <1>1, <3>1, InEnginePut DEF Replace
    <2>2. n \notin InEngine(frames)
      BY DEF InEngine, Within, Top
    <2> QED
      BY <2>1, <2>2
  <1> HIDE DEF fs
  <1>4. address \in System /\ address \in Address /\ world[address] \in Codes
    BY DEF System, Address, Inv, HeraTypeOK
  <1>5. CASE /\ frames' = Enter(Replace(f), "CALL", address, f.rev, world[address])
             /\ UNCHANGED <<options, world, interfaces, answer, crashed>>
    <2>1. Rest
      BY <1>5, RestKept
    <2>2. f.rev \in Revisions
      BY DEF Frame
    <2>3. Fresh("CALL", address, f.rev, world[address]).kind = "CALL"
          /\ Fresh("CALL", address, f.rev, world[address]).dest = address
      BY DEF Fresh
    <2>4. Deep(n + 1, Fresh("CALL", address, f.rev, world[address]))
      BY <1>4, <2>3 DEF Deep, IsSystem
    <2>5. Waits(n, f, Fresh("CALL", address, f.rev, world[address]))
      BY <2>3 DEF Waits, Asks
    <2>6. frames' = Enter(fs, "CALL", address, f.rev, world[address])
      BY <1>5 DEF fs
    <2> QED
      BY <1>2, <1>3, <1>4, <1>5, <2>1, <2>2, <2>4, <2>5, <2>6, Enters
  <1>6. CASE /\ frames' = Replace(f)
             /\ answer' = [status |-> "SUCCESS", out |-> "empty"]
             /\ UNCHANGED <<options, world, interfaces, crashed>>
    <2>1. Rest
      BY <1>6, RestKept
    <2>2. StackInv(frames', evm1mode', metering', world'["evm2wasm"])
      BY <1>2, <1>6, <2>1 DEF Rest, fs
    <2>3. Tracks(interfaces', frames')
      BY <1>3, <1>6 DEF Inv, Tracks, fs
    <2>4. AnswerInv(frames', answer')
      BY <1>6 DEF AnswerInv
    <2>5. HeraTypeOK'
      <3>1. frames' \in Seq(Frame)
        BY <2>2 DEF StackInv
      <3>2. answer' \in [status : Statuses, out : Codes]
        BY <1>6 DEF Statuses, Codes
      <3> QED
        BY <3>1, <3>2, <2>1, <1>6 DEF Inv, HeraTypeOK, Rest
    <2>6. TranslatorEnds' /\ ReplacedOnlyIfSupplied'
      BY <2>1 DEF TranslatorEnds, Rest
    <2> QED
      BY <2>2, <2>3, <2>4, <2>5, <2>6 DEF Inv
  <1>7. CASE /\ Len(frames) >= StackLimit
             /\ crashed' = TRUE
             /\ UNCHANGED <<options, world, frames, interfaces, answer>>
    <2>1. HeraTypeOK'
      BY <1>7 DEF Inv, HeraTypeOK, options
    <2>2. TranslatorEnds'
      BY <1>7 DEF TranslatorEnds, options
    <2>3. ReplacedOnlyIfSupplied'
      BY <1>7 DEF Inv, ReplacedOnlyIfSupplied, options
    <2>4. /\ StackInv(frames', evm1mode', metering', world'["evm2wasm"])
          /\ AnswerInv(frames', answer') /\ Tracks(interfaces', frames')
      BY <1>7 DEF Inv, options
    <2> QED
      BY <2>1, <2>2, <2>3, <2>4 DEF Inv
  <1> QED
    BY <1>5, <1>6, <1>7 DEF callSystemContract

(***************************************************************************)
(* The initial state, and the client's steps.                              *)
(***************************************************************************)

\* An instance as hera_create makes it.
LEMMA InitInv == HeraInit => Inv
PROOF
  <1> SUFFICES ASSUME HeraInit
               PROVE  Inv
    OBVIOUS
  <1>1. HeraTypeOK
    <2>1. evm1mode \in Modes /\ metering \in BOOLEAN /\ crashed \in BOOLEAN
      BY DEF HeraInit, Modes
    <2>2. preload \in [Address -> Codes \union {Absent}] /\ supplied \subseteq Address
      BY DEF HeraInit
    <2>3. world \in [Address -> Codes]
      BY WorldsAssumption DEF HeraInit
    <2>4. frames \in Seq(Frame) /\ interfaces \in Seq(Nat)
      BY DEF HeraInit
    <2>5. answer \in [status : Statuses, out : Codes] \union {NoAnswer}
      BY DEF HeraInit
    <2> QED
      BY <2>1, <2>2, <2>3, <2>4, <2>5 DEF HeraTypeOK
  <1>2. frames = <<>> /\ interfaces = <<>> /\ Len(frames) = 0 /\ Len(interfaces) = 0
    BY DEF HeraInit
  <1>3. StackInv(frames, evm1mode, metering, world["evm2wasm"])
    BY <1>1, <1>2 DEF StackInv, HeraTypeOK
  <1>4. AnswerInv(frames, answer)
    BY <1>2 DEF AnswerInv
  <1>5. Tracks(interfaces, frames)
    <2>1. DOMAIN frames = {} /\ DOMAIN interfaces = {}
      BY <1>1, <1>2 DEF HeraTypeOK
    <2> QED
      BY <2>1, <1>1 DEF Tracks, Ascending, Range, InEngine, HeraTypeOK
  <1>6. TranslatorEnds /\ ReplacedOnlyIfSupplied
    BY DEF HeraInit, TranslatorEnds, ReplacedOnlyIfSupplied
  <1> QED
    BY <1>1, <1>3, <1>4, <1>5, <1>6 DEF Inv

\* Options are set while nothing runs.
LEMMA OptionsKeep ==
  ASSUME Inv, SetOption
  PROVE  Inv'
PROOF
  <1>1. Idle /\ Keep
    BY DEF SetOption, SetEvm1Mode, SetMetering, hera_parse_sys_option
  <1>2. frames = <<>> /\ frames' = <<>> /\ Len(frames') = 0
        /\ ~crashed /\ ~crashed'
    BY <1>1 DEF Idle, Keep
  <1>3. evm1mode' \in Modes /\ metering' \in BOOLEAN
    BY DEF Inv, HeraTypeOK, SetOption, SetEvm1Mode, SetMetering, hera_parse_sys_option
  <1>4. /\ preload' \in [Address -> Codes \union {Absent}]
        /\ supplied' \subseteq Address
        /\ ReplacedOnlyIfSupplied'
    <2>0. /\ preload \in [Address -> Codes \union {Absent}] /\ supplied \subseteq Address
          /\ ReplacedOnlyIfSupplied
      BY DEF Inv, HeraTypeOK
    <2>1. CASE UNCHANGED <<preload, supplied>>
      BY <2>0, <2>1 DEF ReplacedOnlyIfSupplied
    <2>2. ASSUME NEW address \in Address, NEW contents \in FileCodes,
                 hera_parse_sys_option(address, contents)
          PROVE  /\ preload' \in [Address -> Codes \union {Absent}]
                 /\ supplied' \subseteq Address
                 /\ ReplacedOnlyIfSupplied'
      <3>1. /\ preload' = [preload EXCEPT ![address] = contents]
            /\ supplied' = supplied \union {address}
            /\ contents \in Codes
        BY <2>2, CodesAssumption DEF hera_parse_sys_option
      <3> QED
        BY <3>1, <2>0 DEF ReplacedOnlyIfSupplied
    <2> QED
      BY <2>1, <2>2 DEF SetOption, SetEvm1Mode, SetMetering
  <1>5. HeraTypeOK'
    BY <1>1, <1>3, <1>4 DEF Inv, HeraTypeOK, Keep
  <1>6. StackInv(frames', evm1mode', metering', world'["evm2wasm"])
    BY <1>2, <1>5 DEF StackInv, HeraTypeOK
  <1>7. AnswerInv(frames', answer') /\ Tracks(interfaces', frames')
    BY <1>1 DEF Inv, Keep
  <1>8. TranslatorEnds'
    BY <1>2 DEF TranslatorEnds
  <1> QED
    BY <1>4, <1>5, <1>6, <1>7, <1>8 DEF Inv

\* The client sends a message, to an account's code or to create one.
LEMMA ExecuteKeeps ==
  ASSUME Inv, NEW kind \in {"CALL", "CREATE"}, NEW dest \in Address,
         NEW rev \in Revisions, NEW code \in Codes,
         kind = "CREATE" => dest \in Users,
         kind = "CALL" => code = world[dest],
         hera_execute(kind, dest, rev, code)
  PROVE  Inv'
PROOF
  <1>1. /\ ~crashed /\ frames = <<>> /\ frames' = Enter(<<>>, kind, dest, rev, code)
        /\ UNCHANGED <<options, world, interfaces, answer, crashed>>
    BY DEF hera_execute, Idle
  <1>2. Rest
    BY <1>1, RestKept
  <1>3. StackInv(<<>>, evm1mode, metering, world["evm2wasm"])
    BY <1>1 DEF Inv
  <1>4. InEngine(<<>>) = InEngine(frames)
    BY <1>1
  <1>5. dest = "evm2wasm" => kind = "CALL" /\ code = world["evm2wasm"]
    BY UsersAssumption DEF System
  <1>6. Deep(Len(<<>>) + 1, Fresh(kind, dest, rev, code))
    BY StackAssumption DEF Deep
  <1> QED
    BY <1>1, <1>2, <1>3, <1>4, <1>5, <1>6, Enters

(***************************************************************************)
(* The steps of hera_execute.                                              *)
(***************************************************************************)

\* hera_execute fails and leaves everything else alone.
LEMMA FailKeeps ==
  ASSUME Inv, ~crashed, frames # <<>>, Top.at \notin Within,
         NEW outcome \in Statuses \ {"SUCCESS"}, Fail(outcome)
  PROVE  Inv'
PROOF
  <1>1. /\ Return(outcome, "empty")
        /\ UNCHANGED <<options, world, interfaces, crashed>>
    BY DEF Fail
  <1>2. Rest
    BY <1>1, RestKept
  <1>3. "empty" \in Codes
    BY DEF Codes
  <1> QED
    BY <1>1, <1>2, <1>3, Returns

\* The native stack overflows only in a chain of translations of the translator.
LEMMA OverflowTranslates ==
  ASSUME Inv, frames # <<>>, Len(frames) >= StackLimit
  PROVE  /\ Top.kind = "CALL"
         /\ Top.dest = "evm2wasm" /\ Top.state = world["evm2wasm"]
PROOF
  <1> DEFINE n == Len(frames)
  <1>1. /\ n \in Nat \ {0} /\ Top = frames[n]
        /\ FrameInv(Top, evm1mode, metering, world["evm2wasm"])
    BY TopFacts DEF Top
  <1>2. n > MaxCalls + 2 /\ MaxCalls \in Nat
    BY <1>1, StackAssumption
  <1>3. /\ n - 1 \in 1..n /\ n - 1 < n /\ n - 1 + 1 = n /\ n - 1 > MaxCalls
    BY <1>1, <1>2
  <1>4. /\ FrameInv(frames[n - 1], evm1mode, metering, world["evm2wasm"])
        /\ Deep(n - 1, frames[n - 1])
        /\ Waits(n - 1, frames[n - 1], frames[n - 1 + 1])
    BY <1>3 DEF Inv, StackInv
  <1>5. frames[n - 1].kind = "CALL"
    BY <1>3, <1>4 DEF Deep, IsSystem
  <1>6. frames[n - 1].at \notin {"meterCreate", "meterDeploy"}
    BY <1>4, <1>5 DEF FrameInv
  <1>7. ~(n - 1 + 1 <= MaxCalls)
    BY <1>2, <1>3
  <1>8. frames[n - 1].at = "evm2wasm"
    BY <1>4, <1>6, <1>7 DEF Waits
  <1>9. Top.kind = "CALL" /\ Top.dest = "evm2wasm"
    BY <1>1, <1>3, <1>4, <1>8 DEF Waits, Asks
  <1> QED
    BY <1>1, <1>9 DEF FrameInv

\* The revision, the replacement and the four modes for code that is not wasm.
LEMMA StartKeeps ==
  ASSUME Inv, Start
  PROVE  Inv'
PROOF
  <1> DEFINE code == Replacement(Top)
             f == [Top EXCEPT !.run = code, !.isWasm = hasWasmPreamble(code)]
             tr == world["evm2wasm"]
  <1>1. ~crashed /\ frames # <<>> /\ answer = NoAnswer /\ Top.at = "start"
    BY DEF Start, At
  <1>2. Top \in Frame /\ FrameInv(Top, evm1mode, metering, tr) /\ Len(frames) \in Nat
    BY <1>1, TopFacts
  <1>3. Top.at \notin Within
    BY <1>1 DEF Within
  <1>4. code \in Codes
    <2>1. Top.dest \in Address /\ Top.state \in Codes
      BY <1>2 DEF Frame
    <2>2. preload[Top.dest] \in Codes \union {Absent}
      BY <2>1 DEF Inv, HeraTypeOK
    <2> QED
      BY <2>1, <2>2 DEF Replacement
  <1>5. hasWasmPreamble(code) \in BOOLEAN
    BY DEF hasWasmPreamble
  <1>6. /\ f \in Frame /\ f.at = Top.at /\ f.kind = Top.kind /\ f.dest = Top.dest
        /\ f.state = Top.state /\ f.run = code /\ f.isWasm = hasWasmPreamble(code)
        /\ f.meter = Top.meter /\ f.rev = Top.rev
    <2> DEFINE w == hasWasmPreamble(code)
               c == code
               top == Top
               g == [top EXCEPT !.run = c, !.isWasm = w]
    <2>1. w \in BOOLEAN /\ c \in Codes /\ top \in Frame
      BY <1>2, <1>4, <1>5
    <2> HIDE DEF w, c, top
    <2>2. /\ g \in Frame /\ g.at = top.at /\ g.kind = top.kind /\ g.dest = top.dest
          /\ g.state = top.state /\ g.run = c /\ g.isWasm = w
          /\ g.meter = top.meter /\ g.rev = top.rev
      BY <2>1 DEF Frame
    <2> QED
      BY <2>2, Zenon DEF w, c, top
  <1>7. \A a \in Places :
          LET g == [f EXCEPT !.at = a]
          IN  /\ g \in Frame /\ g.at = a /\ g.kind = Top.kind /\ g.dest = Top.dest
              /\ g.state = Top.state /\ g.run = code /\ g.isWasm = hasWasmPreamble(code)
              /\ g.meter = Top.meter /\ g.rev = Top.rev
    BY <1>6, PlaceSet
  <1>8. \/ Top.rev # "BYZANTIUM" /\ Fail("INTERNAL_ERROR")
        \/ /\ Top.rev = "BYZANTIUM"
           /\ \/ /\ f.isWasm
                 /\ Continue([f EXCEPT !.at = "checked"])
              \/ /\ ~f.isWasm
                 /\ \/ evm1mode = "fallback" /\ Fail("REJECTED")
                    \/ evm1mode = "reject" /\ Fail("FAILURE")
                    \/ evm1mode = "runevm" /\ RunRunevm(f)
                    \/ /\ evm1mode = "evm2wasm"
                       /\ evm2wasm([f EXCEPT !.at = "evm2wasm"])
    BY DEF Start
  <1>9. Top.meter = TRUE
    BY <1>1, <1>2 DEF FrameInv
  <1>10. /\ Top.kind = "CREATE" => Top.dest \in Users
         /\ Top.dest = "evm2wasm" => Top.kind = "CALL" /\ Top.state = tr
    BY <1>2 DEF FrameInv
  <1>11. "empty" \in Codes
    BY DEF Codes
  <1> HIDE DEF f, tr
  <1>12. CASE \E outcome \in Statuses \ {"SUCCESS"} : Fail(outcome)
    BY <1>1, <1>3, <1>12, FailKeeps
  <1>13. CASE f.isWasm /\ Continue([f EXCEPT !.at = "checked"])
    <2> DEFINE g == [f EXCEPT !.at = "checked"]
    <2>1. /\ g \in Frame /\ g.at = "checked" /\ g.kind = Top.kind /\ g.dest = Top.dest
          /\ g.state = Top.state /\ g.meter = TRUE
      BY <1>7, <1>9 DEF Places
    <2> HIDE DEF g
    <2>2. FrameInv(g, evm1mode, metering, world["evm2wasm"])
      BY <2>1, <1>10 DEF FrameInv, tr
    <2>3. /\ frames' = Replace(g)
          /\ UNCHANGED <<options, world, interfaces, answer, crashed>>
      BY <1>13 DEF Continue, g
    <2>4. Rest
      BY <1>1, <2>3, RestKept
    <2>5. Top.at \in Within <=> g.at \in Within
      BY <1>1, <2>1 DEF Within
    <2> QED
      BY <1>1, <2>1, <2>2, <2>3, <2>4, <2>5, Moves
  <1>14. CASE ~f.isWasm /\ evm1mode = "runevm" /\ RunRunevm(f)
    <2> DEFINE g == [f EXCEPT !.at = "runevm"]
    <2>1. /\ g \in Frame /\ g.at = "runevm" /\ g.kind = Top.kind /\ g.dest = Top.dest
          /\ g.state = Top.state /\ g.meter = TRUE /\ g.isWasm = f.isWasm
      BY <1>6, <1>7, <1>9 DEF Places
    <2> HIDE DEF g
    <2>2. FrameInv(g, evm1mode, metering, world["evm2wasm"])
      <3>1. f.isWasm = FALSE
        BY <1>5, <1>6, <1>14
      <3> QED
        BY <2>1, <3>1, <1>10, <1>14 DEF FrameInv, tr
    <2>3. Rest
      <3>1. /\ preload' = [preload EXCEPT !["runevm"] = Held]
            /\ UNCHANGED <<evm1mode, metering, supplied, world, crashed>>
        BY <1>14 DEF RunRunevm
      <3>2. /\ preload \in [Address -> Codes \union {Absent}]
            /\ world \in [Address -> Codes] /\ ReplacedOnlyIfSupplied
            /\ "runevm" \in Address /\ crashed = FALSE
        BY <1>1 DEF Inv, HeraTypeOK, Address, System
      <3>3. Held \in Codes /\ (preload["runevm"] # Absent => Held = preload["runevm"])
            /\ (preload["runevm"] = Absent => Held = "empty")
        BY <3>2, <1>11 DEF Held
      <3>4. ReplacedOnlyIfSupplied'
        BY <3>1, <3>2, <3>3 DEF ReplacedOnlyIfSupplied
      <3> QED
        BY <3>1, <3>2, <3>3, <3>4 DEF Rest
    <2>4. CASE /\ frames' = Replace(g)
               /\ interfaces' = Append(interfaces, Len(frames))
               /\ UNCHANGED answer
      <3>1. Top.at \notin Within /\ g.at \in Within
        BY <1>1, <2>1 DEF Within
      <3> QED
        BY <1>1, <2>1, <2>2, <2>3, <2>4, <3>1, Moves
    <2>5. CASE /\ Return("CONTRACT_VALIDATION_FAILURE", "empty")
               /\ UNCHANGED interfaces
      <3>1. "CONTRACT_VALIDATION_FAILURE" \in Statuses
        BY DEF Statuses
      <3> QED
        BY <1>1, <1>3, <1>11, <2>3, <2>5, <3>1, Returns
    <2> QED
      BY <1>14, <2>4, <2>5 DEF RunRunevm, g
  <1>15. CASE ~f.isWasm /\ evm1mode = "evm2wasm" /\ evm2wasm([f EXCEPT !.at = "evm2wasm"])
    <2> DEFINE g == [f EXCEPT !.at = "evm2wasm"]
    <2>1. /\ g \in Frame /\ g.at = "evm2wasm" /\ g.kind = Top.kind /\ g.dest = Top.dest
          /\ g.state = Top.state /\ g.meter = TRUE
      BY <1>7, <1>9 DEF Places
    <2>2. callSystemContract("evm2wasm", g)
      BY <1>15 DEF evm2wasm
    <2> HIDE DEF g
    <2>3. FrameInv(g, evm1mode, metering, world["evm2wasm"])
      BY <2>1, <1>10, <1>15 DEF FrameInv, tr
    <2>4. ASSUME Len(frames) >= StackLimit
          PROVE  ~hasWasmPreamble(IF preload["evm2wasm"] = Absent THEN world["evm2wasm"]
                                  ELSE preload["evm2wasm"])
      <3>1. Top.dest = "evm2wasm" /\ Top.state = world["evm2wasm"]
        BY <1>1, <2>4, OverflowTranslates
      <3>2. code = IF preload["evm2wasm"] = Absent THEN world["evm2wasm"]
                   ELSE preload["evm2wasm"]
        BY <3>1 DEF Replacement
      <3>3. ~hasWasmPreamble(code)
        BY <1>6, <1>15
      <3> QED
        BY <3>2, <3>3
    <2> QED
      BY <1>1, <1>3, <1>15, <2>1, <2>2, <2>3, <2>4, Asking
  <1>16. {"INTERNAL_ERROR", "REJECTED", "FAILURE"} \subseteq Statuses \ {"SUCCESS"}
    BY DEF Statuses
  <1> QED
    BY <1>8, <1>12, <1>13, <1>14, <1>15, <1>16

\* The runevm contract ended: its interpreter goes on to the checks.
LEMMA FinishRunevmKeeps ==
  ASSUME Inv, NEW outcome, NEW out \in Codes, FinishRunevm(outcome, out)
  PROVE  Inv'
PROOF
  <1>1. /\ ~crashed /\ frames # <<>> /\ answer = NoAnswer /\ Top.at = "runevm"
        /\ interfaces' = Front(interfaces)
        /\ UNCHANGED <<options, world, crashed>>
    BY DEF FinishRunevm, At
  <1>2. Top \in Frame /\ FrameInv(Top, evm1mode, metering, world["evm2wasm"])
    BY <1>1, TopFacts
  <1>3. Rest
    BY <1>1, RestKept
  <1>4. Top.at \in Within
    BY <1>1 DEF Within
  <1> DEFINE g == [Top EXCEPT !.run = out, !.meter = FALSE, !.at = "checked"]
  <1>5. CASE frames' = Replace(g) /\ UNCHANGED answer
    <2>1. /\ g \in Frame /\ g.at = "checked" /\ g.kind = Top.kind /\ g.dest = Top.dest
          /\ g.state = Top.state /\ g.run = out /\ g.isWasm = Top.isWasm
      BY <1>2 DEF Frame
    <2>2. frames' = Replace(g) /\ answer' = NoAnswer
      BY <1>1, <1>5
    <2> HIDE DEF g
    <2>3. FrameInv(g, evm1mode, metering, world["evm2wasm"])
      BY <1>1, <1>2, <2>1 DEF FrameInv
    <2>4. g.at \notin Within
      BY <2>1 DEF Within
    <2> QED
      BY <1>1, <1>3, <1>4, <2>1, <2>2, <2>3, <2>4, Moves
  <1>6. ASSUME NEW s \in {"FAILURE", "CONTRACT_VALIDATION_FAILURE"}, Return(s, "empty")
        PROVE  Inv'
    <2>1. s \in Statuses /\ s # "SUCCESS" /\ "empty" \in Codes
      BY DEF Statuses, Codes
    <2> QED
      BY <1>1, <1>3, <1>4, <1>6, <2>1, Returns
  <1> QED
    BY <1>5, <1>6 DEF FinishRunevm

\* The version check, and then the sentinel for a creation or the engine.
LEMMA RunCheckedKeeps ==
  ASSUME Inv, RunChecked
  PROVE  Inv'
PROOF
  <1>1. ~crashed /\ frames # <<>> /\ answer = NoAnswer /\ Top.at = "checked"
    BY DEF RunChecked, At
  <1>2. /\ Top \in Frame /\ FrameInv(Top, evm1mode, metering, world["evm2wasm"])
        /\ Deep(Len(frames), Top)
    BY <1>1, TopFacts
  <1>3. Top.at \notin Within
    BY <1>1 DEF Within
  <1>4. CASE Invalid
    <2>1. "CONTRACT_VALIDATION_FAILURE" \in Statuses \ {"SUCCESS"}
      BY DEF Statuses
    <2> QED
      BY <1>1, <1>3, <1>4, <2>1, FailKeeps DEF Invalid
  <1>5. CASE MeterCreation(Top) /\ sentinel([Top EXCEPT !.at = "meterCreate"])
    <2> DEFINE g == [Top EXCEPT !.at = "meterCreate"]
    <2>1. /\ g \in Frame /\ g.at = "meterCreate" /\ g.kind = Top.kind /\ g.dest = Top.dest
          /\ g.state = Top.state /\ g.isWasm = Top.isWasm /\ g.meter = Top.meter
      BY <1>2, PlaceSet DEF Places
    <2>2. callSystemContract("sentinel", g)
      BY <1>5 DEF sentinel
    <2> HIDE DEF g
    <2>3. Top.kind = "CREATE"
      BY <1>5 DEF MeterCreation
    <2>4. FrameInv(g, evm1mode, metering, world["evm2wasm"])
      BY <1>1, <1>2, <2>1, <2>3 DEF FrameInv
    <2>5. ~(Len(frames) >= StackLimit)
      BY <1>1, <2>3, OverflowTranslates
    <2> QED
      BY <1>1, <1>3, <2>1, <2>2, <2>4, <2>5, Asking
  <1>6. CASE ~MeterCreation(Top) /\ RunEngine(Top) /\ ~Invalid
    <2> DEFINE g == [Top EXCEPT !.at = "run"]
    <2>1. /\ Loadable(Top.run) /\ frames' = Replace(g)
          /\ interfaces' = Append(interfaces, Len(frames))
          /\ UNCHANGED <<options, world, answer, crashed>>
      BY <1>6 DEF RunEngine
    <2>2. /\ g \in Frame /\ g.at = "run" /\ g.kind = Top.kind /\ g.dest = Top.dest
          /\ g.state = Top.state /\ g.isWasm = Top.isWasm /\ g.meter = Top.meter
          /\ g.run = Top.run
      BY <1>2, PlaceSet DEF Places
    <2> HIDE DEF g
    <2>3. ~(Top.kind = "CREATE" /\ Top.isWasm = TRUE /\ metering = TRUE)
      BY <1>6 DEF MeterCreation
    <2>4. FrameInv(g, evm1mode, metering, world["evm2wasm"])
      BY <1>1, <1>2, <2>1, <2>2, <2>3 DEF FrameInv
    <2>5. Rest
      BY <1>1, <2>1, RestKept
    <2>6. g.at \in Within
      BY <2>2 DEF Within
    <2> QED
      BY <1>1, <1>3, <2>1, <2>2, <2>4, <2>5, <2>6, Moves
  <1> QED
    BY <1>4, <1>5, <1>6 DEF RunChecked, RunEngine

\* A contract calls another, or creates one.
LEMMA CallKeeps ==
  ASSUME Inv, NEW kind \in {"CALL", "CREATE"}, NEW dest \in Users, NEW code \in Codes,
         Call(kind, dest, code)
  PROVE  Inv'
PROOF
  <1>1. /\ ~crashed /\ frames # <<>> /\ Top.at = "run" /\ Len(frames) < MaxCalls
        /\ frames' = Enter(frames, kind, dest, Top.rev, code)
        /\ UNCHANGED <<options, world, interfaces, answer, crashed>>
    BY DEF Call, At
  <1>2. Top \in Frame /\ Len(frames) \in Nat \ {0}
    BY <1>1, TopFacts
  <1>3. Rest
    BY <1>1, RestKept
  <1>4. dest \in Address /\ dest # "evm2wasm" /\ Top.rev \in Revisions
    BY <1>2, UsersAssumption DEF Address, System, Frame
  <1>5. Deep(Len(frames) + 1, Fresh(kind, dest, Top.rev, code))
    BY <1>1, <1>2, StackAssumption DEF Deep
  <1>6. Waits(Len(frames), frames[Len(frames)], Fresh(kind, dest, Top.rev, code))
    BY <1>1, <1>2, StackAssumption DEF Waits, Top
  <1>7. StackInv(frames, evm1mode, metering, world["evm2wasm"])
    BY DEF Inv
  <1> QED
    BY <1>1, <1>3, <1>4, <1>5, <1>6, <1>7, Enters

\* What the host stores is not the code of the translator.
LEMMA StoredKeeps ==
  ASSUME Inv, ~crashed, frames # <<>>, NEW outcome, NEW out \in Codes,
         UNCHANGED options, UNCHANGED crashed,
         UNCHANGED world \/ Stored(Top, outcome, out)
  PROVE  Rest
PROOF
  <1>1. Top \in Frame /\ (Top.kind = "CREATE" => Top.dest \in Users)
    BY TopFacts DEF FrameInv
  <1>2. Top.kind = "CREATE" => Top.dest # "evm2wasm" /\ Top.dest \in Address
    BY <1>1, UsersAssumption DEF System, Address
  <1>3. world \in [Address -> Codes] /\ "evm2wasm" \in Address
    BY DEF Inv, HeraTypeOK, Address, System
  <1>4. world' \in [Address -> Codes] /\ world'["evm2wasm"] = world["evm2wasm"]
    BY <1>2, <1>3 DEF Stored
  <1>5. ReplacedOnlyIfSupplied'
    BY DEF Inv, ReplacedOnlyIfSupplied, options
  <1>6. crashed' = FALSE
    BY DEF Inv, HeraTypeOK
  <1> QED
    BY <1>4, <1>5, <1>6 DEF Inv, HeraTypeOK, Rest, options

\* The engine returned or threw.
LEMMA FinishRunKeeps ==
  ASSUME Inv, NEW outcome \in Ends, NEW out \in Codes,
         frames # <<>>, Top.dest = "sentinel" /\ outcome = "SUCCESS" => out \in {"metered", "empty"},
         FinishRun(outcome, out)
  PROVE  Inv'
PROOF
  <1>1. /\ ~crashed /\ frames # <<>> /\ answer = NoAnswer /\ Top.at = "run"
        /\ interfaces' = Front(interfaces) /\ UNCHANGED options
    BY DEF FinishRun, At, PopInterface
  <1>2. Top \in Frame /\ FrameInv(Top, evm1mode, metering, world["evm2wasm"])
    BY <1>1, TopFacts
  <1>3. Top.at \in Within
    BY <1>1 DEF Within
  <1>4. "empty" \in Codes /\ {"FAILURE", "CONTRACT_VALIDATION_FAILURE", "SUCCESS"} \subseteq Statuses
        /\ (outcome # "TRAP" => outcome \in Statuses)
    BY DEF Codes, Statuses, Ends
  <1>5. ASSUME NEW s \in {"FAILURE", "CONTRACT_VALIDATION_FAILURE"}, Return(s, "empty"),
               UNCHANGED <<world, crashed>>
        PROVE  Inv'
    <2>1. Rest
      BY <1>1, <1>4, <1>5, StoredKeeps
    <2>2. s \in Statuses /\ s # "SUCCESS"
      BY <1>4
    <2> QED
      BY <1>1, <1>3, <1>4, <1>5, <2>1, <2>2, Returns
  <1>6. CASE /\ outcome # "TRAP" /\ ~Deploys(Top, outcome, out)
             /\ Return(outcome, out)
             /\ Stored(Top, outcome, out)
             /\ UNCHANGED crashed
    <2>1. Rest
      BY <1>1, <1>6, StoredKeeps
    <2> QED
      BY <1>1, <1>3, <1>4, <1>6, <2>1, Returns
  <1>7. CASE /\ Deploys(Top, outcome, out)
             /\ Return("SUCCESS", out)
             /\ Stored(Top, "SUCCESS", out)
             /\ UNCHANGED crashed
    <2>1. Rest
      BY <1>1, <1>7, StoredKeeps
    <2>2. Top.kind # "CALL"
      BY <1>7 DEF Deploys
    <2> QED
      BY <1>1, <1>3, <1>4, <1>7, <2>1, <2>2, Returns
  <1>8. CASE /\ Deploys(Top, outcome, out)
             /\ frames' = Replace([Top EXCEPT !.run = out, !.at = "meterDeploy"])
             /\ UNCHANGED <<world, answer, crashed>>
    <2> DEFINE g == [Top EXCEPT !.run = out, !.at = "meterDeploy"]
    <2>1. /\ g \in Frame /\ g.at = "meterDeploy" /\ g.kind = Top.kind /\ g.dest = Top.dest
          /\ g.state = Top.state /\ g.isWasm = Top.isWasm /\ g.meter = Top.meter
      BY <1>2 DEF Frame
    <2>2. frames' = Replace(g) /\ answer' = NoAnswer
      BY <1>1, <1>8
    <2> HIDE DEF g
    <2>3. Top.kind = "CREATE"
      BY <1>8 DEF Deploys
    <2>4. FrameInv(g, evm1mode, metering, world["evm2wasm"])
      BY <1>1, <1>2, <2>1, <2>3 DEF FrameInv
    <2>5. Rest
      BY <1>1, <1>8, RestKept
    <2>6. g.at \notin Within
      BY <2>1 DEF Within
    <2> QED
      BY <1>1, <1>3, <2>1, <2>2, <2>4, <2>5, <2>6, Moves
  <1> QED
    BY <1>5, <1>6, <1>7, <1>8 DEF FinishRun

\* The deployed code goes to the sentinel.
LEMMA MeterDeployedKeeps ==
  ASSUME Inv, MeterDeployed
  PROVE  Inv'
PROOF
  <1>1. /\ ~crashed /\ frames # <<>> /\ answer = NoAnswer /\ Top.at = "meterDeploy"
        /\ callSystemContract("sentinel", Top)
    BY DEF MeterDeployed, At, sentinel
  <1>2. Top \in Frame /\ FrameInv(Top, evm1mode, metering, world["evm2wasm"])
    BY <1>1, TopFacts
  <1>3. Top.kind = "CREATE" /\ Top.at \notin Within
    BY <1>1, <1>2 DEF FrameInv, Within
  <1>4. ~(Len(frames) >= StackLimit)
    BY <1>1, <1>3, OverflowTranslates
  <1> QED
    BY <1>1, <1>2, <1>3, <1>4, Asking

\* An answer is a status and code.
LEMMA AnswerFacts ==
  ASSUME Inv, answer # NoAnswer
  PROVE  answer.status \in Statuses /\ answer.out \in Codes
  BY DEF Inv, HeraTypeOK

\* An activation that waited and got nothing it can use fails.
LEMMA TakeInvalid ==
  ASSUME Inv, ~crashed, frames # <<>>, Top.at \notin Within, Invalid
  PROVE  Inv'
PROOF
  <1>1. "CONTRACT_VALIDATION_FAILURE" \in Statuses \ {"SUCCESS"}
    BY DEF Statuses
  <1> QED
    BY <1>1, FailKeeps DEF Invalid

\* The translator answered.
LEMMA TakeTranslationKeeps ==
  ASSUME Inv, TakeTranslation
  PROVE  Inv'
PROOF
  <1>1. ~crashed /\ answer # NoAnswer /\ frames # <<>> /\ Top.at = "evm2wasm"
    BY DEF TakeTranslation, Taking
  <1>2. Top \in Frame /\ FrameInv(Top, evm1mode, metering, world["evm2wasm"])
    BY <1>1, TopFacts
  <1>3. Top.at \notin Within /\ answer.out \in Codes
    BY <1>1, AnswerFacts DEF Within
  <1> DEFINE g == [Top EXCEPT !.run = answer.out, !.at = "checked"]
  <1>4. CASE Take(g)
    <2>1. /\ g \in Frame /\ g.at = "checked" /\ g.kind = Top.kind /\ g.dest = Top.dest
          /\ g.state = Top.state /\ g.isWasm = Top.isWasm /\ g.meter = Top.meter
      BY <1>2, <1>3 DEF Frame
    <2>2. /\ frames' = Replace(g) /\ answer' = NoAnswer
          /\ UNCHANGED <<options, world, interfaces, crashed>>
      BY <1>4 DEF Take
    <2> HIDE DEF g
    <2>3. FrameInv(g, evm1mode, metering, world["evm2wasm"])
      BY <1>1, <1>2, <2>1 DEF FrameInv
    <2>4. Rest
      BY <1>1, <2>2, RestKept
    <2>5. g.at \notin Within
      BY <2>1 DEF Within
    <2> QED
      BY <1>1, <1>3, <2>1, <2>2, <2>3, <2>4, <2>5, Moves
  <1> QED
    BY <1>1, <1>3, <1>4, TakeInvalid DEF TakeTranslation

\* The sentinel answered with the creation code: what hera runs is metered.
LEMMA TakeMeteredCreationKeeps ==
  ASSUME Inv, TakeMeteredCreation
  PROVE  Inv'
PROOF
  <1>1. ~crashed /\ answer # NoAnswer /\ frames # <<>> /\ Top.at = "meterCreate"
    BY DEF TakeMeteredCreation, Taking
  <1>2. Top \in Frame /\ FrameInv(Top, evm1mode, metering, world["evm2wasm"])
    BY <1>1, TopFacts
  <1>3. Top.at \notin Within /\ answer.out \in Codes
    BY <1>1, AnswerFacts DEF Within
  <1> DEFINE g == [Top EXCEPT !.run = answer.out, !.at = "run"]
  <1>4. CASE /\ Succeeded /\ Loadable(answer.out)
             /\ frames' = Replace(g)
             /\ interfaces' = Append(interfaces, Len(frames))
             /\ answer' = NoAnswer
             /\ UNCHANGED <<options, world, crashed>>
    <2>1. /\ g \in Frame /\ g.at = "run" /\ g.kind = Top.kind /\ g.dest = Top.dest
          /\ g.state = Top.state /\ g.isWasm = Top.isWasm /\ g.meter = Top.meter
          /\ g.run = answer.out
      BY <1>2, <1>3 DEF Frame
    <2>2. frames' = Replace(g)
      BY <1>4
    <2> HIDE DEF g
    <2>3. answer.out \in {"metered", "empty"}
      BY <1>1, <1>4 DEF Inv, AnswerInv, Succeeded, Top
    <2>4. answer.out = "metered"
      BY <1>4, <2>3 DEF Loadable
    <2>5. FrameInv(g, evm1mode, metering, world["evm2wasm"])
      BY <1>1, <1>2, <2>1, <2>4 DEF FrameInv, Loadable
    <2>6. Rest
      BY <1>1, <1>4, RestKept
    <2>7. g.at \in Within
      BY <2>1 DEF Within
    <2> QED
      BY <1>1, <1>3, <1>4, <2>1, <2>2, <2>5, <2>6, <2>7, Moves
  <1> QED
    BY <1>1, <1>3, <1>4, TakeInvalid DEF TakeMeteredCreation

\* The sentinel answered with the deployed code.
LEMMA TakeMeteredDeployKeeps ==
  ASSUME Inv, TakeMeteredDeploy
  PROVE  Inv'
PROOF
  <1>1. ~crashed /\ answer # NoAnswer /\ frames # <<>> /\ Top.at = "meterDeploy"
    BY DEF TakeMeteredDeploy, Taking
  <1>2. Top \in Frame /\ FrameInv(Top, evm1mode, metering, world["evm2wasm"])
    BY <1>1, TopFacts
  <1>3. Top.at \notin Within /\ answer.out \in Codes
    BY <1>1, AnswerFacts DEF Within
  <1>4. CASE /\ Return("SUCCESS", answer.out)
             /\ Stored(Top, "SUCCESS", answer.out)
             /\ UNCHANGED <<options, interfaces, crashed>>
    <2>1. Rest
      BY <1>1, <1>3, <1>4, StoredKeeps
    <2>2. Top.kind # "CALL" /\ "SUCCESS" \in Statuses
      BY <1>1, <1>2 DEF FrameInv, Statuses
    <2> QED
      BY <1>1, <1>3, <1>4, <2>1, <2>2, Returns
  <1> QED
    BY <1>1, <1>3, <1>4, TakeInvalid DEF TakeMeteredDeploy

\* A contract goes on after its call.
LEMMA TakeCallKeeps ==
  ASSUME Inv, TakeCall
  PROVE  Inv'
PROOF
  <1>1. /\ ~crashed /\ frames # <<>>
        /\ frames' = Replace(Top) /\ answer' = NoAnswer
        /\ UNCHANGED <<options, world, interfaces, crashed>>
    BY DEF TakeCall, Taking, Take
  <1>2. Top \in Frame /\ FrameInv(Top, evm1mode, metering, world["evm2wasm"])
    BY <1>1, TopFacts
  <1>3. Rest
    BY <1>1, RestKept
  <1> QED
    BY <1>1, <1>2, <1>3, Moves

\* The client takes the result.
LEMMA DoneKeeps ==
  ASSUME Inv, Done
  PROVE  Inv'
PROOF
  <1>1. /\ ~crashed /\ frames = <<>> /\ answer' = NoAnswer
        /\ UNCHANGED <<options, world, frames, interfaces, crashed>>
    BY DEF Done
  <1>2. Rest
    BY <1>1, RestKept
  <1>3. HeraTypeOK'
    BY <1>1, <1>2 DEF Inv, HeraTypeOK, Rest
  <1>4. StackInv(frames', evm1mode', metering', world'["evm2wasm"])
    BY <1>1, <1>2 DEF Inv, Rest
  <1>5. AnswerInv(frames', answer') /\ Tracks(interfaces', frames')
    BY <1>1 DEF Inv, AnswerInv, Tracks
  <1>6. TranslatorEnds' /\ ReplacedOnlyIfSupplied'
    BY <1>2 DEF TranslatorEnds, Rest
  <1> QED
    BY <1>3, <1>4, <1>5, <1>6 DEF Inv

(***************************************************************************)
(* The theorems.                                                           *)
(***************************************************************************)

\* Every step keeps the invariant.
LEMMA NextInv == Inv /\ [HeraNext]_heraVars => Inv'
PROOF
  <1> SUFFICES ASSUME Inv, [HeraNext]_heraVars
               PROVE  Inv'
    OBVIOUS
  <1>1. CASE SetOption
    BY <1>1, OptionsKeep
  <1>2. ASSUME NEW dest \in Address, NEW rev \in Revisions,
               hera_execute("CALL", dest, rev, world[dest])
        PROVE  Inv'
    <2>1. world[dest] \in Codes
      BY DEF Inv, HeraTypeOK
    <2> QED
      BY <1>2, <2>1, ExecuteKeeps
  <1>3. ASSUME NEW dest \in Address, NEW rev \in Revisions, NEW code \in InitCodes,
               dest \in Users, hera_execute("CREATE", dest, rev, code)
        PROVE  Inv'
    BY <1>3, CodesAssumption, ExecuteKeeps
  <1>4. CASE Start
    BY <1>4, StartKeeps
  <1>5. ASSUME NEW outcome \in Ends, NEW out \in Outputs,
               FinishRunevm(outcome, IF outcome = "SUCCESS" THEN out ELSE "empty")
        PROVE  Inv'
    <2>1. (IF outcome = "SUCCESS" THEN out ELSE "empty") \in Codes
      BY CodesAssumption DEF Codes
    <2> QED
      BY <1>5, <2>1, FinishRunevmKeeps
  <1>6. CASE RunChecked
    BY <1>6, RunCheckedKeeps
  <1>7. ASSUME NEW dest \in Users, Call("CALL", dest, world[dest])
        PROVE  Inv'
    <2>1. world[dest] \in Codes
      BY DEF Inv, HeraTypeOK, Address
    <2> QED
      BY <1>7, <2>1, CallKeeps
  <1>8. ASSUME NEW dest \in Users, NEW code \in InitCodes, Call("CREATE", dest, code)
        PROVE  Inv'
    BY <1>8, CodesAssumption, CallKeeps
  <1>9. ASSUME NEW outcome \in Ends, NEW out \in Outputs,
               frames # <<>>, Honest(Top, outcome, out),
               FinishRun(outcome, IF outcome = "SUCCESS" THEN out ELSE "empty")
        PROVE  Inv'
    <2> DEFINE o == IF outcome = "SUCCESS" THEN out ELSE "empty"
    <2>1. o \in Codes
      BY CodesAssumption DEF Codes
    <2>2. Top.dest = "sentinel" /\ outcome = "SUCCESS" => o \in {"metered", "empty"}
      BY <1>9 DEF Honest
    <2>3. FinishRun(outcome, o)
      BY <1>9
    <2> HIDE DEF o
    <2> QED
      BY <1>9, <2>1, <2>2, <2>3, FinishRunKeeps
  <1>10. CASE MeterDeployed
    BY <1>10, MeterDeployedKeeps
  <1>11. CASE TakeTranslation \/ TakeMeteredCreation \/ TakeMeteredDeploy \/ TakeCall
    BY <1>11, TakeTranslationKeeps, TakeMeteredCreationKeeps, TakeMeteredDeployKeeps,
       TakeCallKeeps
  <1>12. CASE Done
    BY <1>12, DoneKeeps
  <1>13. CASE UNCHANGED heraVars
    <2>1. HeraTypeOK'
      BY <1>13 DEF Inv, HeraTypeOK, heraVars
    <2>2. TranslatorEnds' /\ ReplacedOnlyIfSupplied'
      BY <1>13 DEF Inv, TranslatorEnds, ReplacedOnlyIfSupplied, heraVars
    <2>3. /\ StackInv(frames', evm1mode', metering', world'["evm2wasm"])
          /\ AnswerInv(frames', answer') /\ Tracks(interfaces', frames')
      BY <1>13 DEF Inv, heraVars
    <2> QED
      BY <2>1, <2>2, <2>3 DEF Inv
  <1> QED
    BY <1>1, <1>2, <1>3, <1>4, <1>5, <1>6, <1>7, <1>8, <1>9, <1>10, <1>11, <1>12, <1>13
       DEF HeraNext

\* The invariant holds throughout.
LEMMA HeraInv == HeraSpec => []Inv
  BY InitInv, NextInv, PTL DEF HeraSpec

\* hera_execute calls its system contracts without end in one case only, when
\* the translator is itself code that has to be translated, and it replaces
\* the code of no account that the client did not name, in every mode and for
\* every bound on the native stack that leaves room for the system contracts.
THEOREM SystemCalls == HeraSpec => []SystemContractsSound
PROOF
  <1>1. Inv => SystemContractsSound
    BY DEF Inv, SystemContractsSound
  <1> QED
    BY <1>1, HeraInv, PTL

\* The engine is handed only code that hera checked: whole contracts of
\* version 1, metered creation code, and unmetered interfaces for the
\* interpreter of runevm alone.
THEOREM EngineCorrect == HeraSpec => []EngineInput
PROOF
  <1>1. ASSUME Inv
        PROVE  EngineInput
    <2> SUFFICES ASSUME NEW i \in DOMAIN frames, frames[i].at = "run"
                 PROVE  /\ hasWasmPreamble(frames[i].run) /\ hasWasmVersion1(frames[i].run)
                        /\ ~frames[i].meter => evm1mode = "runevm" /\ ~frames[i].isWasm
                        /\ frames[i].kind = "CREATE" /\ frames[i].isWasm /\ metering =>
                             frames[i].run = "metered"
      BY DEF EngineInput
    <2>1. i \in 1..Len(frames) /\ frames[i] \in Frame
      BY <1>1 DEF Inv, StackInv
    <2> DEFINE f == frames[i]
    <2>2. FrameInv(f, evm1mode, metering, world["evm2wasm"])
      BY <1>1, <2>1 DEF Inv, StackInv
    <2>3. f.meter \in BOOLEAN /\ f.isWasm \in BOOLEAN /\ metering \in BOOLEAN
      BY <1>1, <2>1 DEF Inv, HeraTypeOK, Frame
    <2>4. hasWasmPreamble(f.run) /\ hasWasmVersion1(f.run)
      BY <2>2 DEF FrameInv, Loadable, hasWasmPreamble, hasWasmVersion1
    <2>5. f.meter = FALSE => evm1mode = "runevm" /\ f.isWasm = FALSE
      BY <2>2 DEF FrameInv
    <2>6. f.kind = "CREATE" /\ f.isWasm = TRUE /\ metering = TRUE => f.run = "metered"
      BY <2>2 DEF FrameInv
    <2> QED
      BY <2>3, <2>4, <2>5, <2>6
  <1> QED
    BY <1>1, HeraInv, PTL

\* The host functions of wavm.cpp use the interface of the activation that
\* runs, however deeply engines are nested and however they end.
THEOREM InterfaceCorrect == HeraSpec => []InterfaceOfRunning
PROOF
  <1>1. ASSUME Inv
        PROVE  InterfaceOfRunning
    <2>1. /\ interfaces \in Seq(Nat) /\ Ascending(interfaces)
          /\ Range(interfaces) = InEngine(frames) /\ frames \in Seq(Frame)
      BY <1>1 DEF Inv, Tracks, StackInv
    <2>2. ASSUME Running
          PROVE  Last(interfaces) = Len(frames)
      <3>1. frames # <<>> /\ Top.at = "run"
        BY <2>2 DEF Running
      <3>2. Len(frames) \in DOMAIN frames
        BY <2>1, <3>1
      <3>3. Len(frames) \in Range(interfaces)
        BY <2>1, <3>1, <3>2 DEF InEngine, Top
      <3>4. \A i \in Range(interfaces) : i <= Len(frames)
        BY <2>1, InEngineBelow
      <3> QED
        BY <2>1, <3>3, <3>4, PopTracks
    <2> QED
      BY <2>1, <2>2 DEF InterfaceOfRunning
  <1> QED
    BY <1>1, HeraInv, PTL

\* What a creation deploys while metering is on came from the sentinel, and the
\* engine can load whatever wasm code is deployed.
THEOREM DeployCorrect == HeraSpec => DeployedMetered
PROOF
  <1> DEFINE Step ==
        \A a \in Address :
          world'[a] # world[a] /\ hasWasmPreamble(world'[a]) =>
            world'[a] \in (IF metering THEN {"metered"} ELSE {"wasm", "metered"})
  <1>1. ASSUME NEW out \in Codes, NEW frame, NEW outcome,
               Stored(frame, outcome, out), world \in [Address -> Codes],
               hasWasmPreamble(out) /\ frame.kind = "CREATE" /\ outcome = "SUCCESS" =>
                 out \in (IF metering THEN {"metered"} ELSE {"wasm", "metered"})
        PROVE  Step
    <2> SUFFICES ASSUME NEW a \in Address, world'[a] # world[a], hasWasmPreamble(world'[a])
                 PROVE  world'[a] \in (IF metering THEN {"metered"} ELSE {"wasm", "metered"})
      OBVIOUS
    <2>1. frame.kind = "CREATE" /\ outcome = "SUCCESS" /\ world'[a] = out
      BY <1>1 DEF Stored
    <2> QED
      BY <1>1, <2>1
  <1>2. ASSUME Inv, NEW outcome \in Ends, NEW out \in Codes, FinishRun(outcome, out)
        PROVE  Step
    <2>0. world \in [Address -> Codes]
      BY <1>2 DEF Inv, HeraTypeOK
    <2>1. CASE UNCHANGED world
      BY <2>1
    <2>2. CASE ~Deploys(Top, outcome, out) /\ Stored(Top, outcome, out)
      <3>1. ~(hasWasmPreamble(out) /\ Top.kind = "CREATE" /\ outcome = "SUCCESS")
        BY <2>2 DEF Deploys
      <3> QED
        BY <1>1, <2>0, <2>2, <3>1
    <2>3. CASE ~metering /\ Loadable(out) /\ Stored(Top, "SUCCESS", out)
      <3>1. out \in (IF metering THEN {"metered"} ELSE {"wasm", "metered"})
        BY <2>3 DEF Loadable
      <3> QED
        BY <1>1, <2>0, <2>3, <3>1
    <2> QED
      BY <1>2, <2>1, <2>2, <2>3 DEF FinishRun
  <1>3. ASSUME Inv, TakeMeteredDeploy
        PROVE  Step
    <2>0. world \in [Address -> Codes]
      BY <1>3 DEF Inv, HeraTypeOK
    <2>1. CASE UNCHANGED world
      BY <2>1
    <2>2. CASE Succeeded /\ Loadable(answer.out) /\ Stored(Top, "SUCCESS", answer.out)
      <3>1. answer # NoAnswer /\ frames # <<>> /\ Top.at = "meterDeploy"
        BY <1>3 DEF TakeMeteredDeploy, Taking
      <3>2. answer.out \in {"metered", "empty"} /\ answer.out \in Codes
        BY <1>3, <2>2, <3>1, AnswerFacts DEF Inv, AnswerInv, Succeeded, Top
      <3>3. answer.out = "metered"
        BY <2>2, <3>2 DEF Loadable
      <3>4. answer.out \in (IF metering THEN {"metered"} ELSE {"wasm", "metered"})
        BY <3>3
      <3> QED
        BY <1>1, <2>0, <2>2, <3>2, <3>4
    <2> QED
      BY <1>3, <2>1, <2>2 DEF TakeMeteredDeploy, Invalid, Fail
  <1>4. ASSUME Inv, HeraNext
        PROVE  Step
    <2>1. CASE UNCHANGED world
      BY <2>1
    <2>2. ASSUME NEW outcome \in Ends, NEW out \in Outputs,
                 FinishRun(outcome, IF outcome = "SUCCESS" THEN out ELSE "empty")
          PROVE  Step
      <3>1. (IF outcome = "SUCCESS" THEN out ELSE "empty") \in Codes
        BY CodesAssumption DEF Codes
      <3> QED
        BY <1>2, <1>4, <2>2, <3>1
    <2>3. CASE TakeMeteredDeploy
      BY <1>3, <1>4, <2>3
    <2> HIDE DEF Step
    <2>4. SetOption => UNCHANGED world
      BY DEF SetOption, SetEvm1Mode, SetMetering, hera_parse_sys_option, Keep
    <2>5. ASSUME NEW kind, NEW dest, NEW rev, NEW code
          PROVE  /\ hera_execute(kind, dest, rev, code) => UNCHANGED world
                 /\ Call(kind, dest, code) => UNCHANGED world
      BY DEF hera_execute, Call
    <2>6. ASSUME NEW address, NEW f
          PROVE  callSystemContract(address, f) => UNCHANGED world
      BY DEF callSystemContract
    <2>7. Start => UNCHANGED world
      BY <2>6 DEF Start, Fail, Continue, RunRunevm, evm2wasm
    <2>8. RunChecked \/ MeterDeployed => UNCHANGED world
      BY <2>6 DEF RunChecked, MeterDeployed, sentinel, RunEngine, Invalid, Fail
    <2>9. ASSUME NEW outcome, NEW out
          PROVE  FinishRunevm(outcome, out) => UNCHANGED world
      BY DEF FinishRunevm
    <2>10. TakeTranslation \/ TakeMeteredCreation \/ TakeCall \/ Done => UNCHANGED world
      BY DEF TakeTranslation, TakeMeteredCreation, TakeCall, Done, Take, Invalid, Fail
    <2> QED
      BY <1>4, <2>1, <2>2, <2>3, <2>4, <2>5, <2>7, <2>8, <2>9, <2>10 DEF HeraNext
  <1>5. Inv /\ [HeraNext]_heraVars => [Step]_heraVars
    BY <1>4
  <1> QED
    BY <1>5, HeraInv, PTL DEF HeraSpec, DeployedMetered

(***************************************************************************)
(* The 32-bit bounds check.                                                *)
(***************************************************************************)
\* It is exact but for a range that ends at the end of the address space.
LEMMA Within32Exact ==
  ASSUME NEW o \in Offset, NEW n \in Offset, NEW limit \in 0..AddrSpace
  PROVE  Within32(o, n, limit) <=> o + n <= limit /\ o + n < AddrSpace
  BY MemoryAssumption DEF Within32, Add32, Offset

\* A range that passes it is not wrapped around.
LEMMA Range32Within ==
  ASSUME NEW o \in Offset, NEW n \in Offset, NEW limit \in 0..AddrSpace, Within32(o, n, limit)
  PROVE  /\ Range32(o, n) \subseteq 0..(limit - 1)
         /\ \A i \in 0..(n - 1) : Add32(o, i) = o + i /\ o + i < limit
<1>1. o + n <= limit /\ o + n < AddrSpace
  BY Within32Exact
<1>2. \A i \in 0..(n - 1) : Add32(o, i) = o + i /\ o + i < limit
  BY <1>1, MemoryAssumption DEF Add32, Offset
<1>3. \A i \in 0..(n - 1) : Add32(o, i) \in 0..(limit - 1)
  BY <1>1, <1>2, MemoryAssumption DEF Offset
<1> QED BY <1>2, <1>3 DEF Range32

\* The number of bytes eeiCallDataCopy asks for is a uint32_t.
LEMMA CopiedType ==
  ASSUME NEW src \in Buffers, NEW s \in Offset, NEW n \in Offset
  PROVE  Copied(src, s, n) \in Offset
<1>1. Len(src) \in 0..(AddrSpace - 1)
  BY MemoryAssumption
<1> QED BY <1>1, MemoryAssumption DEF Copied, Sub32, Offset

(***************************************************************************)
(* The inductive invariant: types and no access outside.                   *)
(***************************************************************************)
MemInv == TypeOK /\ NoAccessOutside

\* What every action starts from.
LEMMA Sizes32 ==
  ASSUME TypeOK
  PROVE  /\ size \in 0..AddrSpace /\ mem \in [0..(size - 1) -> Byte] /\ DOMAIN mem = 0..(size - 1)
         /\ WordSize \in Offset /\ HalfSize \in Offset /\ 0 \in Offset
  BY MemoryAssumption DEF TypeOK, Offset

\* An operation that fails changes no memory.
LEMMA FailsInv ==
  ASSUME MemInv, UNCHANGED size, NEW e \in {"InvalidMemoryAccess", "ArgumentOutOfRange", "InternalError"},
         Fails(e)
  PROVE  MemInv'
<1>1. TypeOK'
  BY DEF MemInv, TypeOK, Fails
<1>2. NoAccessOutside'
  BY DEF Fails, NoAccessOutside
<1> QED BY <1>1, <1>2 DEF MemInv

\* A load changes no memory.
LEMMA LoadInv ==
  ASSUME MemInv, UNCHANGED <<size, mem, status>>, taken' = <<{}, 0>>, touched' \subseteq 0..(size - 1)
  PROVE  MemInv'
<1>1. TypeOK'
  BY DEF MemInv, TypeOK
<1>2. NoAccessOutside'
  BY DEF NoAccessOutside
<1> QED BY <1>1, <1>2 DEF MemInv

\* storeMemory: a store of n bytes that passed the check.
LEMMA StoreBytesInv ==
  ASSUME MemInv, UNCHANGED size, NEW w \in Word, NEW o \in Offset, StoreBytes(w, o)
  PROVE  MemInv'
<1>1. CASE ~Within32(o, WordSize, size) /\ Fails("InvalidMemoryAccess")
  BY <1>1, FailsInv
<1>2. CASE ~(~Within32(o, WordSize, size) /\ Fails("InvalidMemoryAccess"))
  <2>1. /\ Within32(o, WordSize, size)
        /\ mem' = [j \in DOMAIN mem |->
                     IF j \in o..(o + WordSize - 1) THEN w[j - o + 1] ELSE mem[j]]
        /\ touched' = Range32(o, WordSize) /\ taken' = <<0..(WordSize - 1), WordSize>>
        /\ status' = status
    BY <1>2 DEF StoreBytes
  <2>2. /\ size \in 0..AddrSpace /\ mem \in [0..(size - 1) -> Byte] /\ DOMAIN mem = 0..(size - 1)
        /\ WordSize \in Offset
    BY Sizes32 DEF MemInv
  <2>3. \A j \in 0..(size - 1) : j \in o..(o + WordSize - 1) => w[j - o + 1] \in Byte
    BY <2>2, MemoryAssumption DEF Offset, Word
  <2>4. mem' \in [0..(size - 1) -> Byte]
    BY <2>1, <2>2, <2>3
  <2>5. TypeOK'
    BY <2>1, <2>4 DEF MemInv, TypeOK
  <2>6. touched' \subseteq 0..(size - 1)
    BY <2>1, <2>2, Range32Within
  <2>7. NoAccessOutside'
    BY <2>1, <2>6 DEF NoAccessOutside
  <2> QED BY <2>5, <2>7 DEF MemInv
<1> QED BY <1>1, <1>2

\* storeMemoryReverse: the same bytes in the other order.
LEMMA StoreUint256Inv ==
  ASSUME MemInv, UNCHANGED size, NEW w \in Word, NEW o \in Offset, StoreUint256(w, o)
  PROVE  MemInv'
<1>1. CASE ~Within32(o, WordSize, size) /\ Fails("InvalidMemoryAccess")
  BY <1>1, FailsInv
<1>2. CASE ~(~Within32(o, WordSize, size) /\ Fails("InvalidMemoryAccess"))
  <2>1. /\ Within32(o, WordSize, size)
        /\ mem' = [j \in DOMAIN mem |->
             IF j \in o..(o + WordSize - 1) THEN w[WordSize - (j - o + 1) + 1] ELSE mem[j]]
        /\ touched' = {Add32(o, WordSize - (i + 1)) : i \in 0..(WordSize - 1)}
        /\ taken' = <<0..(WordSize - 1), WordSize>> /\ status' = status
    BY <1>2 DEF StoreUint256, Reversed
  <2>2. /\ size \in 0..AddrSpace /\ mem \in [0..(size - 1) -> Byte] /\ DOMAIN mem = 0..(size - 1)
        /\ WordSize \in Offset
    BY Sizes32 DEF MemInv
  <2>3. \A j \in 0..(size - 1) : j \in o..(o + WordSize - 1) => w[WordSize - (j - o + 1) + 1] \in Byte
    BY <2>2, MemoryAssumption DEF Offset, Word
  <2>4. mem' \in [0..(size - 1) -> Byte]
    BY <2>1, <2>2, <2>3
  <2>5. TypeOK'
    BY <2>1, <2>4 DEF MemInv, TypeOK
  <2>6. \A i \in 0..(WordSize - 1) : Add32(o, i) = o + i /\ o + i < size
    BY <2>1, <2>2, Range32Within
  <2>7. \A i \in 0..(WordSize - 1) : WordSize - (i + 1) \in 0..(WordSize - 1)
    BY <2>2 DEF Offset
  <2>8. \A i \in 0..(WordSize - 1) : Add32(o, WordSize - (i + 1)) \in 0..(size - 1)
    BY <2>2, <2>6, <2>7 DEF Offset
  <2>9. touched' \subseteq 0..(size - 1)
    BY <2>1, <2>8
  <2>10. NoAccessOutside'
    BY <2>1, <2>9 DEF NoAccessOutside
  <2> QED BY <2>5, <2>10 DEF MemInv
<1> QED BY <1>1, <1>2

\* storeUint128: the low half of the word.
LEMMA StoreUint128Inv ==
  ASSUME MemInv, UNCHANGED size, NEW w \in Word, NEW o \in Offset, StoreUint128(w, o)
  PROVE  MemInv'
<1>1. CASE Fails("ArgumentOutOfRange")
  BY <1>1, FailsInv
<1>2. CASE Fails("InvalidMemoryAccess")
  BY <1>2, FailsInv
<1>3. CASE ~Fails("ArgumentOutOfRange") /\ ~Fails("InvalidMemoryAccess")
  <2> PICK hi : hi = WordSize - HalfSize
    OBVIOUS
  <2>1. /\ Within32(o, HalfSize, size)
        /\ mem' = [j \in DOMAIN mem |->
             IF j \in o..(o + HalfSize - 1) THEN w[hi + (HalfSize - (j - o + 1)) + 1] ELSE mem[j]]
        /\ touched' = {Add32(o, HalfSize - (i + 1)) : i \in 0..(HalfSize - 1)}
        /\ taken' = <<hi..(WordSize - 1), WordSize>> /\ status' = status
    BY <1>3 DEF StoreUint128, Reversed
  <2>2. /\ size \in 0..AddrSpace /\ mem \in [0..(size - 1) -> Byte] /\ DOMAIN mem = 0..(size - 1)
        /\ HalfSize \in Offset /\ hi \in Nat /\ hi + HalfSize = WordSize
    BY Sizes32, MemoryAssumption DEF MemInv
  <2>3. \A j \in 0..(size - 1) : j \in o..(o + HalfSize - 1) =>
          w[hi + (HalfSize - (j - o + 1)) + 1] \in Byte
    BY <2>2, MemoryAssumption DEF Offset, Word
  <2>4. mem' \in [0..(size - 1) -> Byte]
    BY <2>1, <2>2, <2>3
  <2>5. TypeOK'
    BY <2>1, <2>4 DEF MemInv, TypeOK
  <2>6. \A i \in 0..(HalfSize - 1) : Add32(o, i) = o + i /\ o + i < size
    BY <2>1, <2>2, Range32Within
  <2>7. \A i \in 0..(HalfSize - 1) : HalfSize - (i + 1) \in 0..(HalfSize - 1)
    BY <2>2 DEF Offset
  <2>8. \A i \in 0..(HalfSize - 1) : Add32(o, HalfSize - (i + 1)) \in 0..(size - 1)
    BY <2>2, <2>6, <2>7 DEF Offset
  <2>9. touched' \subseteq 0..(size - 1)
    BY <2>1, <2>8
  <2>10. hi..(WordSize - 1) \subseteq 0..(WordSize - 1)
    BY <2>2, MemoryAssumption
  <2>11. NoAccessOutside'
    BY <2>1, <2>9, <2>10 DEF NoAccessOutside
  <2> QED BY <2>5, <2>11 DEF MemInv
<1> QED BY <1>1, <1>2, <1>3

\* storeMemory from a view: neither side is left.
LEMMA StoreViewInv ==
  ASSUME MemInv, UNCHANGED size, NEW src \in Seq(Byte), Len(src) < AddrSpace,
         NEW s \in Offset, NEW d \in Offset, NEW n \in Offset, StoreView(src, s, d, n)
  PROVE  MemInv'
<1>1. CASE Fails("InvalidMemoryAccess")
  BY <1>1, FailsInv
<1>2. CASE ~Fails("InvalidMemoryAccess")
  <2>1. /\ Within32(s, n, Len(src)) /\ Within32(d, n, size)
        /\ mem' = [j \in DOMAIN mem |->
                     IF j \in d..(d + n - 1) THEN src[s + (j - d) + 1] ELSE mem[j]]
        /\ touched' = Range32(d, n) /\ taken' = <<Range32(s, n), Len(src)>> /\ status' = status
    BY <1>2 DEF StoreView
  <2>2. /\ size \in 0..AddrSpace /\ mem \in [0..(size - 1) -> Byte] /\ DOMAIN mem = 0..(size - 1)
        /\ Len(src) \in 0..AddrSpace
    BY Sizes32, MemoryAssumption DEF MemInv
  <2>3. s + n <= Len(src)
    BY <2>1, <2>2, Within32Exact
  <2>4. \A j \in 0..(size - 1) : j \in d..(d + n - 1) => s + (j - d) + 1 \in 1..Len(src)
    BY <2>2, <2>3, MemoryAssumption DEF Offset
  <2>5. \A j \in 0..(size - 1) : j \in d..(d + n - 1) => src[s + (j - d) + 1] \in Byte
    BY <2>4
  <2>6. mem' \in [0..(size - 1) -> Byte]
    BY <2>1, <2>2, <2>5
  <2>7. TypeOK'
    BY <2>1, <2>6 DEF MemInv, TypeOK
  <2>8. Range32(d, n) \subseteq 0..(size - 1) /\ Range32(s, n) \subseteq 0..(Len(src) - 1)
    BY <2>1, <2>2, Range32Within
  <2>9. NoAccessOutside'
    BY <2>1, <2>8 DEF NoAccessOutside
  <2> QED BY <2>7, <2>9 DEF MemInv
<1> QED BY <1>1, <1>2

\* The copies are storeMemory from some view.
LEMMA CopiesInv ==
  ASSUME MemInv, UNCHANGED size, NEW src \in Buffers,
         NEW o \in Offset, NEW s \in Offset, NEW n \in Offset, NEW a \in Offset,
         CodeCopy(src, o, s, n) \/ CallDataCopy(src, o, s, n) \/ ExternalCodeCopy(src, a, o, s, n)
  PROVE  MemInv'
<1>1. src \in Seq(Byte) /\ Len(src) < AddrSpace /\ Len(src) \in Nat /\ 0 \in Offset
  BY MemoryAssumption DEF Offset
<1>2. CASE CodeCopy(src, o, s, n)
  BY <1>1, <1>2, StoreViewInv DEF CodeCopy
<1>3. CASE CallDataCopy(src, o, s, n)
  BY <1>1, <1>3, StoreViewInv, CopiedType DEF CallDataCopy
<1>4. CASE ExternalCodeCopy(src, a, o, s, n)
  <2>1. CASE Fails("InvalidMemoryAccess")
    BY <2>1, FailsInv
  <2>2. CASE ~Fails("InvalidMemoryAccess")
    <3> PICK sub : sub = SubSeq(src, s + 1, s + n)
      OBVIOUS
    <3>1. n = 0 \/ s + n <= Len(src)
      BY <1>4, <2>2 DEF ExternalCodeCopy
    <3>2. StoreView(sub, 0, o, n)
      BY <1>4, <2>2 DEF ExternalCodeCopy
    <3>3. sub \in Seq(Byte) /\ Len(sub) < AddrSpace
      <4>1. CASE n = 0
        <5>1. s + 1 > s + n
          BY <4>1 DEF Offset
        <5>2. sub = << >>
          BY <1>1, <5>1 DEF Offset
        <5>3. << >> \in Seq(Byte) /\ Len(<< >>) = 0 /\ 0 < AddrSpace
          BY MemoryAssumption
        <5> QED BY <5>2, <5>3
      <4>2. CASE n # 0
        <5>1. s + n <= Len(src) /\ s + 1 \in 1..Len(src) /\ s + n \in Nat
          BY <1>1, <3>1, <4>2 DEF Offset
        <5>2. sub \in Seq(Byte) /\ Len(sub) = n
          BY <1>1, <5>1 DEF Offset
        <5>3. n < AddrSpace
          BY MemoryAssumption DEF Offset
        <5> QED BY <5>2, <5>3
      <4> QED BY <4>1, <4>2
    <3> QED BY <1>1, <3>2, <3>3, StoreViewInv
  <2> QED BY <2>1, <2>2
<1> QED BY <1>2, <1>3, <1>4

\* The loads and the debug functions.
LEMMA ReadsInv ==
  ASSUME MemInv, UNCHANGED size, NEW o \in Offset, NEW n \in Offset, NEW opcode,
         Load(o, n) \/ LoadChecked(o, n) \/ DebugPrintMem(o, n) \/ DebugEvmTrace(opcode, o)
  PROVE  MemInv'
<1>1. CASE Fails("InvalidMemoryAccess") \/ Fails("InternalError")
  BY <1>1, FailsInv
<1>2. size \in 0..AddrSpace
  BY Sizes32 DEF MemInv
<1>3. CASE ~Fails("InvalidMemoryAccess") /\ ~Fails("InternalError")
  <2>1. CASE Load(o, n) \/ LoadChecked(o, n)
    <3>1. /\ Within64(o, n, size) /\ touched' = o..(o + n - 1) /\ taken' = <<{}, 0>>
          /\ UNCHANGED <<mem, status>>
      BY <1>3, <2>1 DEF Load, LoadChecked
    <3>2. touched' \subseteq 0..(size - 1)
      BY <1>2, <3>1 DEF Within64, Offset
    <3> QED BY <3>1, <3>2, LoadInv
  <2>2. CASE DebugPrintMem(o, n)
    <3>1. /\ size >= Add32(o, n) /\ touched' = o..(Add32(o, n) - 1) /\ taken' = <<{}, 0>>
          /\ UNCHANGED <<mem, status>>
      BY <1>3, <2>2 DEF DebugPrintMem
    <3>2. Add32(o, n) \in Int
      BY MemoryAssumption DEF Add32, Offset
    <3>3. touched' \subseteq 0..(size - 1)
      BY <1>2, <3>1, <3>2 DEF Offset
    <3> QED BY <3>1, <3>3, LoadInv
  <2>3. CASE DebugEvmTrace(opcode, o)
    <3> PICK items : items = {i \in 0..o : i % WordSize = 0}
      OBVIOUS
    <3>1. /\ \A i \in items : Within64(i, WordSize, size)
          /\ touched' = UNION {i..(i + WordSize - 1) : i \in items} /\ taken' = <<{}, 0>>
          /\ UNCHANGED <<mem, status>>
      BY <1>3, <2>3 DEF DebugEvmTrace
    <3>2. items \subseteq Nat /\ WordSize \in Nat
      BY MemoryAssumption DEF Offset
    <3>3. \A i \in items : i..(i + WordSize - 1) \subseteq 0..(size - 1)
      BY <1>2, <3>1, <3>2 DEF Within64
    <3>4. touched' \subseteq 0..(size - 1)
      BY <3>1, <3>3
    <3> QED BY <3>1, <3>4, LoadInv
  <2> QED BY <2>1, <2>2, <2>3
<1> QED BY <1>1, <1>3

\* Growing keeps what is there and clears the rest.
LEMMA GrowInv ==
  ASSUME MemInv, Grow
  PROVE  MemInv'
<1>1. PICK n \in Sizes : /\ n > size /\ size' = n
                         /\ mem' = [j \in 0..(n - 1) |-> IF j < size THEN mem[j] ELSE 0]
  BY DEF Grow
<1>2. touched' = {} /\ taken' = <<{}, 0>> /\ status' = status
  BY DEF Grow
<1>3. size \in 0..AddrSpace /\ mem \in [0..(size - 1) -> Byte] /\ n \in 0..AddrSpace
  BY Sizes32, MemoryAssumption DEF MemInv
<1>4. \A j \in 0..(n - 1) : j < size => mem[j] \in Byte
  BY <1>3
<1>5. mem' \in [0..(n - 1) -> Byte]
  BY <1>1, <1>4, MemoryAssumption
<1>6. TypeOK'
  BY <1>1, <1>2, <1>5 DEF MemInv, TypeOK
<1> QED BY <1>2, <1>6 DEF MemInv, NoAccessOutside

\* Every step keeps the invariant.
LEMMA StepMem == MemInv /\ [Next]_vars => MemInv'
<1> SUFFICES ASSUME MemInv, [Next]_vars PROVE MemInv'
  OBVIOUS
<1>1. CASE UNCHANGED vars
  BY <1>1 DEF vars, MemInv, TypeOK, NoAccessOutside
<1>2. CASE Grow
  BY <1>2, GrowInv
<1>3. CASE Operation /\ UNCHANGED size
  <2>1. PICK o \in Offset, n \in Offset :
          \/ \E w \in Word : n = 0 /\ (StoreBytes(w, o) \/ StoreUint256(w, o) \/ StoreUint128(w, o))
          \/ Load(o, n) \/ LoadChecked(o, n) \/ DebugPrintMem(o, n)
          \/ n = 0 /\ \E opcode \in {0, 256} : DebugEvmTrace(opcode, o)
          \/ \E src \in Buffers, s \in Offset :
               \/ CodeCopy(src, o, s, n) \/ CallDataCopy(src, o, s, n)
               \/ \E a \in Offset : ExternalCodeCopy(src, a, o, s, n)
    BY <1>3 DEF Operation
  <2>2. CASE \E w \in Word : StoreBytes(w, o) \/ StoreUint256(w, o) \/ StoreUint128(w, o)
    BY <1>3, <2>2, StoreBytesInv, StoreUint256Inv, StoreUint128Inv
  <2>3. CASE Load(o, n) \/ LoadChecked(o, n) \/ DebugPrintMem(o, n)
    BY <1>3, <2>3, ReadsInv
  <2>4. CASE \E opcode \in {0, 256} : DebugEvmTrace(opcode, o)
    BY <1>3, <2>4, ReadsInv
  <2>5. CASE \E src \in Buffers, s \in Offset :
               \/ CodeCopy(src, o, s, n) \/ CallDataCopy(src, o, s, n)
               \/ \E a \in Offset : ExternalCodeCopy(src, a, o, s, n)
    BY <1>3, <2>5, CopiesInv
  <2> QED BY <2>1, <2>2, <2>3, <2>4, <2>5
<1> QED BY <1>1, <1>2, <1>3 DEF Next

\* The memory is clear at first.
LEMMA InitMem == Init => MemInv
<1> SUFFICES ASSUME Init PROVE MemInv
  OBVIOUS
<1>1. TypeOK
  BY MemoryAssumption DEF Init, TypeOK
<1>2. NoAccessOutside
  BY DEF Init, NoAccessOutside
<1> QED BY <1>1, <1>2 DEF MemInv

\* Whatever the contract passes, no operation reaches outside the memory or the
\* buffer it copies from: the unchecked memorySet and memoryGet are safe.
THEOREM MemorySafe == Spec => []NoAccessOutside
<1>1. MemInv => NoAccessOutside
  BY DEF MemInv
<1> QED BY <1>1, InitMem, StepMem, PTL DEF Spec

\* The memory keeps its type.
THEOREM MemoryTyped == Spec => []TypeOK
<1>1. MemInv => TypeOK
  BY DEF MemInv
<1> QED BY <1>1, InitMem, StepMem, PTL DEF Spec

\* The check of a store is exact, and a copy of call data moves the bytes that
\* exist, for every size of memory and buffers.
THEOREM ChecksExact == Spec => []StoreExact /\ []CallDataCopyExact
<1>1. MemInv => StoreExact
  <2> SUFFICES ASSUME MemInv, NEW o \in Offset
               PROVE  Within32(o, WordSize, size) <=>
                        o + WordSize <= size /\ o + WordSize < AddrSpace
    BY DEF StoreExact
  <2>1. size \in 0..AddrSpace /\ WordSize \in Offset
    BY Sizes32 DEF MemInv
  <2> QED BY <2>1, Within32Exact
<1>2. MemInv => CallDataCopyExact
  <2> SUFFICES ASSUME MemInv, NEW src \in Buffers, NEW r \in Offset, NEW s \in Offset, NEW n \in Offset,
                      NEW exist, exist = (IF s + n <= Len(src) THEN n ELSE Len(src) - s),
                      NEW copied, copied = Copied(src, s, n)
               PROVE  LET succeeds == Within32(s, copied, Len(src)) /\ Within32(r, copied, size)
                      IN /\ succeeds <=> /\ s <= Len(src) /\ s + n < AddrSpace
                                         /\ r + exist <= size /\ r + exist < AddrSpace
                         /\ succeeds => copied = exist
    BY DEF CallDataCopyExact
  <2>1. /\ size \in 0..AddrSpace /\ Len(src) \in 0..(AddrSpace - 1) /\ AddrSpace \in Nat
        /\ s \in 0..(AddrSpace - 1) /\ n \in 0..(AddrSpace - 1) /\ r \in 0..(AddrSpace - 1)
    BY Sizes32, MemoryAssumption DEF MemInv, Offset
  <2>2. copied \in Offset
    BY CopiedType
  <2>3. copied \in 0..(AddrSpace - 1)
    BY <2>2 DEF Offset
  <2>4. Within32(s, copied, Len(src)) <=> s + copied <= Len(src) /\ s + copied < AddrSpace
    BY <2>1, <2>2, Within32Exact
  <2>5. Within32(r, copied, size) <=> r + copied <= size /\ r + copied < AddrSpace
    BY <2>1, <2>2, Within32Exact
  <2>6. CASE s + n < AddrSpace /\ s + n <= Len(src)
    <3>1. copied = n /\ exist = n
      BY <2>1, <2>6 DEF Copied, Add32
    <3> QED BY <2>1, <2>4, <2>5, <2>6, <3>1
  <2>7. CASE s + n < AddrSpace /\ s + n > Len(src)
    <3>1. copied = (IF Len(src) >= s THEN Len(src) - s ELSE Len(src) - s + AddrSpace)
      BY <2>1, <2>7 DEF Copied, Add32, Sub32
    <3>2. exist = Len(src) - s
      BY <2>1, <2>7
    <3> QED BY <2>1, <2>4, <2>5, <2>7, <3>1, <3>2
  <2>8. CASE s + n >= AddrSpace
    <3>1. CASE s + n - AddrSpace <= Len(src)
      <4>1. copied = n
        BY <2>1, <2>8, <3>1 DEF Copied, Add32
      <4> QED BY <2>1, <2>4, <2>8, <4>1
    <3>2. CASE s + n - AddrSpace > Len(src)
      <4>1. copied = (IF Len(src) >= s THEN Len(src) - s ELSE Len(src) - s + AddrSpace)
        BY <2>1, <2>8, <3>2 DEF Copied, Add32, Sub32
      <4>2. s > Len(src)
        BY <2>1, <2>8, <3>2
      <4> QED BY <2>1, <2>4, <2>8, <4>1, <4>2
    <3> QED BY <2>1, <3>1, <3>2
  <2> QED BY <2>1, <2>6, <2>7, <2>8
<1> QED BY <1>1, <1>2, InitMem, StepMem, PTL DEF Spec

(***************************************************************************)
(* Reading back.                                                           *)
(***************************************************************************)

\* What was stored last lies inside the memory, byte for byte: st says what,
\* m and sz are the memory and its size.
Holds(m, sz, st) ==
  \/ st = Nothing
  \/ \E o \in Offset, w \in Word :
       \/ /\ st = <<"bytes", o, w>> /\ o + WordSize <= sz
          /\ \A i \in 1..WordSize : m[o + i - 1] = w[i]
       \/ /\ st = <<"uint256", o, w>> /\ o + WordSize <= sz
          /\ \A i \in 1..WordSize : m[o + WordSize - i] = w[i]
       \/ /\ st = <<"uint128", o, w>> /\ o + HalfSize <= sz
          /\ \A i \in 1..WordSize :
               IF i <= WordSize - HalfSize THEN w[i] = 0 ELSE m[o + WordSize - i] = w[i]
  \/ \E o \in Offset, w \in Seq(Byte) :
       /\ st = <<"view", o, w>> /\ o + Len(w) <= sz
       /\ \A i \in 1..Len(w) : m[o + i - 1] = w[i]

\* A memory that agrees with m where m is defined holds what m holds.
LEMMA StillHolds ==
  ASSUME NEW sz \in Nat, NEW sz2 \in Nat, sz <= sz2, NEW m, NEW m2,
         \A j \in 0..(sz - 1) : m2[j] = m[j], NEW st, Holds(m, sz, st)
  PROVE  Holds(m2, sz2, st)
<1>0. WordSize \in Nat /\ HalfSize \in Nat /\ HalfSize < WordSize /\ Offset \subseteq Nat
  BY MemoryAssumption DEF Offset
<1>1. CASE st = Nothing
  BY <1>1 DEF Holds
<1>2. ASSUME NEW o \in Offset, NEW w \in Word,
             \/ /\ st = <<"bytes", o, w>> /\ o + WordSize <= sz
                /\ \A i \in 1..WordSize : m[o + i - 1] = w[i]
             \/ /\ st = <<"uint256", o, w>> /\ o + WordSize <= sz
                /\ \A i \in 1..WordSize : m[o + WordSize - i] = w[i]
             \/ /\ st = <<"uint128", o, w>> /\ o + HalfSize <= sz
                /\ \A i \in 1..WordSize :
                     IF i <= WordSize - HalfSize THEN w[i] = 0 ELSE m[o + WordSize - i] = w[i]
      PROVE  Holds(m2, sz2, st)
  <2>1. CASE /\ st = <<"bytes", o, w>> /\ o + WordSize <= sz
             /\ \A i \in 1..WordSize : m[o + i - 1] = w[i]
    <3>1. \A i \in 1..WordSize : o + i - 1 \in 0..(sz - 1)
      BY <1>0, <2>1
    <3>2. o + WordSize <= sz2 /\ \A i \in 1..WordSize : m2[o + i - 1] = w[i]
      BY <1>0, <2>1, <3>1
    <3> QED BY <2>1, <3>2 DEF Holds
  <2>2. CASE /\ st = <<"uint256", o, w>> /\ o + WordSize <= sz
             /\ \A i \in 1..WordSize : m[o + WordSize - i] = w[i]
    <3>1. \A i \in 1..WordSize : o + WordSize - i \in 0..(sz - 1)
      BY <1>0, <2>2
    <3>2. o + WordSize <= sz2 /\ \A i \in 1..WordSize : m2[o + WordSize - i] = w[i]
      BY <1>0, <2>2, <3>1
    <3> QED BY <2>2, <3>2 DEF Holds
  <2>3. CASE /\ st = <<"uint128", o, w>> /\ o + HalfSize <= sz
             /\ \A i \in 1..WordSize :
                  IF i <= WordSize - HalfSize THEN w[i] = 0 ELSE m[o + WordSize - i] = w[i]
    <3>1. \A i \in 1..WordSize : ~(i <= WordSize - HalfSize) => o + WordSize - i \in 0..(sz - 1)
      BY <1>0, <2>3
    <3>2. /\ o + HalfSize <= sz2
          /\ \A i \in 1..WordSize :
               IF i <= WordSize - HalfSize THEN w[i] = 0 ELSE m2[o + WordSize - i] = w[i]
      BY <1>0, <2>3, <3>1
    <3> QED BY <2>3, <3>2 DEF Holds
  <2> QED BY <1>2, <2>1, <2>2, <2>3
<1>3. ASSUME NEW o \in Offset, NEW w \in Seq(Byte), st = <<"view", o, w>>, o + Len(w) <= sz,
             \A i \in 1..Len(w) : m[o + i - 1] = w[i]
      PROVE  Holds(m2, sz2, st)
  <2>1. Len(w) \in Nat /\ \A i \in 1..Len(w) : o + i - 1 \in 0..(sz - 1)
    BY <1>0, <1>3
  <2>2. o + Len(w) <= sz2
    BY <1>0, <1>3, <2>1
  <2>3. ASSUME NEW i \in 1..Len(w) PROVE m2[o + i - 1] = w[i]
    <3>1. m2[o + i - 1] = m[o + i - 1]
      BY <1>0, <2>1
    <3> QED BY <1>3, <3>1
  <2> QED BY <1>3, <2>2, <2>3 DEF Holds
<1> QED BY <1>1, <1>2, <1>3 DEF Holds

HoldsInv == MemInv /\ Holds(mem, size, stored)

\* Each of the stores establishes it.
LEMMA StoresHold ==
  ASSUME HoldsInv, UNCHANGED size, NEW w \in Word, NEW o \in Offset,
         StoreBytes(w, o) \/ StoreUint256(w, o) \/ StoreUint128(w, o)
  PROVE  Holds(mem', size', stored')
<1>0. /\ size \in 0..AddrSpace /\ DOMAIN mem = 0..(size - 1) /\ o \in Nat /\ AddrSpace \in Nat
      /\ WordSize \in Nat /\ HalfSize \in Nat /\ HalfSize < WordSize /\ size' = size
      /\ WordSize \in Offset /\ HalfSize \in Offset
  BY Sizes32, MemoryAssumption DEF HoldsInv, MemInv, Offset
<1>1. CASE Fails("InvalidMemoryAccess") \/ Fails("ArgumentOutOfRange")
  BY <1>1 DEF Fails, Holds
<1>2. CASE StoreBytes(w, o) /\ ~Fails("InvalidMemoryAccess")
  <2>1. /\ Within32(o, WordSize, size) /\ stored' = <<"bytes", o, w>>
        /\ mem' = [j \in DOMAIN mem |->
                     IF j \in o..(o + WordSize - 1) THEN w[j - o + 1] ELSE mem[j]]
    BY <1>2 DEF StoreBytes
  <2>2. o + WordSize <= size
    BY <1>0, <2>1, Within32Exact
  <2>3. ASSUME NEW i \in 1..WordSize PROVE mem'[o + i - 1] = w[i]
    <3>1. o + i - 1 \in DOMAIN mem /\ o + i - 1 \in o..(o + WordSize - 1) /\ o + i - 1 - o + 1 = i
      BY <1>0, <2>2
    <3> QED BY <1>0, <2>1, <3>1
  <2> QED BY <1>0, <2>1, <2>2, <2>3 DEF Holds
<1>3. CASE StoreUint256(w, o) /\ ~Fails("InvalidMemoryAccess")
  <2>1. /\ Within32(o, WordSize, size) /\ stored' = <<"uint256", o, w>>
        /\ mem' = [j \in DOMAIN mem |->
             IF j \in o..(o + WordSize - 1) THEN w[Reversed(WordSize, j - o) + 1] ELSE mem[j]]
    BY <1>3 DEF StoreUint256
  <2>2. o + WordSize <= size
    BY <1>0, <2>1, Within32Exact
  <2>3. ASSUME NEW i \in 1..WordSize PROVE mem'[o + WordSize - i] = w[i]
    <3>1. /\ o + WordSize - i \in DOMAIN mem /\ o + WordSize - i \in o..(o + WordSize - 1)
          /\ Reversed(WordSize, o + WordSize - i - o) + 1 = i
      BY <1>0, <2>2 DEF Reversed
    <3> QED BY <1>0, <2>1, <3>1
  <2> QED BY <1>0, <2>1, <2>2, <2>3 DEF Holds
<1>4. CASE StoreUint128(w, o) /\ ~Fails("InvalidMemoryAccess") /\ ~Fails("ArgumentOutOfRange")
  <2>1. /\ Within32(o, HalfSize, size) /\ stored' = <<"uint128", o, w>> /\ ~ExceedsUint128(w)
        /\ mem' = [j \in DOMAIN mem |->
             IF j \in o..(o + HalfSize - 1)
             THEN w[WordSize - HalfSize + Reversed(HalfSize, j - o) + 1] ELSE mem[j]]
    BY <1>4 DEF StoreUint128
  <2>2. o + HalfSize <= size
    BY <1>0, <2>1, Within32Exact
  <2>3. ASSUME NEW i \in 1..WordSize
        PROVE  IF i <= WordSize - HalfSize THEN w[i] = 0 ELSE mem'[o + WordSize - i] = w[i]
    <3>1. CASE i <= WordSize - HalfSize
      <4>1. i \in 1..(WordSize - HalfSize)
        BY <1>0, <3>1
      <4> QED BY <2>1, <3>1, <4>1 DEF ExceedsUint128
    <3>2. CASE ~(i <= WordSize - HalfSize)
      <4>1. /\ o + WordSize - i \in DOMAIN mem /\ o + WordSize - i \in o..(o + HalfSize - 1)
            /\ WordSize - HalfSize + Reversed(HalfSize, o + WordSize - i - o) + 1 = i
        BY <1>0, <2>2, <3>2 DEF Reversed
      <4> QED BY <1>0, <2>1, <3>2, <4>1
    <3> QED BY <3>1, <3>2
  <2> QED BY <1>0, <2>1, <2>2, <2>3 DEF Holds
<1> QED BY <1>1, <1>2, <1>3, <1>4

\* So does a copy, for the bytes it moved.
LEMMA ViewHolds ==
  ASSUME HoldsInv, UNCHANGED size, NEW src \in Seq(Byte), Len(src) < AddrSpace,
         NEW s \in Offset, NEW d \in Offset, NEW n \in Offset, StoreView(src, s, d, n)
  PROVE  Holds(mem', size', stored')
<1>0. /\ size \in 0..AddrSpace /\ DOMAIN mem = 0..(size - 1) /\ s \in Nat /\ d \in Nat /\ n \in Nat
      /\ size' = size /\ Len(src) \in 0..AddrSpace /\ AddrSpace \in Nat
  BY Sizes32, MemoryAssumption DEF HoldsInv, MemInv, Offset
<1>1. CASE Fails("InvalidMemoryAccess")
  BY <1>1 DEF Fails, Holds
<1>2. CASE ~Fails("InvalidMemoryAccess")
  <2> PICK sub : sub = SubSeq(src, s + 1, s + n)
    OBVIOUS
  <2>1. /\ Within32(s, n, Len(src)) /\ Within32(d, n, size) /\ stored' = <<"view", d, sub>>
        /\ mem' = [j \in DOMAIN mem |->
                     IF j \in d..(d + n - 1) THEN src[s + (j - d) + 1] ELSE mem[j]]
    BY <1>2 DEF StoreView
  <2>2. s + n <= Len(src) /\ d + n <= size
    BY <1>0, <2>1, Within32Exact
  <2>3. sub \in Seq(Byte) /\ Len(sub) = n /\ \A i \in 1..n : sub[i] = src[s + i]
    <3>1. CASE n = 0
      <4>1. s + 1 > s + n
        BY <1>0, <3>1
      <4>2. sub = << >>
        BY <1>0, <4>1
      <4> QED BY <3>1, <4>2
    <3>2. CASE n # 0
      <4>1. s + 1 \in 1..Len(src) /\ s + n \in 1..Len(src) /\ s + n - (s + 1) + 1 = n
        BY <1>0, <2>2, <3>2
      <4>2. sub \in Seq(Byte) /\ Len(sub) = n
        BY <1>0, <4>1
      <4>3. ASSUME NEW i \in 1..n PROVE sub[i] = src[s + i]
        <5>1. s + 1 + i - 1 = s + i /\ i \in 1..(s + n - (s + 1) + 1)
          BY <1>0
        <5> QED BY <1>0, <4>1, <5>1
      <4> QED BY <4>2, <4>3
    <3> QED BY <3>1, <3>2
  <2>4. ASSUME NEW i \in 1..n PROVE mem'[d + i - 1] = sub[i]
    <3>1. d + i - 1 \in DOMAIN mem /\ d + i - 1 \in d..(d + n - 1) /\ s + (d + i - 1 - d) + 1 = s + i
      BY <1>0, <2>2
    <3> QED BY <1>0, <2>1, <2>3, <3>1
  <2>5. /\ stored' = <<"view", d, sub>> /\ d + Len(sub) <= size'
        /\ \A i \in 1..Len(sub) : mem'[d + i - 1] = sub[i]
    BY <1>0, <2>1, <2>2, <2>3, <2>4
  <2> QED BY <2>3, <2>5 DEF Holds
<1> QED BY <1>1, <1>2

\* A source that copy_code filled is no longer than the address space.
LEMMA FilledView ==
  ASSUME NEW src \in Buffers, NEW s \in Offset, NEW n \in Offset, n = 0 \/ s + n <= Len(src)
  PROVE  SubSeq(src, s + 1, s + n) \in Seq(Byte) /\ Len(SubSeq(src, s + 1, s + n)) < AddrSpace
<1>1. src \in Seq(Byte) /\ Len(src) \in Nat /\ s \in Nat /\ n \in Nat /\ n < AddrSpace /\ 0 < AddrSpace
  BY MemoryAssumption DEF Offset
<1>2. CASE n = 0
  <2>1. s + 1 > s + n
    BY <1>1, <1>2
  <2>2. SubSeq(src, s + 1, s + n) = << >>
    BY <1>1, <2>1
  <2> QED BY <1>1, <2>2
<1>3. CASE n # 0
  <2>1. s + 1 \in 1..Len(src) /\ s + n \in 1..Len(src) /\ s + n - (s + 1) + 1 = n
    BY <1>1, <1>3
  <2> QED BY <1>1, <2>1
<1> QED BY <1>2, <1>3

\* Every step keeps it.
LEMMA StepHolds == HoldsInv /\ [Next]_vars => HoldsInv'
<1> SUFFICES ASSUME HoldsInv, [Next]_vars PROVE HoldsInv'
  OBVIOUS
<1>0. MemInv /\ MemInv' /\ Holds(mem, size, stored)
  BY StepMem DEF HoldsInv
<1> SUFFICES Holds(mem', size', stored')
  BY <1>0 DEF HoldsInv
<1>1. CASE UNCHANGED vars
  BY <1>0, <1>1 DEF vars, Holds
<1>2. CASE Grow
  <2>1. PICK n \in Sizes : /\ n > size /\ size' = n /\ stored' = stored
                           /\ mem' = [j \in 0..(n - 1) |-> IF j < size THEN mem[j] ELSE 0]
    BY <1>2 DEF Grow
  <2>2. size \in Nat /\ n \in Nat
    BY <1>0, MemoryAssumption DEF MemInv, TypeOK
  <2>3. \A j \in 0..(size - 1) : mem'[j] = mem[j]
    BY <2>1, <2>2
  <2> QED BY <1>0, <2>1, <2>2, <2>3, StillHolds
<1>3. ASSUME UNCHANGED <<size, mem, stored>> PROVE Holds(mem', size', stored')
  BY <1>0, <1>3
<1>4. ASSUME NEW e, Fails(e) PROVE Holds(mem', size', stored')
  BY <1>4 DEF Fails, Holds
<1>5. CASE Operation /\ UNCHANGED size
  <2>1. PICK o \in Offset, n \in Offset :
          \/ \E w \in Word : n = 0 /\ (StoreBytes(w, o) \/ StoreUint256(w, o) \/ StoreUint128(w, o))
          \/ Load(o, n) \/ LoadChecked(o, n) \/ DebugPrintMem(o, n)
          \/ n = 0 /\ \E opcode \in {0, 256} : DebugEvmTrace(opcode, o)
          \/ \E src \in Buffers, s \in Offset :
               \/ CodeCopy(src, o, s, n) \/ CallDataCopy(src, o, s, n)
               \/ \E a \in Offset : ExternalCodeCopy(src, a, o, s, n)
    BY <1>5 DEF Operation
  <2>2. CASE \E w \in Word : StoreBytes(w, o) \/ StoreUint256(w, o) \/ StoreUint128(w, o)
    BY <1>5, <2>2, StoresHold
  <2>3. CASE Load(o, n) \/ LoadChecked(o, n) \/ DebugPrintMem(o, n)
    <3>1. (\E e : Fails(e)) \/ UNCHANGED <<mem, stored>>
      BY <2>3 DEF Load, LoadChecked, DebugPrintMem
    <3> QED BY <1>3, <1>4, <1>5, <3>1
  <2>4. CASE \E opcode \in {0, 256} : DebugEvmTrace(opcode, o)
    <3>1. (\E e : Fails(e)) \/ UNCHANGED <<mem, stored>>
      BY <2>4 DEF DebugEvmTrace
    <3> QED BY <1>3, <1>4, <1>5, <3>1
  <2>5. ASSUME NEW src \in Buffers, NEW s \in Offset,
               \/ CodeCopy(src, o, s, n) \/ CallDataCopy(src, o, s, n)
               \/ \E a \in Offset : ExternalCodeCopy(src, a, o, s, n)
        PROVE  Holds(mem', size', stored')
    <3>1. src \in Seq(Byte) /\ Len(src) < AddrSpace /\ 0 \in Offset /\ size' = size
      BY <1>5, MemoryAssumption DEF Offset
    <3>2. CASE CodeCopy(src, o, s, n)
      BY <3>1, <3>2, ViewHolds DEF CodeCopy
    <3>3. CASE CallDataCopy(src, o, s, n)
      BY <3>1, <3>3, ViewHolds, CopiedType DEF CallDataCopy
    <3>4. ASSUME NEW a \in Offset, ExternalCodeCopy(src, a, o, s, n)
          PROVE  Holds(mem', size', stored')
      <4>1. CASE Fails("InvalidMemoryAccess")
        BY <1>4, <4>1
      <4>2. CASE ~Fails("InvalidMemoryAccess")
        <5>1. n = 0 \/ s + n <= Len(src)
          BY <3>4, <4>2 DEF ExternalCodeCopy
        <5>2. StoreView(SubSeq(src, s + 1, s + n), 0, o, n)
          BY <3>4, <4>2 DEF ExternalCodeCopy
        <5> QED BY <3>1, <5>1, <5>2, FilledView, ViewHolds
      <4> QED BY <4>1, <4>2
    <3> QED BY <2>5, <3>2, <3>3, <3>4
  <2> QED BY <2>1, <2>2, <2>3, <2>4, <2>5
<1> QED BY <1>1, <1>2, <1>5 DEF Next

\* A memory that holds what was stored gives it back.
LEMMA HoldsReadsBack == HoldsInv => ReadsBack
<1> SUFFICES ASSUME HoldsInv PROVE ReadsBack
  OBVIOUS
<1>0. Holds(mem, size, stored) /\ WordSize \in Nat
  BY MemoryAssumption DEF HoldsInv
<1>1. CASE stored = Nothing
  BY <1>1 DEF ReadsBack, Nothing
<1>2. ASSUME NEW o \in Offset, NEW w \in Word, stored = <<"bytes", o, w>>,
             \A i \in 1..WordSize : mem[o + i - 1] = w[i]
      PROVE  ReadsBack
  <2>1. LoadBytes32(o) = [i \in 1..WordSize |-> w[i]]
    BY <1>2 DEF LoadBytes32
  <2>2. LoadBytes32(o) = w
    BY <2>1 DEF Word
  <2> QED BY <1>2, <2>2 DEF ReadsBack
<1>3. ASSUME NEW o \in Offset, NEW w \in Word, stored = <<"uint256", o, w>>,
             \A i \in 1..WordSize : mem[o + WordSize - i] = w[i]
      PROVE  ReadsBack
  <2>1. LoadUint256(o) = [i \in 1..WordSize |-> w[i]]
    BY <1>3 DEF LoadUint256
  <2>2. LoadUint256(o) = w
    BY <2>1 DEF Word
  <2> QED BY <1>3, <2>2 DEF ReadsBack
<1>4. ASSUME NEW o \in Offset, NEW w \in Word, stored = <<"uint128", o, w>>,
             \A i \in 1..WordSize :
               IF i <= WordSize - HalfSize THEN w[i] = 0 ELSE mem[o + WordSize - i] = w[i]
      PROVE  ReadsBack
  <2>1. LoadUint128(o) = [i \in 1..WordSize |-> w[i]]
    BY <1>4 DEF LoadUint128
  <2>2. LoadUint128(o) = w
    BY <2>1 DEF Word
  <2> QED BY <1>4, <2>2 DEF ReadsBack
<1>5. ASSUME NEW o \in Offset, NEW w \in Seq(Byte), stored = <<"view", o, w>>,
             \A i \in 1..Len(w) : mem[o + i - 1] = w[i]
      PROVE  ReadsBack
  BY <1>5 DEF ReadsBack
<1> QED BY <1>0, <1>1, <1>2, <1>3, <1>4, <1>5 DEF Holds

\* For memories, buffers and words of any size: what the interface stored is
\* what it loads, until something else is stored, and it refuses no more than
\* the check at the end of the address space makes it refuse.
THEOREM MovesExact == Spec => []CopiesExact
<1>1. Init => HoldsInv
  <2>1. Init => stored = Nothing
    BY DEF Init
  <2> QED BY <2>1, InitMem DEF HoldsInv, Holds
<1>2. Spec => []HoldsInv
  BY <1>1, StepHolds, PTL DEF Spec
<1>3. HoldsInv => ReadsBack /\ TypeOK
  BY HoldsReadsBack DEF HoldsInv, MemInv
<1>4. ReadsBack /\ TypeOK /\ StoreExact /\ CallDataCopyExact => CopiesExact
  BY DEF CopiesExact
<1> QED BY <1>2, <1>3, <1>4, ChecksExact, PTL

(***************************************************************************)
(* Linking.  Tables: what two merged tables have, the types of wasm, and   *)
(* the type of every host function the translator declares.                *)
(***************************************************************************)
\* A name is looked up in the first table that has it.
LEMMA MergeFacts ==
  ASSUME NEW a, NEW b
  PROVE  /\ DOMAIN (a ++ b) = DOMAIN a \union DOMAIN b
         /\ \A n \in DOMAIN a : (a ++ b)[n] = a[n]
         /\ \A n \in DOMAIN b : n \notin DOMAIN a => (a ++ b)[n] = b[n]
<1> DEFINE pair == <<a, b>>
<1>1. pair[1] = a /\ pair[2] = b
  OBVIOUS
<1>2. a ++ b = Merged(pair)
  BY Zenon DEF ++
<1> HIDE DEF pair
<1>3. /\ DOMAIN Merged(pair) = DOMAIN pair[1] \union DOMAIN pair[2]
      /\ \A n \in DOMAIN pair[1] : Merged(pair)[n] = pair[1][n]
      /\ \A n \in DOMAIN pair[2] : n \notin DOMAIN pair[1] => Merged(pair)[n] = pair[2][n]
  BY DEF Merged
<1> QED BY <1>1, <1>2, <1>3, Zenon

\* The entries of one type.
LEMMA OfFacts ==
  ASSUME NEW names, NEW params, NEW result
  PROVE  /\ DOMAIN Of(names, params, result) = names
         /\ \A n \in names : Of(names, params, result)[n] = Sig(params, result)
  BY DEF Of

\* Pointers and i32 become i32.
LEMMA LoweredPointers ==
  ASSUME NEW p \in Seq({"ptr", "i32"}), NEW r
  PROVE  Lowered(Sig(p, r)) = Sig(I32s(Len(p)), r)
<1>1. [i \in DOMAIN p |-> IF p[i] = "ptr" THEN "i32" ELSE p[i]] = I32s(Len(p))
  BY DEF I32s
<1>2. Lowered(Sig(p, r)) = [Sig(p, r) EXCEPT !.params = I32s(Len(p))]
  BY <1>1, Zenon DEF Lowered, Sig
<1> QED BY <1>2 DEF Sig

\* A call whose first parameter is the gas.
LEMMA CallParamsFacts ==
  ASSUME NEW k \in Nat
  PROVE  /\ DOMAIN CallParams(k) = 1..(k + 1)
         /\ CallParams(k)[1] = "i64"
         /\ \A i \in 2..(k + 1) : CallParams(k)[i] = "i32"
<1>1. I32s(k) \in Seq({"i32", "i64"}) /\ Len(I32s(k)) = k /\ \A i \in 1..k : I32s(k)[i] = "i32"
  BY DEF I32s
<1>2. <<"i64">> \in Seq({"i32", "i64"}) /\ Len(<<"i64">>) = 1
  OBVIOUS
<1> QED BY <1>1, <1>2 DEF CallParams

\* Its other parameters become i32.
LEMMA LoweredCall ==
  ASSUME NEW p \in Seq({"ptr", "i32", "i64"}), NEW k \in Nat, NEW r, Len(p) = k + 1, p[1] = "i64",
         \A i \in 2..(k + 1) : p[i] \in {"ptr", "i32"}
  PROVE  Lowered(Sig(p, r)) = Sig(CallParams(k), r)
<1> DEFINE q == [i \in DOMAIN p |-> IF p[i] = "ptr" THEN "i32" ELSE p[i]]
<1>1. q = CallParams(k)
  <2>1. DOMAIN q = DOMAIN CallParams(k)
    BY CallParamsFacts
  <2>2. \A i \in DOMAIN q : q[i] = CallParams(k)[i]
    <3>1. \A i \in DOMAIN q : i = 1 \/ i \in 2..(k + 1)
      OBVIOUS
    <3> QED BY <3>1, CallParamsFacts
  <2>3. CallParams(k) = [i \in DOMAIN CallParams(k) |-> CallParams(k)[i]]
    BY DEF CallParams, I32s
  <2> QED BY <2>1, <2>2, <2>3
<1>2. Lowered(Sig(p, r)) = [Sig(p, r) EXCEPT !.params = CallParams(k)]
  BY <1>1, Zenon DEF Lowered, Sig
<1> QED BY <1>2 DEF Sig

\* The type every host function has in wasm.
Type(n) ==
  CASE n \in {"getAddress", "getCaller", "getCallValue", "getBlockCoinbase", "getTxOrigin",
              "getBlockDifficulty", "getTxGasPrice", "selfDestruct", "getSelfBalance"}
         -> Sig(I32s(1), "none")
    [] n \in {"getExternalBalance", "storageStore", "storageLoad", "finish", "revert",
              "getExternalCodeHash"} -> Sig(I32s(2), "none")
    [] n \in {"callDataCopy", "codeCopy", "returnDataCopy"} -> Sig(I32s(3), "none")
    [] n = "externalCodeCopy" -> Sig(I32s(4), "none")
    [] n = "log" -> Sig(I32s(7), "none")
    [] n \in {"getGasLeft", "getBlockGasLimit", "getBlockNumber", "getBlockTimestamp",
              "getBasefee", "getChainID"} -> Sig(<<>>, "i64")
    [] n \in {"getCallDataSize", "getCodeSize", "getReturnDataSize", "returnDataSize"}
         -> Sig(<<>>, "i32")
    [] n = "getExternalCodeSize" -> Sig(I32s(1), "i32")
    [] n = "create" -> Sig(I32s(4), "i32")
    [] n = "create2" -> Sig(I32s(5), "i32")
    [] n = "getBlockHash" -> Sig(CallParams(1), "i32")
    [] n \in {"callDelegate", "callStatic"} -> Sig(CallParams(3), "i32")
    [] n \in {"call", "callCode"} -> Sig(CallParams(4), "i32")
    [] n = "useGas" -> Sig(<<"i64">>, "none")

\* A table of the types of wasm, and one the translator declares.
Fits(t) == \A n \in DOMAIN t : t[n] = Type(n)
Lowers(t) == \A n \in DOMAIN t : Lowered(t[n]) = Type(n)

\* The entries of one type, and tables that are merged.
LEMMA FitsFacts ==
  /\ \A names, p, r : (\A n \in names : Type(n) = Sig(p, r)) => Fits(Of(names, p, r))
  /\ \A a, b : Fits(a) /\ Fits(b) => Fits(a ++ b)
<1>1. ASSUME NEW names, NEW p, NEW r, \A n \in names : Type(n) = Sig(p, r)
      PROVE  Fits(Of(names, p, r))
  <2>1. /\ DOMAIN Of(names, p, r) = names
        /\ \A n \in names : Of(names, p, r)[n] = Sig(p, r)
    BY OfFacts
  <2> QED BY <1>1, <2>1 DEF Fits
<1>2. ASSUME NEW a, NEW b, Fits(a), Fits(b) PROVE Fits(a ++ b)
  <2>1. /\ DOMAIN (a ++ b) = DOMAIN a \union DOMAIN b
        /\ \A n \in DOMAIN a : (a ++ b)[n] = a[n]
        /\ \A n \in DOMAIN b : n \notin DOMAIN a => (a ++ b)[n] = b[n]
    BY MergeFacts
  <2> QED BY <1>2, <2>1 DEF Fits
<1> QED BY <1>1, <1>2, Zenon

\* The same of declarations.
LEMMA LowersFacts ==
  /\ \A names, p, r : (\A n \in names : Type(n) = Lowered(Sig(p, r))) => Lowers(Of(names, p, r))
  /\ \A a, b : Lowers(a) /\ Lowers(b) => Lowers(a ++ b)
<1>1. ASSUME NEW names, NEW p, NEW r, \A n \in names : Type(n) = Lowered(Sig(p, r))
      PROVE  Lowers(Of(names, p, r))
  <2>1. /\ DOMAIN Of(names, p, r) = names
        /\ \A n \in names : Of(names, p, r)[n] = Sig(p, r)
    BY OfFacts
  <2> QED BY <1>1, <2>1 DEF Lowers
<1>2. ASSUME NEW a, NEW b, Lowers(a), Lowers(b) PROVE Lowers(a ++ b)
  <2>1. /\ DOMAIN (a ++ b) = DOMAIN a \union DOMAIN b
        /\ \A n \in DOMAIN a : (a ++ b)[n] = a[n]
        /\ \A n \in DOMAIN b : n \notin DOMAIN a => (a ++ b)[n] = b[n]
    BY MergeFacts
  <2> QED BY <1>2, <2>1 DEF Lowers
<1> QED BY <1>1, <1>2, Zenon

\* What a table has.
Has(t, n) == n \in DOMAIN t

\* A merged table has what either has.
LEMMA HasFacts ==
  /\ \A names, p, r, n : Has(Of(names, p, r), n) <=> n \in names
  /\ \A a, b, n : Has(a ++ b, n) <=> Has(a, n) \/ Has(b, n)
<1>1. ASSUME NEW names, NEW p, NEW r, NEW n
      PROVE  Has(Of(names, p, r), n) <=> n \in names
  BY OfFacts DEF Has
<1>2. ASSUME NEW a, NEW b, NEW n PROVE Has(a ++ b, n) <=> Has(a, n) \/ Has(b, n)
  <2>1. DOMAIN (a ++ b) = DOMAIN a \union DOMAIN b
    BY MergeFacts
  <2> QED BY <2>1 DEF Has
<1> QED BY <1>1, <1>2, Zenon

\* The host functions that every engine has.
Provided == {"getAddress", "getCaller", "getCallValue", "getBlockCoinbase", "getTxOrigin",
  "getBlockDifficulty", "getTxGasPrice", "selfDestruct", "getExternalBalance", "storageStore",
  "storageLoad", "finish", "revert", "callDataCopy", "codeCopy", "returnDataCopy",
  "externalCodeCopy", "log", "getGasLeft", "getBlockGasLimit", "getBlockNumber",
  "getBlockTimestamp", "getCallDataSize", "getCodeSize", "getReturnDataSize",
  "getExternalCodeSize", "create", "getBlockHash", "callDelegate", "callStatic", "call",
  "callCode"}

\* The tables of wabt.cpp.
LEMMA WabtTables ==
  /\ \A n : Has(WabtExecute, n) <=> n \in Provided \union {"useGas", "create2"}
  /\ \A n : Has(WabtVerify, n) <=> n \in Provided \union {"useGas"}
  /\ Fits(WabtExecute) /\ Fits(WabtVerify)
<1>1. \A n : Has(WabtExecute, n) <=> n \in Provided \union {"useGas", "create2"}
  BY HasFacts DEF WabtExecute, WabtCalls, WabtData, WabtBlock, WabtEnd, Provided
<1>2. \A n : Has(WabtVerify, n) <=> n \in Provided \union {"useGas"}
  BY HasFacts DEF WabtVerify, WabtVerifyCalls, WabtVerifyData, WabtVerifyBlock, Provided
<1>3. Fits(WabtCalls) /\ Fits(WabtData) /\ Fits(WabtBlock) /\ Fits(WabtEnd)
  <2>1. Fits(WabtCalls)
    BY FitsFacts DEF WabtCalls, Type
  <2>2. Fits(WabtData)
    BY FitsFacts DEF WabtData, Type
  <2>3. Fits(WabtBlock)
    BY FitsFacts DEF WabtBlock, Type
  <2>4. Fits(WabtEnd)
    BY FitsFacts DEF WabtEnd, Type
  <2> QED BY <2>1, <2>2, <2>3, <2>4
<1>4. Fits(WabtVerifyCalls) /\ Fits(WabtVerifyData) /\ Fits(WabtVerifyBlock)
  <2>1. Fits(WabtVerifyCalls)
    BY FitsFacts DEF WabtVerifyCalls, Type
  <2>2. Fits(WabtVerifyData)
    BY FitsFacts DEF WabtVerifyData, Type
  <2>3. Fits(WabtVerifyBlock)
    BY FitsFacts DEF WabtVerifyBlock, Type
  <2> QED BY <2>1, <2>2, <2>3
<1>5. Fits(WabtExecute) /\ Fits(WabtVerify)
  BY <1>3, <1>4, FitsFacts, Zenon DEF WabtExecute, WabtVerify
<1> QED BY <1>1, <1>2, <1>5

\* The tables of wavm.cpp.
LEMMA WavmTables ==
  /\ \A n : Has(WavmExecute, n) <=> n \in Provided \union {"useGas"}
  /\ \A n : Has(WavmVerify, n) <=> n \in Provided \union {"useGas"}
  /\ Fits(WavmExecute) /\ Fits(WavmVerify)
<1>1. \A n : Has(WavmExecute, n) <=> n \in Provided \union {"useGas"}
  BY HasFacts DEF WavmExecute, WavmData, WavmCalls, Provided
<1>2. \A n : Has(WavmVerify, n) <=> n \in Provided \union {"useGas"}
  BY HasFacts DEF WavmVerify, Provided
<1>3. Fits(WavmData)
  BY FitsFacts DEF WavmData, Type
<1>4. Fits(WavmCalls)
  BY FitsFacts DEF WavmCalls, Type
<1>5. Fits(WavmVerify)
  BY FitsFacts DEF WavmVerify, Type
<1>6. Fits(WavmExecute)
  BY <1>3, <1>4, FitsFacts, Zenon DEF WavmExecute
<1> QED BY <1>1, <1>2, <1>5, <1>6

\* The tables of binaryen.cpp.
LEMMA BinaryenTables ==
  /\ \A n : Has(BinaryenImports, n) <=> n \in Provided \union {"useGas"}
  /\ \A n : Has(BinaryenVerify, n) <=> n \in Provided \union {"useGas", "create2"}
  /\ Fits(BinaryenVerify)
<1>1. \A n : Has(BinaryenImports, n) <=> n \in Provided \union {"useGas"}
  BY HasFacts DEF BinaryenImports, BinaryenData, BinaryenBlock, BinaryenCalls, Provided
<1>2. \A n : Has(BinaryenVerify, n) <=> n \in Provided \union {"useGas", "create2"}
  BY HasFacts DEF BinaryenVerify, Provided
<1>3. Fits(BinaryenVerify)
  BY FitsFacts DEF BinaryenVerify, Type
<1> QED BY <1>1, <1>2, <1>3

\* The declarations of EEIModule.cpp.
LEMMA DeclaredTable ==
  /\ \A n : Has(Declared, n) <=>
       n \in Provided \union {"create2", "getSelfBalance", "getExternalCodeHash", "getBasefee",
                              "getChainID", "returnDataSize"}
  /\ Lowers(Declared)
<1>1. \A n : Has(Declared, n) <=>
        n \in Provided \union {"create2", "getSelfBalance", "getExternalCodeHash", "getBasefee",
                               "getChainID", "returnDataSize"}
  <2>1. \A n : Has(DeclaredCalls, n) <=>
          n \in {"callDataCopy", "call", "callCode", "callStatic", "callDelegate", "create",
                "create2", "finish", "getCallDataSize", "getCallValue", "getCaller", "codeCopy"}
    BY HasFacts DEF DeclaredCalls
  <2>2. \A n : Has(DeclaredData, n) <=>
          n \in {"externalCodeCopy", "getGasLeft", "log", "returnDataSize", "returnDataCopy",
                "revert", "selfDestruct", "getTxGasPrice", "getTxOrigin", "getBlockCoinbase",
                "getBlockDifficulty", "storageLoad", "storageStore"}
    BY HasFacts DEF DeclaredData
  <2>3. \A n : Has(DeclaredBlock, n) <=>
          n \in {"getBlockGasLimit", "getBlockNumber", "getBlockTimestamp", "getBasefee",
                "getChainID", "getBlockHash", "getExternalBalance", "getExternalCodeHash",
                "getAddress", "getSelfBalance", "getCodeSize", "getReturnDataSize",
                "getExternalCodeSize"}
    BY HasFacts DEF DeclaredBlock
  <2>4. \A n : Has(Declared, n) <=>
          Has(DeclaredCalls, n) \/ Has(DeclaredData, n) \/ Has(DeclaredBlock, n)
    BY HasFacts, Zenon DEF Declared
  <2> QED BY <2>1, <2>2, <2>3, <2>4 DEF Provided
<1>2. I32s(0) = <<>>
  BY DEF I32s
<1>3. /\ Lowered(Sig(<<"ptr", "i32", "i32">>, "none")) = Sig(I32s(3), "none")
      /\ Lowered(Sig(<<"ptr", "ptr", "i32", "ptr">>, "i32")) = Sig(I32s(4), "i32")
      /\ Lowered(Sig(<<"ptr", "ptr", "i32", "ptr", "ptr">>, "i32")) = Sig(I32s(5), "i32")
      /\ Lowered(Sig(<<"ptr", "i32">>, "none")) = Sig(I32s(2), "none")
      /\ Lowered(Sig(<<"ptr">>, "none")) = Sig(I32s(1), "none")
      /\ Lowered(Sig(<<"ptr">>, "i32")) = Sig(I32s(1), "i32")
      /\ Lowered(Sig(<<"ptr", "ptr", "i32", "i32">>, "none")) = Sig(I32s(4), "none")
      /\ Lowered(Sig(<<"ptr", "i32", "i32", "ptr", "ptr", "ptr", "ptr">>, "none"))
           = Sig(I32s(7), "none")
      /\ Lowered(Sig(<<"ptr", "ptr">>, "none")) = Sig(I32s(2), "none")
      /\ Lowered(Sig(<<>>, "i32")) = Sig(<<>>, "i32")
      /\ Lowered(Sig(<<>>, "i64")) = Sig(<<>>, "i64")
  <2>1. /\ <<"ptr", "i32", "i32">> \in Seq({"ptr", "i32"}) /\ Len(<<"ptr", "i32", "i32">>) = 3
        /\ <<"ptr", "ptr", "i32", "ptr">> \in Seq({"ptr", "i32"})
        /\ Len(<<"ptr", "ptr", "i32", "ptr">>) = 4
        /\ <<"ptr", "ptr", "i32", "ptr", "ptr">> \in Seq({"ptr", "i32"})
        /\ Len(<<"ptr", "ptr", "i32", "ptr", "ptr">>) = 5
        /\ <<"ptr", "i32">> \in Seq({"ptr", "i32"}) /\ Len(<<"ptr", "i32">>) = 2
        /\ <<"ptr">> \in Seq({"ptr", "i32"}) /\ Len(<<"ptr">>) = 1
        /\ <<"ptr", "ptr", "i32", "i32">> \in Seq({"ptr", "i32"})
        /\ Len(<<"ptr", "ptr", "i32", "i32">>) = 4
        /\ <<"ptr", "i32", "i32", "ptr", "ptr", "ptr", "ptr">> \in Seq({"ptr", "i32"})
        /\ Len(<<"ptr", "i32", "i32", "ptr", "ptr", "ptr", "ptr">>) = 7
        /\ <<"ptr", "ptr">> \in Seq({"ptr", "i32"}) /\ Len(<<"ptr", "ptr">>) = 2
        /\ <<>> \in Seq({"ptr", "i32"}) /\ Len(<<>>) = 0
    OBVIOUS
  <2> QED BY <1>2, <2>1, LoweredPointers, Zenon
<1>4. /\ Lowered(Sig(<<"i64", "ptr", "ptr", "ptr", "i32">>, "i32")) = Sig(CallParams(4), "i32")
      /\ Lowered(Sig(<<"i64", "ptr", "ptr", "i32">>, "i32")) = Sig(CallParams(3), "i32")
      /\ Lowered(Sig(<<"i64", "ptr">>, "i32")) = Sig(CallParams(1), "i32")
  <2>1. Lowered(Sig(<<"i64", "ptr", "ptr", "ptr", "i32">>, "i32")) = Sig(CallParams(4), "i32")
    <3> DEFINE p == <<"i64", "ptr", "ptr", "ptr", "i32">>
    <3>1. /\ p \in Seq({"ptr", "i32", "i64"}) /\ Len(p) = 4 + 1 /\ p[1] = "i64" /\ 4 \in Nat
          /\ \A i \in 2..(4 + 1) : p[i] \in {"ptr", "i32"}
      OBVIOUS
    <3> HIDE DEF p
    <3>2. Lowered(Sig(p, "i32")) = Sig(CallParams(4), "i32")
      BY <3>1, LoweredCall
    <3> QED BY <3>2 DEF p
  <2>2. Lowered(Sig(<<"i64", "ptr", "ptr", "i32">>, "i32")) = Sig(CallParams(3), "i32")
    <3> DEFINE p == <<"i64", "ptr", "ptr", "i32">>
    <3>1. /\ p \in Seq({"ptr", "i32", "i64"}) /\ Len(p) = 3 + 1 /\ p[1] = "i64" /\ 3 \in Nat
          /\ \A i \in 2..(3 + 1) : p[i] \in {"ptr", "i32"}
      OBVIOUS
    <3> HIDE DEF p
    <3>2. Lowered(Sig(p, "i32")) = Sig(CallParams(3), "i32")
      BY <3>1, LoweredCall
    <3> QED BY <3>2 DEF p
  <2>3. Lowered(Sig(<<"i64", "ptr">>, "i32")) = Sig(CallParams(1), "i32")
    <3> DEFINE p == <<"i64", "ptr">>
    <3>1. /\ p \in Seq({"ptr", "i32", "i64"}) /\ Len(p) = 1 + 1 /\ p[1] = "i64" /\ 1 \in Nat
          /\ \A i \in 2..(1 + 1) : p[i] \in {"ptr", "i32"}
      OBVIOUS
    <3> HIDE DEF p
    <3>2. Lowered(Sig(p, "i32")) = Sig(CallParams(1), "i32")
      BY <3>1, LoweredCall
    <3> QED BY <3>2 DEF p
  <2> QED BY <2>1, <2>2, <2>3
<1>5. Lowers(DeclaredCalls)
  BY <1>3, <1>4, LowersFacts DEF DeclaredCalls, Type
<1>6. Lowers(DeclaredData)
  BY <1>3, <1>4, LowersFacts DEF DeclaredData, Type
<1>7. Lowers(DeclaredBlock)
  BY <1>3, <1>4, LowersFacts DEF DeclaredBlock, Type
<1>8. Lowers(Declared)
  BY <1>5, <1>6, <1>7, LowersFacts, Zenon DEF Declared
<1> QED BY <1>1, <1>8

\* The methods of eei.h have the types of the host functions, but take a
\* value more to call as delegate or static.
LEMMA MethodTable ==
  /\ \A n : Has(Method, n) <=> n \in Provided \union {"useGas", "create2"}
  /\ \A n \in DOMAIN Method : n \notin {"callDelegate", "callStatic"} => Method[n] = Type(n)
  /\ \A n \in {"callDelegate", "callStatic"} : Method[n] = Sig(CallParams(4), "i32")
<1> DEFINE OK(t) == /\ \A n \in DOMAIN t : n \notin {"callDelegate", "callStatic"} => t[n] = Type(n)
                    /\ \A n \in DOMAIN t : n \in {"callDelegate", "callStatic"} =>
                                            t[n] = Sig(CallParams(4), "i32")
<1>1. \A n : Has(Method, n) <=> n \in Provided \union {"useGas", "create2"}
  BY HasFacts DEF Method, Provided
<1>2. ASSUME NEW names, NEW p, NEW r,
             \A n \in names : n \notin {"callDelegate", "callStatic"} => Type(n) = Sig(p, r),
             \A n \in names : n \in {"callDelegate", "callStatic"} =>
                               Sig(p, r) = Sig(CallParams(4), "i32")
      PROVE  OK(Of(names, p, r))
  <2>1. /\ DOMAIN Of(names, p, r) = names
        /\ \A n \in names : Of(names, p, r)[n] = Sig(p, r)
    BY OfFacts
  <2> QED BY <1>2, <2>1
<1>3. ASSUME NEW a, NEW b, OK(a), OK(b) PROVE OK(a ++ b)
  <2>1. /\ DOMAIN (a ++ b) = DOMAIN a \union DOMAIN b
        /\ \A n \in DOMAIN a : (a ++ b)[n] = a[n]
        /\ \A n \in DOMAIN b : n \notin DOMAIN a => (a ++ b)[n] = b[n]
    BY MergeFacts
  <2> QED BY <1>3, <2>1
<1> HIDE DEF OK
<1>4. OK(Method)
  BY <1>2, <1>3 DEF Method, Type
<1> QED BY <1>1, <1>4 DEF OK, Has, Provided

(***************************************************************************)
(* What contracts import.                                                  *)
(***************************************************************************)
\* Host functions that are declared and that no engine has.
Missing == {"getSelfBalance", "getExternalCodeHash", "getBasefee", "getChainID"}

\* What an instruction may import.
Gives(i, names) ==
  /\ i \in Unprovided => names # {} /\ names \subseteq Missing
  /\ i = "CREATE2" => names = {"create2"}
  /\ i \notin Unprovided \union {"CREATE2"} => names \subseteq Provided
AllGive(t) == \A i \in DOMAIN t : Gives(i, t[i])

\* Every instruction imports what it may.
LEMMA ImportsOfFacts == AllGive(ImportsOf)
<1>1. AllGive(ImportsOfStorage)
  BY DEF AllGive, Gives, ImportsOfStorage, Unprovided, Missing, Provided
<1>2. AllGive(ImportsOfMessage)
  BY DEF AllGive, Gives, ImportsOfMessage, Unprovided, Missing, Provided
<1>3. AllGive(ImportsOfBlock)
  BY DEF AllGive, Gives, ImportsOfBlock, Unprovided, Missing, Provided
<1>4. AllGive(ImportsOfSizes)
  BY DEF AllGive, Gives, ImportsOfSizes, Unprovided, Missing, Provided
<1>5. AllGive(ImportsOfCopies)
  BY DEF AllGive, Gives, ImportsOfCopies, Unprovided, Missing, Provided
<1>6. AllGive(ImportsOfCalls)
  BY DEF AllGive, Gives, ImportsOfCalls, Unprovided, Missing, Provided
<1>7. AllGive(ImportsOfSha3)
  BY DEF AllGive, Gives, ImportsOfSha3, Unprovided, Missing, Provided
<1>8. AllGive(ImportsOfEnds)
  BY DEF AllGive, Gives, ImportsOfEnds, Unprovided, Missing, Provided
<1>9. ASSUME NEW a, NEW b, AllGive(a), AllGive(b) PROVE AllGive(a ++ b)
  <2>1. /\ DOMAIN (a ++ b) = DOMAIN a \union DOMAIN b
        /\ \A n \in DOMAIN a : (a ++ b)[n] = a[n]
        /\ \A n \in DOMAIN b : n \notin DOMAIN a => (a ++ b)[n] = b[n]
    BY MergeFacts
  <2> QED BY <1>9, <2>1 DEF AllGive
<1> QED BY <1>1, <1>2, <1>3, <1>4, <1>5, <1>6, <1>7, <1>8, <1>9, Zenon DEF ImportsOf

\* Every import is declared; one is missing exactly for an instruction that is
\* not provided, and create2 is imported exactly for CREATE2.
LEMMA ImportsFacts ==
  ASSUME uses \subseteq Instructions
  PROVE  /\ Imports(uses) \subseteq Provided \union Missing \union {"create2"}
         /\ Imports(uses) \intersect Missing = {} <=> uses \intersect Unprovided = {}
         /\ "create2" \in Imports(uses) <=> "CREATE2" \in uses
<1>1. \A i \in uses : Gives(i, ImportsOf[i])
  BY ImportsOfFacts DEF AllGive, Instructions
<1>2. \A n : n \in Imports(uses) <=> n \in Always \/ \E i \in uses : n \in ImportsOf[i]
  BY Zenon DEF Imports
<1>3. /\ Always \subseteq Provided /\ Provided \intersect Missing = {}
      /\ "create2" \notin Provided \union Missing /\ "CREATE2" \notin Unprovided
      /\ "create2" \notin Always /\ Always \intersect Missing = {}
  BY DEF Always, Provided, Missing, Unprovided
<1>4. Imports(uses) \subseteq Provided \union Missing \union {"create2"}
  BY <1>1, <1>2, <1>3 DEF Gives
<1>5. Imports(uses) \intersect Missing = {} <=> uses \intersect Unprovided = {}
  BY <1>1, <1>2, <1>3 DEF Gives
<1>6. "create2" \in Imports(uses) <=> "CREATE2" \in uses
  BY <1>1, <1>2, <1>3 DEF Gives
<1> QED BY <1>4, <1>5, <1>6

\* What binding to a table of the right types comes to.
LEMMA BindsFacts ==
  ASSUME uses \subseteq Instructions, NEW t, Fits(t),
         \A n \in Provided : Has(t, n), \A n \in Missing : ~Has(t, n)
  PROVE  Binds(t) <=> /\ uses \intersect Unprovided = {}
                      /\ "CREATE2" \in uses => Has(t, "create2")
<1>1. \A n \in Imports(uses) : n \in DOMAIN t => t[n] = Lowered(Declared[n])
  <2>1. \A n \in Imports(uses) : n \in DOMAIN Declared
    BY ImportsFacts, DeclaredTable DEF Has, Missing
  <2> QED BY <2>1, DeclaredTable DEF Fits, Lowers
<1>2. Binds(t) <=> \A n \in Imports(uses) : Has(t, n)
  BY <1>1 DEF Binds, Has
<1>3. (\A n \in Imports(uses) : Has(t, n)) <=>
        Imports(uses) \intersect Missing = {} /\ ("create2" \in Imports(uses) => Has(t, "create2"))
  BY ImportsFacts
<1> QED BY <1>2, <1>3, ImportsFacts

\* What each engine demands of the instructions to verify a contract and to
\* run it.
LEMMA EngineFacts ==
  ASSUME uses \subseteq Instructions
  PROVE  /\ Binds(WabtExecute) <=> uses \intersect Unprovided = {}
         /\ Binds(WabtVerify) <=> uses \intersect Unprovided = {} /\ "CREATE2" \notin uses
         /\ Binds(WavmExecute) <=> uses \intersect Unprovided = {} /\ "CREATE2" \notin uses
         /\ Binds(WavmVerify) <=> uses \intersect Unprovided = {} /\ "CREATE2" \notin uses
         /\ Binds(BinaryenVerify) <=> uses \intersect Unprovided = {}
<1>1. /\ "create2" \notin Provided \union Missing /\ "useGas" \notin Missing
      /\ \A n \in Missing : n \notin Provided
  BY DEF Provided, Missing
<1>2. Binds(WabtExecute) <=> uses \intersect Unprovided = {}
  BY <1>1, WabtTables, BindsFacts
<1>3. Binds(WabtVerify) <=> uses \intersect Unprovided = {} /\ "CREATE2" \notin uses
  BY <1>1, WabtTables, BindsFacts
<1>4. Binds(WavmExecute) <=> uses \intersect Unprovided = {} /\ "CREATE2" \notin uses
  BY <1>1, WavmTables, BindsFacts
<1>5. Binds(WavmVerify) <=> uses \intersect Unprovided = {} /\ "CREATE2" \notin uses
  BY <1>1, WavmTables, BindsFacts
<1>6. Binds(BinaryenVerify) <=> uses \intersect Unprovided = {}
  BY <1>1, BinaryenTables, BindsFacts
<1> QED BY <1>2, <1>3, <1>4, <1>5, <1>6

(***************************************************************************)
(* The inductive invariant: where a contract is, its engine has admitted   *)
(* or refused it, and a verified contract is one the engine verifies.      *)
(***************************************************************************)
\* A verified contract is not changed after verification.
VerifiedInv == verified => Verifies

\* A contract runs when the engine has loaded it.
LoadedInv ==
  /\ at = "unverified" => ~Verifies
  /\ at = "refused" => ~Loads
  /\ at \in {"running", "ended", "asserted", "unresolved"} => Loads

\* It calls what it imports, and is stopped where nothing answers.
CallingInv ==
  /\ calling # None => /\ calling \in Imports(uses)
                       /\ at \in {"running", "ended", "asserted", "unresolved"}
  /\ at = "asserted" => calling # None /\ calling \notin Dispatched
  /\ at = "unresolved" => calling # None /\ calling \notin Defined

\* What each action keeps.
LinkInv == LinkTypeOK /\ VerifiedInv /\ LoadedInv /\ CallingInv

\* The conditions of the engines depend on the contract and the engine alone.
LEMMA SameContract ==
  ASSUME uses' = uses, shape' = shape
  PROVE  /\ WabtVerifies' = WabtVerifies /\ WavmVerifies' = WavmVerifies
         /\ BinaryenVerifies' = BinaryenVerifies /\ Imports(uses)' = Imports(uses)
         /\ WabtLoads' = WabtLoads /\ WavmLoads' = WavmLoads
<1>1. \A t : Binds(t)' = Binds(t)
  BY DEF Binds
<1> QED BY <1>1, Zenon DEF WabtVerifies, WavmVerifies, BinaryenVerifies, WabtLoads, WavmLoads

\* And so does what the engine makes of it.
LEMMA SameEngine ==
  ASSUME uses' = uses, shape' = shape, engine' = engine
  PROVE  Verifies' = Verifies /\ Loads' = Loads /\ Dispatched' = Dispatched
<1>1. Verifies' = Verifies
  BY SameContract, Zenon DEF Verifies
<1>2. Loads' = Loads
  BY SameContract, Zenon DEF Loads
<1>3. Dispatched' = Dispatched
  BY Zenon DEF Dispatched
<1> QED BY <1>1, <1>2, <1>3

\* Initial states.
LEMMA LinkInitInv == LinkInit => LinkInv
<1> SUFFICES ASSUME LinkInit PROVE LinkInv
  OBVIOUS
<1>1. uses \subseteq Instructions
  <2>1. PICK h \in [1..MaxUses -> Instructions] : uses = {h[i] : i \in 1..MaxUses}
    BY DEF LinkInit
  <2> QED BY <2>1
<1>2. LinkTypeOK
  BY <1>1 DEF LinkInit, LinkTypeOK, None, Engines
<1> QED BY <1>2 DEF LinkInit, LinkInv, VerifiedInv, LoadedInv, CallingInv, None

\* verifyContract.
LEMMA LinkVerifyKeeps ==
  ASSUME LinkInv, Verify
  PROVE  LinkInv'
<1>1. uses' = uses /\ shape' = shape /\ engine' = engine /\ calling' = calling
  BY DEF Verify
<1>2. LinkTypeOK'
  BY DEF LinkInv, LinkTypeOK, Verify, None
<1>3. CASE Verifies
  <2>1. at' = at /\ at = "idle" /\ calling = None
    BY <1>3 DEF Verify, LinkInv, LinkTypeOK
  <2>2. VerifiedInv'
    BY <1>1, <1>3, SameEngine DEF VerifiedInv
  <2>3. LoadedInv' /\ CallingInv'
    BY <1>1, <2>1 DEF LoadedInv, CallingInv
  <2> QED BY <1>2, <2>2, <2>3 DEF LinkInv
<1>4. CASE ~Verifies
  <2>1. ~verified' /\ at' = "unverified" /\ at = "idle" /\ calling = None
    BY <1>4 DEF Verify, LinkInv, LinkTypeOK
  <2>2. VerifiedInv'
    BY <2>1 DEF VerifiedInv
  <2>3. LoadedInv' /\ CallingInv'
    BY <1>1, <1>4, <2>1, SameEngine DEF LoadedInv, CallingInv
  <2> QED BY <1>2, <2>2, <2>3 DEF LinkInv
<1> QED BY <1>3, <1>4

\* execute, to the call of main.
LEMMA LoadKeeps ==
  ASSUME LinkInv, Execute
  PROVE  LinkInv'
<1>1. /\ uses' = uses /\ shape' = shape /\ engine' = engine /\ verified' = verified
      /\ calling' = calling /\ calling = None
      /\ at' = IF ~Loads THEN "refused" ELSE IF shape = "mainParams" THEN "trapped" ELSE "running"
  BY DEF Execute, LinkInv, LinkTypeOK
<1>2. LinkTypeOK'
  BY <1>1 DEF LinkInv, LinkTypeOK
<1>3. VerifiedInv'
  BY <1>1, SameEngine DEF LinkInv, VerifiedInv
<1>4. LoadedInv' /\ CallingInv'
  BY <1>1, SameEngine DEF LoadedInv, CallingInv
<1> QED BY <1>2, <1>3, <1>4 DEF LinkInv

\* The call of a host function.
LEMMA CallHostKeeps ==
  ASSUME LinkInv, NEW n \in DOMAIN Declared, CallHost(n)
  PROVE  LinkInv'
<1>0. n # None
  BY DeclaredTable DEF Has, Provided, None
<1>1. /\ uses' = uses /\ shape' = shape /\ engine' = engine /\ verified' = verified
      /\ calling' = n /\ n \in Imports(uses) /\ at = "running"
      /\ at' = IF n \notin Dispatched THEN "asserted"
               ELSE IF n \notin Defined THEN "unresolved"
               ELSE IF n \in Ending THEN "ended" ELSE "running"
  BY DEF CallHost
<1>2. LinkTypeOK'
  BY <1>1 DEF LinkInv, LinkTypeOK
<1>3. VerifiedInv'
  BY <1>1, SameEngine DEF LinkInv, VerifiedInv
<1>4. Loads /\ LoadedInv'
  BY <1>1, SameEngine DEF LinkInv, LoadedInv
<1>5. CallingInv'
  BY <1>0, <1>1, SameEngine, SameContract DEF CallingInv
<1> QED BY <1>2, <1>3, <1>4, <1>5 DEF LinkInv

\* Every step keeps the invariant.
LEMMA LinkNextInv == LinkInv /\ [LinkNext]_linkVars => LinkInv'
<1> SUFFICES ASSUME LinkInv, [LinkNext]_linkVars PROVE LinkInv'
  OBVIOUS
<1>1. CASE Verify
  BY <1>1, LinkVerifyKeeps
<1>2. CASE Execute
  BY <1>2, LoadKeeps
<1>3. CASE \E n \in DOMAIN Declared : CallHost(n)
  BY <1>3, CallHostKeeps
<1>4. CASE UNCHANGED linkVars
  <2>1. /\ uses' = uses /\ shape' = shape /\ engine' = engine /\ verified' = verified
        /\ at' = at /\ calling' = calling
    BY <1>4 DEF linkVars
  <2>2. LinkTypeOK'
    BY <2>1 DEF LinkInv, LinkTypeOK
  <2>3. VerifiedInv'
    BY <2>1, SameEngine DEF LinkInv, VerifiedInv
  <2>4. LoadedInv'
    BY <2>1, SameEngine DEF LinkInv, LoadedInv
  <2>5. CallingInv'
    BY <2>1, SameEngine, SameContract DEF LinkInv, CallingInv
  <2> QED BY <2>2, <2>3, <2>4, <2>5 DEF LinkInv
<1> QED BY <1>1, <1>2, <1>3, <1>4, Zenon DEF LinkNext

\* What loading a contract says of its instructions and its shape.
LEMMA LoadsFacts ==
  ASSUME LinkTypeOK
  PROVE  /\ Loads => /\ uses \intersect Unprovided = {}
                     /\ ~("CREATE2" \in uses /\ engine = "wavm")
         /\ shape = "sound" =>
              /\ ~Loads => \/ uses \intersect Unprovided # {}
                           \/ "CREATE2" \in uses /\ engine = "wavm"
              /\ ~Verifies <=> \/ uses \intersect Unprovided # {}
                               \/ "CREATE2" \in uses /\ engine \in {"wabt", "wavm"}
<1>1. uses \subseteq Instructions /\ engine \in {"wabt", "wavm", "binaryen"}
  BY DEF LinkTypeOK, Engines
<1>2. CASE engine = "wabt"
  <2>1. Loads = WabtLoads /\ Verifies = WabtVerifies
    BY <1>2 DEF Loads, Verifies
  <2> QED BY <1>1, <1>2, <2>1, EngineFacts DEF WabtLoads, WabtVerifies
<1>3. CASE engine = "wavm"
  <2>1. Loads = WavmLoads /\ Verifies = WavmVerifies
    BY <1>3 DEF Loads, Verifies
  <2> QED BY <1>1, <1>3, <2>1, EngineFacts DEF WavmLoads, WavmVerifies
<1>4. CASE engine = "binaryen"
  <2>1. Loads = BinaryenVerifies /\ Verifies = BinaryenVerifies
    BY <1>4 DEF Loads, Verifies
  <2> QED BY <1>1, <1>4, <2>1, EngineFacts DEF BinaryenVerifies
<1> QED BY <1>1, <1>2, <1>3, <1>4

\* A sound contract is refused for its instructions only.
LEMMA RefusedFacts == LinkInv => RefusedOnlyUnprovided
<1> SUFFICES ASSUME LinkInv, shape = "sound" PROVE RefusedOnlyUnprovided
  BY DEF RefusedOnlyUnprovided
<1>1. LinkTypeOK /\ LoadedInv /\ uses \subseteq Instructions
  BY DEF LinkInv, LinkTypeOK
<1>2. verified => Verifies
  BY DEF LinkInv, VerifiedInv
<1> QED BY <1>1, <1>2, LoadsFacts DEF LoadedInv, RefusedOnlyUnprovided

\* A verified contract loads, with the exception named.
LEMMA VerifiedFacts == LinkInv => VerifiedLoads
<1> SUFFICES ASSUME LinkInv, verified, at = "refused" PROVE VerifiedLoads
  BY DEF VerifiedLoads
<1>1. /\ uses \subseteq Instructions /\ engine \in {"wabt", "wavm", "binaryen"}
      /\ ~Loads /\ Verifies
  BY DEF LinkInv, LinkTypeOK, LoadedInv, VerifiedInv, Engines
<1>2. CASE engine = "wabt"
  <2>1. WabtVerifies /\ ~WabtLoads
    BY <1>1, <1>2 DEF Verifies, Loads
  <2> QED BY <1>1, <2>1, EngineFacts DEF WabtVerifies, WabtLoads
<1>3. CASE engine = "wavm"
  <2>1. WavmVerifies /\ ~WavmLoads
    BY <1>1, <1>3 DEF Verifies, Loads
  <2> QED BY <1>1, <1>3, <2>1, EngineFacts DEF WavmVerifies, WavmLoads, VerifiedLoads
<1>4. CASE engine = "binaryen"
  BY <1>1, <1>4 DEF Verifies, Loads
<1> QED BY <1>1, <1>2, <1>3, <1>4

\* What a running contract calls.
LEMMA CalledFacts ==
  ASSUME LinkInv, calling # None
  PROVE  /\ calling \in Provided \union {"create2"}
         /\ calling = "create2" => engine \in {"wabt", "binaryen"}
<1>1. /\ uses \subseteq Instructions /\ engine \in {"wabt", "wavm", "binaryen"}
      /\ calling \in Imports(uses) /\ Loads /\ LinkTypeOK
  BY DEF LinkInv, LinkTypeOK, LoadedInv, CallingInv, Engines
<1>2. uses \intersect Unprovided = {} /\ ~("CREATE2" \in uses /\ engine = "wavm")
  BY <1>1, LoadsFacts
<1> QED BY <1>1, <1>2, ImportsFacts

\* Only create2 is not answered.
LEMMA AnsweredFacts == LinkInv => OnlyCreate2Unanswered
<1> SUFFICES ASSUME LinkInv, at \in {"asserted", "unresolved"} PROVE OnlyCreate2Unanswered
  BY DEF OnlyCreate2Unanswered
<1>1. /\ calling # None /\ engine \in {"wabt", "wavm", "binaryen"}
      /\ calling \notin Dispatched \/ calling \notin Defined
  BY DEF LinkInv, LinkTypeOK, CallingInv, Engines
<1>2. \A n \in Provided : n \in Dispatched /\ n \in Defined
  <2>1. \A n \in Provided : n \in Dispatched
    BY <1>1, WabtTables, WavmTables, BinaryenTables DEF Dispatched, Has
  <2>2. \A n \in Provided : n \in Defined
    BY MethodTable DEF Defined, Has, Provided
  <2> QED BY <2>1, <2>2
<1> QED BY <1>1, <1>2, CalledFacts DEF OnlyCreate2Unanswered

\* The arguments of callDelegate and callStatic: the gas, the address, a zero
\* value, the data and its length.
LEMMA ShiftedArguments ==
  LET passed == <<1, 2, 0, 3, 4>>
      wanted == CallParams(4)
      given == CallParams(3)
  IN  /\ DOMAIN passed = DOMAIN wanted
      /\ \A i \in DOMAIN wanted : wanted[i] = IF passed[i] = 0 THEN "i32" ELSE given[passed[i]]
      /\ DOMAIN given \subseteq {passed[i] : i \in DOMAIN passed}
<1> DEFINE passed == <<1, 2, 0, 3, 4>>
           wanted == CallParams(4)
           given == CallParams(3)
<1>1. /\ DOMAIN passed = 1..5 /\ passed[1] = 1 /\ passed[2] = 2 /\ passed[3] = 0
      /\ passed[4] = 3 /\ passed[5] = 4
  OBVIOUS
<1>2. /\ DOMAIN wanted = 1..5 /\ DOMAIN given = 1..4
      /\ wanted[1] = "i64" /\ \A i \in 2..5 : wanted[i] = "i32"
      /\ given[1] = "i64" /\ \A i \in 2..4 : given[i] = "i32"
  <2>1. 4 + 1 = 5 /\ 3 + 1 = 4 /\ 4 \in Nat /\ 3 \in Nat
    OBVIOUS
  <2> QED BY <2>1, CallParamsFacts
<1> HIDE DEF passed, wanted, given
<1>3. \A i \in 1..5 : i = 1 \/ i = 2 \/ i = 3 \/ i = 4 \/ i = 5
  OBVIOUS
<1>4. \A i \in DOMAIN wanted : wanted[i] = IF passed[i] = 0 THEN "i32" ELSE given[passed[i]]
  BY <1>1, <1>2, <1>3
<1>5. DOMAIN given \subseteq {passed[i] : i \in DOMAIN passed}
  <2>1. \A i \in 1..4 : i = passed[1] \/ i = passed[2] \/ i = passed[4] \/ i = passed[5]
    BY <1>1
  <2> QED BY <1>1, <1>2, <2>1
<1>6. DOMAIN passed = DOMAIN wanted
  BY <1>1, <1>2
<1> QED BY <1>4, <1>5, <1>6 DEF passed, wanted, given

\* Parameters are counted from one.
LEMMA TypeParams ==
  ASSUME NEW n \in Provided \union {"create2"}
  PROVE  \E k \in Nat : DOMAIN Type(n).params = 1..k
<1>1. \A k \in Nat : \A r : DOMAIN Sig(I32s(k), r).params = 1..k
  BY DEF Sig, I32s
<1>2. \A k \in Nat : \A r : k + 1 \in Nat /\ DOMAIN Sig(CallParams(k), r).params = 1..(k + 1)
  BY CallParamsFacts DEF Sig
<1>3. \A r : DOMAIN Sig(<<>>, r).params = 1..0
  BY DEF Sig
<1>4. \/ \E k \in Nat : \E r : Type(n) = Sig(I32s(k), r)
      \/ \E k \in Nat : \E r : Type(n) = Sig(CallParams(k), r)
      \/ \E r : Type(n) = Sig(<<>>, r)
  BY DEF Type, Provided
<1>5. ASSUME NEW k \in Nat, NEW r, Type(n) = Sig(I32s(k), r)
      PROVE  DOMAIN Type(n).params = 1..k
  BY <1>1, <1>5
<1>6. ASSUME NEW k \in Nat, NEW r, Type(n) = Sig(CallParams(k), r)
      PROVE  k + 1 \in Nat /\ DOMAIN Type(n).params = 1..(k + 1)
  BY <1>2, <1>6
<1>7. ASSUME NEW r, Type(n) = Sig(<<>>, r)
      PROVE  0 \in Nat /\ DOMAIN Type(n).params = 1..0
  BY <1>3, <1>7
<1> QED BY <1>4, <1>5, <1>6, <1>7, Zenon

\* Every argument arrives where the method takes it.
LEMMA ArgumentsFacts == LinkInv => ArgumentsFit
<1> SUFFICES ASSUME LinkInv, calling # None PROVE ArgumentsFit
  BY DEF ArgumentsFit
<1>1. calling \in Provided \union {"create2"}
  BY CalledFacts
<1>2. calling \in DOMAIN Declared /\ calling \in DOMAIN Method
  BY <1>1, DeclaredTable, MethodTable DEF Has
<1>3. Lowered(Declared[calling]) = Type(calling)
  BY <1>2, DeclaredTable DEF Lowers
<1>4. CASE calling \in {"callDelegate", "callStatic"}
  <2>1. Lowered(Declared[calling]) = Sig(CallParams(3), "i32")
    BY <1>3, <1>4 DEF Type
  <2>2. Method[calling] = Sig(CallParams(4), "i32")
    BY <1>4, MethodTable
  <2>3. Passed(calling) = <<1, 2, 0, 3, 4>>
    BY <1>4 DEF Passed
  <2>4. /\ Sig(CallParams(3), "i32").params = CallParams(3)
        /\ Sig(CallParams(4), "i32").params = CallParams(4)
        /\ Sig(CallParams(3), "i32").result = Sig(CallParams(4), "i32").result
    BY DEF Sig
  <2> DEFINE given == Lowered(Declared[calling]).params
             passed == Passed(calling)
             wanted == Method[calling].params
  <2>5. given = CallParams(3) /\ passed = <<1, 2, 0, 3, 4>> /\ wanted = CallParams(4)
    BY <2>1, <2>2, <2>3, <2>4, Zenon
  <2>6. /\ DOMAIN passed = DOMAIN wanted
        /\ \A i \in DOMAIN wanted :
             wanted[i] = IF passed[i] = 0 THEN "i32" ELSE given[passed[i]]
        /\ DOMAIN given \subseteq {passed[i] : i \in DOMAIN passed}
    <3> HIDE DEF given, passed, wanted
    <3> QED BY <2>5, ShiftedArguments
  <2>7. Lowered(Declared[calling]).result = Method[calling].result
    BY <2>1, <2>2, <2>4, Zenon
  <2> QED BY <2>6, <2>7, Zenon DEF ArgumentsFit
<1>5. CASE calling \notin {"callDelegate", "callStatic"}
  <2>1. Method[calling] = Lowered(Declared[calling])
    BY <1>2, <1>3, <1>5, MethodTable
  <2>2. Passed(calling) = [i \in DOMAIN Declared[calling].params |-> i]
    BY <1>5 DEF Passed
  <2>3. DOMAIN Lowered(Declared[calling]).params = DOMAIN Declared[calling].params
    BY <1>2 DEF Lowered
  <2> DEFINE given == Lowered(Declared[calling]).params
             passed == Passed(calling)
             wanted == Method[calling].params
  <2>4. DOMAIN passed = DOMAIN wanted /\ DOMAIN given = DOMAIN passed /\ wanted = given
    BY <2>1, <2>2, <2>3
  <2>5. \A i \in DOMAIN passed : passed[i] = i
    BY <2>2
  <2>6. 0 \notin DOMAIN passed
    <3>1. PICK k \in Nat : DOMAIN given = 1..k
      BY <1>1, <1>3, <1>5, TypeParams
    <3> QED BY <2>4, <3>1
  <2>7. Lowered(Declared[calling]).result = Method[calling].result
    BY <2>1
  <2> HIDE DEF given, passed, wanted
  <2>8. \A i \in DOMAIN wanted : wanted[i] = IF passed[i] = 0 THEN "i32" ELSE given[passed[i]]
    BY <2>4, <2>5, <2>6
  <2>9. DOMAIN given \subseteq {passed[i] : i \in DOMAIN passed}
    BY <2>4, <2>5
  <2> QED BY <2>4, <2>7, <2>8, <2>9, Zenon DEF ArgumentsFit, given, passed, wanted
<1> QED BY <1>4, <1>5

\* What the engines verify, load and bind agrees with what the translator
\* declares (EEIModule.cpp, wabt.cpp, wavm.cpp, binaryen.cpp, eei.h), for
\* every contract: however many host instructions it has and whatever of
\* Faults its module shows.
THEOREM TablesCorrect == LinkSpec => []TablesAgree
<1>1. LinkInv => TablesAgree
  BY RefusedFacts, VerifiedFacts, ArgumentsFacts, AnsweredFacts, Zenon DEF TablesAgree, LinkInv
<1> QED BY <1>1, LinkInitInv, LinkNextInv, PTL DEF LinkSpec
=============================================================================
