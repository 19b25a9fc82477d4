----------------------------- MODULE HostProofs -----------------------------
(***************************************************************************)
(* What a translated contract and its host give each other.  The byte swap *)
(* of EEIModule.cpp turns the bytes of a value of any width, and the words *)
(* of a contract are the EVM's along every history of instructions         *)
(* (HostWords); a sequence of calls differs from the EVM's for the named   *)
(* causes only (Calls); and the selector is exact whatever                 *)
(* calldataCopyPass does (Selector).                                       *)
(***************************************************************************)
EXTENDS HostWords, Calls, Selector, TLAPS

\* A lane of initBswapI256 holds one byte of the value, in its mirror place,
\* and zeros; the two unmasked lanes as well.
LEMMA LaneHolds ==
  ASSUME NEW n \in Nat \ {0}, NEW s \in Bytes(n), NEW k \in 0..(n - 1), NEW i \in 1..n
  PROVE  Lane(s, k)[i] = IF i = n - k THEN s[k + 1] ELSE 0
<1>1. Len(s) = n /\ DOMAIN s = 1..n
  BY DEF Bytes
<1>2. CASE 2 * k < n
  <2>1. n - 1 - 2 * k \in Nat
    BY <1>2
  <2>2. Shl(s, n - 1 - 2 * k)[i] = IF i <= n - 1 - 2 * k THEN 0 ELSE s[i - (n - 1 - 2 * k)]
    BY <1>1, <2>1 DEF Shl
  <2>3. CASE i = n - k
    BY <1>1, <1>2, <2>1, <2>2, <2>3 DEF Lane, AndByte, Shl
  <2>4. CASE i # n - k
    <3>1. CASE k = 0
      BY <1>1, <1>2, <2>1, <2>2, <2>4, <3>1 DEF Lane
    <3>2. CASE k = n - 1
      BY <1>1, <1>2, <2>1, <2>2, <2>4, <3>2 DEF Lane
    <3>3. CASE k \notin {0, n - 1}
      BY <1>1, <1>2, <2>1, <2>2, <2>4, <3>3 DEF Lane, AndByte, Shl
    <3> QED
      BY <3>1, <3>2, <3>3
  <2> QED
    BY <2>3, <2>4
<1>3. CASE ~(2 * k < n)
  <2>1. 2 * k - (n - 1) \in Nat
    BY <1>3
  <2>2. LShr(s, 2 * k - (n - 1))[i]
          = IF i + (2 * k - (n - 1)) \in 1..n THEN s[i + (2 * k - (n - 1))] ELSE 0
    BY <1>1, <2>1 DEF LShr
  <2>3. CASE i = n - k
    BY <1>1, <1>3, <2>1, <2>2, <2>3 DEF Lane, AndByte, LShr
  <2>4. CASE i # n - k
    <3>1. CASE k = 0
      BY <1>1, <1>3, <2>1, <2>2, <2>4, <3>1 DEF Lane
    <3>2. CASE k = n - 1
      BY <1>1, <1>3, <2>1, <2>2, <2>4, <3>2 DEF Lane
    <3>3. CASE k \notin {0, n - 1}
      BY <1>1, <1>3, <2>1, <2>2, <2>4, <3>3 DEF Lane, AndByte, LShr
    <3> QED
      BY <3>1, <3>2, <3>3
  <2> QED
    BY <2>3, <2>4
<1> QED
  BY <1>2, <1>3

\* Or-ing the lanes mirrors the bytes.
LEMMA SwapMirrors ==
  ASSUME NEW n \in Nat \ {0}, NEW s \in Bytes(n), NEW i \in 1..n
  PROVE  bswap256(s)[i] = s[n + 1 - i]
<1> DEFINE bytes == {Lane(s, k)[i] : k \in 0..(n - 1)}
<1>1. Len(s) = n /\ DOMAIN s = 1..n
  BY DEF Bytes
<1>2. bswap256(s)[i] = CHOOSE b \in bytes : \A c \in bytes : b >= c
  BY <1>1 DEF bswap256
<1>3. n - i \in 0..(n - 1) /\ n + 1 - i \in 1..n /\ n - (n - i) = i
  OBVIOUS
<1>4. Lane(s, n - i)[i] = s[n + 1 - i]
  BY <1>3, LaneHolds
<1>5. s[n + 1 - i] \in bytes
  BY <1>3, <1>4
<1>6. s[n + 1 - i] \in Nat
  BY <1>3, ByteAssumption DEF Bytes
<1>7. ASSUME NEW c \in bytes PROVE c = s[n + 1 - i] \/ c = 0
  <2>1. PICK k \in 0..(n - 1) : c = Lane(s, k)[i]
    OBVIOUS
  <2>2. c = IF i = n - k THEN s[k + 1] ELSE 0
    BY <2>1, LaneHolds
  <2>3. i = n - k => k + 1 = n + 1 - i
    OBVIOUS
  <2> QED
    BY <2>2, <2>3
<1> HIDE DEF bytes
<1>8. \A c \in bytes : s[n + 1 - i] >= c
  BY <1>6, <1>7
<1>9. ASSUME NEW b \in bytes, \A c \in bytes : b >= c PROVE b = s[n + 1 - i]
  <2>1. b >= s[n + 1 - i]
    BY <1>5, <1>9
  <2>2. b = s[n + 1 - i] \/ b = 0
    BY <1>7
  <2> QED
    BY <1>6, <2>1, <2>2
<1> QED
  BY <1>2, <1>5, <1>8, <1>9

\* emitEndianConvert on a value of any width from one byte to a word: extend,
\* shift to the top, swap, truncate.  The result is the value's bytes in the
\* opposite order, so that converting twice gives the value back.
THEOREM ConvertTurns ==
  ASSUME NEW n \in Nat \ {0}, n <= WordLen, NEW s \in Bytes(n)
  PROVE  emitEndianConvert(s) = Turned(s)
<1> DEFINE t == Shl(Zext(s, WordLen), WordLen - n)
<1>1. Len(s) = n /\ DOMAIN s = 1..n /\ WordLen \in Nat \ {0} /\ WordLen - n \in Nat
  BY WidthAssumption DEF Bytes
<1>2. Zext(s, WordLen) \in Bytes(WordLen)
  BY <1>1, ByteAssumption DEF Zext, Bytes
<1>3. t \in Bytes(WordLen)
  BY <1>1, <1>2, ByteAssumption DEF Shl, Bytes
<1>4. ASSUME NEW i \in 1..WordLen
      PROVE  t[i] = IF i <= WordLen - n THEN 0 ELSE s[i - (WordLen - n)]
  <2>1. DOMAIN Zext(s, WordLen) = 1..WordLen
    BY DEF Zext
  <2>2. CASE i <= WordLen - n
    BY <1>1, <2>1, <2>2 DEF Shl
  <2>3. CASE ~(i <= WordLen - n)
    <3>1. i - (WordLen - n) \in 1..n /\ i - (WordLen - n) \in 1..WordLen
      BY <1>1, <2>3
    <3>2. t[i] = Zext(s, WordLen)[i - (WordLen - n)]
      BY <2>1, <2>3 DEF Shl
    <3>3. Zext(s, WordLen)[i - (WordLen - n)] = s[i - (WordLen - n)]
      BY <1>1, <3>1 DEF Zext
    <3> QED
      BY <2>3, <3>2, <3>3
  <2> QED
    BY <2>2, <2>3
<1>5. emitEndianConvert(s) = [i \in 1..n |-> bswap256(t)[i]]
  BY <1>1 DEF emitEndianConvert, Trunc
<1>6. ASSUME NEW i \in 1..n PROVE bswap256(t)[i] = s[n + 1 - i]
  <2>1. i \in 1..WordLen /\ WordLen + 1 - i \in 1..WordLen
    BY <1>1
  <2>2. bswap256(t)[i] = t[WordLen + 1 - i]
    BY <1>1, <1>3, <2>1, SwapMirrors
  <2>3. ASSUME NEW j \in 1..WordLen, j = WordLen + 1 - i PROVE t[j] = s[n + 1 - i]
    <3>1. ~(j <= WordLen - n) /\ j - (WordLen - n) = n + 1 - i
      BY <1>1, <2>3
    <3>2. t[j] = IF j <= WordLen - n THEN 0 ELSE s[j - (WordLen - n)]
      BY <1>4
    <3> HIDE DEF t
    <3> QED
      BY <3>1, <3>2
  <2> HIDE DEF t
  <2> QED
    BY <2>1, <2>2, <2>3
<1>7. Turned(s) = [i \in 1..n |-> s[n + 1 - i]]
  BY <1>1 DEF Turned
<1> HIDE DEF t
<1> QED
  BY <1>5, <1>6, <1>7
-----------------------------------------------------------------------------
(***************************************************************************)
(* Calls.                                                                  *)
(***************************************************************************)

\* The shape of the state of Calls, which CallsTypeOK leaves to the reader.
CallsShape ==
  /\ deep \in BOOLEAN /\ calls \in Nat /\ disturbed \in BOOLEAN
  /\ last \in [by : Nat, len : Nat] /\ evmLast \in [by : Nat, len : Nat]
  /\ out \in [1..MaxLen -> [by : Nat, stale : BOOLEAN]]
  /\ evmOut \in [1..MaxLen -> Nat]
  /\ pushed \in [ours : Nat, evm : Nat, gas : Nat, evmGas : Nat, operand : Nat, size : Nat]

\* The causes hold each other up: where return data agrees decides where the
\* copies of it agree and which of them trap, and a deep frame has no return
\* data at all.
CallsInv == CallsShape /\ ReturnDataAgrees /\ CallsExplained

\* What names a call made so far still does after another.
LEMMA StillNamed ==
  ASSUME CallsInv, calls' = calls + 1
  PROVE  /\ \A i \in 1..MaxLen : out[i].by \in 0..(calls + 1) /\ evmOut[i] \in 0..(calls + 1)
         /\ last.by \in 0..(calls + 1) /\ last.len \in 0..MaxLen /\ (last.by = 0 => last.len = 0)
         /\ evmLast.by \in 0..(calls + 1) /\ evmLast.len \in 0..MaxLen
BY LenAssumption DEF CallsInv, CallsShape, CallsExplained, CallsTypeOK

\* The i64 a gas operand is truncated to is no larger than the operand, and is
\* the operand if that fits.
LEMMA TruncatedGasFacts ==
  ASSUME NEW g \in GasWords
  PROVE  /\ g \in Nat /\ TruncatedGas(g) \in Nat /\ TruncatedGas(g) <= g
         /\ g < GasMod => TruncatedGas(g) = g
<1>1. g \in Nat /\ GasMod \in Nat /\ GasMod > 0
  BY GasAssumption
<1> QED
  BY <1>1 DEF TruncatedGas

\* The initial state of a frame.
LEMMA CallsInitInv == CallsInit => CallsInv
<1> SUFFICES ASSUME CallsInit PROVE CallsInv
  OBVIOUS
<1>1. CallsShape
  BY LenAssumption DEF CallsInit, CallsShape, NoData
<1>2. CallsTypeOK
  <2>1. disturbed \in BOOLEAN
    BY DEF CallsInit
  <2>2. last.by = 0 => last.len = 0
    BY DEF CallsInit, NoData
  <2>3. \A i \in 1..MaxLen : out[i].by \in 0..calls /\ evmOut[i] \in 0..calls
    BY LenAssumption DEF CallsInit
  <2>4. /\ last.by \in 0..calls /\ evmLast.by \in 0..calls
        /\ last.len \in 0..MaxLen /\ evmLast.len \in 0..MaxLen
        /\ status \in {"running", "short", "gas"} /\ hash \in {"none", "right", "stale"}
    BY LenAssumption DEF CallsInit, NoData
  <2> QED
    BY <2>1, <2>2, <2>3, <2>4 DEF CallsTypeOK
<1>3. ReturnDataAgrees /\ OutputDiffersOnlyStale /\ TrapsExplained /\ GasForwarded /\ HashNeverStale
  BY DEF CallsInit, ReturnDataAgrees, OutputDiffersOnlyStale, TrapsExplained, GasForwarded, HashNeverStale
<1> QED
  BY <1>1, <1>2, <1>3 DEF CallsInv, CallsExplained

\* A CALL keeps the invariant, refused, completed or trapped.
LEMMA CallInv ==
  ASSUME CallsInv, NEW g \in GasWords, NEW poor \in BOOLEAN, NEW outcome \in Outcomes,
         NEW len \in 0..MaxLen, NEW size \in 0..MaxLen, Call(g, poor, outcome, len, size)
  PROVE  CallsInv'
<1> DEFINE n == calls + 1
           refused == deep \/ poor
           d == LastAfter(refused, n, len)
           e == IF refused THEN NoData ELSE DataOf(n, len)
<1>0. MaxLen \in Nat /\ Cap \in Nat /\ n \in Nat /\ n > 0 /\ refused \in BOOLEAN
  BY LenAssumption, GasAssumption DEF CallsInv, CallsShape
<1>1. CASE Negative(g)
  <2>1. /\ calls' = n /\ status' = "gas"
        /\ UNCHANGED <<deep, last, evmLast, disturbed, out, evmOut, pushed, hash>>
    BY <1>1 DEF Call
  <2>2. CallsShape'
    BY <1>0, <2>1 DEF CallsInv, CallsShape
  <2>3. CallsTypeOK'
    <3>1. disturbed' \in BOOLEAN /\ hash' \in {"none", "right", "stale"}
      BY <2>1 DEF CallsInv, CallsShape, CallsExplained, CallsTypeOK
    <3> QED
      BY <2>1, <3>1, StillNamed DEF CallsTypeOK
  <2>4. /\ ReturnDataAgrees' /\ OutputDiffersOnlyStale' /\ TrapsExplained' /\ GasForwarded'
        /\ HashNeverStale'
    BY <2>1
    DEF CallsInv, CallsExplained, ReturnDataAgrees, OutputDiffersOnlyStale, TrapsExplained,
        GasForwarded, HashNeverStale
  <2> QED
    BY <2>2, <2>3, <2>4 DEF CallsInv, CallsExplained
<1>2. CASE ~Negative(g)
  <2>1. /\ status = "running" /\ calls' = n /\ last' = d /\ evmLast' = e /\ disturbed' = refused
        /\ status' = (IF CopyFits(d, size) THEN "running" ELSE "short")
        /\ out' = (IF CopyFits(d, size) THEN Copied(out, d, refused, size) ELSE out)
        /\ evmOut' = EvmCopied(evmOut, e, size)
        /\ deep' = deep /\ hash' = hash
    BY <1>2 DEF Call
  <2>2. pushed' = [ours |-> IF refused THEN 0 ELSE Pushed(outcome),
                   evm |-> IF ~refused /\ outcome = "success" THEN 1 ELSE 0,
                   gas |-> IF refused THEN 0 ELSE Smaller(TruncatedGas(g), Cap),
                   evmGas |-> IF refused THEN 0 ELSE Smaller(g, Cap),
                   operand |-> g, size |-> size]
    BY <1>2 DEF Call
  <2>3. /\ d \in [by : Nat, len : Nat] /\ e \in [by : Nat, len : Nat]
        /\ d.by \in 0..n /\ e.by \in 0..n /\ d.len \in 0..MaxLen /\ e.len \in 0..MaxLen
        /\ d.by = 0 => d.len = 0
        /\ ~refused => d = e
        /\ deep => d = NoData
    BY <1>0 DEF CallsInv, CallsShape, CallsExplained, CallsTypeOK, HashNeverStale, LastAfter, DataOf, NoData
  <2> HIDE DEF d, e, n, refused
  <2>4. CallsShape'
    <3>1. out' \in [1..MaxLen -> [by : Nat, stale : BOOLEAN]]
      BY <1>0, <2>1, <2>3 DEF CallsInv, CallsShape, Copied
    <3>2. evmOut' \in [1..MaxLen -> Nat]
      BY <1>0, <2>1, <2>3 DEF CallsInv, CallsShape, EvmCopied
    <3>3. pushed' \in [ours : Nat, evm : Nat, gas : Nat, evmGas : Nat, operand : Nat, size : Nat]
      BY <1>0, <2>2, TruncatedGasFacts DEF Pushed, Smaller
    <3> QED
      BY <1>0, <2>1, <2>3, <3>1, <3>2, <3>3 DEF CallsInv, CallsShape
  <2>5. ReturnDataAgrees'
    BY <2>1, <2>3 DEF ReturnDataAgrees
  <2>6. CallsTypeOK'
    <3>1. ASSUME NEW i \in 1..MaxLen PROVE out'[i].by \in 0..n /\ evmOut'[i] \in 0..n
      <4>1. out[i].by \in 0..n /\ evmOut[i] \in 0..n
        <5>1. out[i].by \in 0..calls /\ evmOut[i] \in 0..calls
          BY <1>0, <3>1, Zenon DEF CallsInv, CallsExplained, CallsTypeOK
        <5>2. \A j \in 0..calls : j \in 0..n
          BY <1>0 DEF CallsInv, CallsShape, n
        <5> QED BY <5>1, <5>2, Zenon
      <4> QED
        BY <1>0, <2>1, <2>3, <4>1 DEF Copied, EvmCopied, CallsInv, CallsShape
    <3> QED
      BY <1>0, <2>1, <2>3, <3>1 DEF CallsInv, CallsExplained, CallsTypeOK
  <2>7. OutputDiffersOnlyStale'
    <3> SUFFICES ASSUME status' = "running", NEW i \in 1..MaxLen, out'[i].by # evmOut'[i]
                 PROVE  out'[i].stale
      BY DEF OutputDiffersOnlyStale
    <3>1. CopyFits(d, size) /\ size <= d.len
      BY <2>1 DEF CopyFits
    <3>2. CASE i <= size
      BY <1>0, <2>1, <2>3, <3>1, <3>2 DEF Copied, EvmCopied, Smaller
    <3>3. CASE ~(i <= size)
      <4>1. out'[i] = out[i] /\ evmOut'[i] = evmOut[i]
        BY <1>0, <2>1, <2>3, <3>1, <3>3 DEF Copied, EvmCopied, Smaller
      <4> QED
        BY <2>1, <4>1 DEF CallsInv, CallsExplained, OutputDiffersOnlyStale
    <3> QED
      BY <3>2, <3>3
  <2>8. TrapsExplained'
    BY <1>0, <2>1, <2>2, <2>3 DEF TrapsExplained, CopyFits
  <2>9. GasForwarded'
    BY <1>0, <2>2, TruncatedGasFacts DEF GasForwarded, Pushed, Smaller
  <2>10. HashNeverStale'
    BY <2>1, <2>3 DEF CallsInv, CallsExplained, HashNeverStale
  <2> QED
    BY <2>4, <2>5, <2>6, <2>7, <2>8, <2>9, <2>10 DEF CallsInv, CallsExplained
<1> QED
  BY <1>1, <1>2

\* So does a CREATE, which writes no output range.
LEMMA CreateInv ==
  ASSUME CallsInv, NEW poor \in BOOLEAN, NEW outcome \in Outcomes, NEW len \in 0..MaxLen,
         Create(poor, outcome, len)
  PROVE  CallsInv'
<1>0. MaxLen \in Nat
  BY LenAssumption
<1> DEFINE n == calls + 1
<1>1. CallsShape' /\ CallsTypeOK'
  <2>1. /\ calls' = n /\ n \in Nat /\ n > 0
        /\ last' \in {last, NoData, DataOf(n, len)} /\ evmLast' \in {NoData, DataOf(n, len)}
        /\ disturbed' \in BOOLEAN
        /\ UNCHANGED <<deep, out, evmOut, pushed, hash, status>>
    BY DEF Create, CreatedData, CallsInv, CallsShape
  <2>2. CallsShape'
    <3>1. DataOf(n, len) \in [by : Nat, len : Nat]
      BY <1>0, <2>1 DEF DataOf
    <3>2. NoData \in [by : Nat, len : Nat]
      BY DEF NoData
    <3>3. last \in [by : Nat, len : Nat]
      BY DEF CallsInv, CallsShape
    <3>4. last' \in [by : Nat, len : Nat] /\ evmLast' \in [by : Nat, len : Nat]
      BY <2>1, <3>1, <3>2, <3>3
    <3> QED
      BY <2>1, <3>4 DEF CallsInv, CallsShape
  <2>3. /\ last'.by \in 0..n /\ last'.len \in 0..MaxLen /\ (last'.by = 0 => last'.len = 0)
        /\ evmLast'.by \in 0..n /\ evmLast'.len \in 0..MaxLen
    BY <1>0, <2>1, StillNamed DEF DataOf, NoData
  <2>4. status' \in {"running", "short", "gas"} /\ hash' \in {"none", "right", "stale"}
    BY <2>1 DEF CallsInv, CallsExplained, CallsTypeOK
  <2>5. CallsTypeOK'
    BY <2>1, <2>3, <2>4, StillNamed DEF CallsTypeOK
  <2> QED
    BY <2>2, <2>5
<1>2. ReturnDataAgrees' /\ OutputDiffersOnlyStale' /\ HashNeverStale'
  BY DEF Create, CallsInv, CallsShape, CallsExplained, ReturnDataAgrees, OutputDiffersOnlyStale,
         HashNeverStale, CreatedData, DataOf, NoData
<1>3. TrapsExplained' /\ GasForwarded'
  BY DEF Create, CallsInv, CallsExplained, TrapsExplained, GasForwarded
<1> QED
  BY <1>1, <1>2, <1>3 DEF CallsInv, CallsExplained

\* A SHA3 either gets its own 32 bytes or, refused at the depth limit or
\* failed, traps.
LEMMA Sha3Inv ==
  ASSUME CallsInv, NEW failed \in BOOLEAN, Sha3(failed)
  PROVE  CallsInv'
<1>0. MaxLen \in Nat /\ HashLen \in 1..MaxLen
  BY LenAssumption
<1> DEFINE n == calls + 1
           len == IF failed THEN 0 ELSE HashLen
           d == LastAfter(deep, n, len)
<1>a. /\ calls' = n /\ n \in Nat /\ n > 0 /\ last' = d /\ disturbed' = TRUE
      /\ hash' = (IF ~CopyFits(d, HashLen) THEN hash ELSE IF d.by = n THEN "right" ELSE "stale")
      /\ status' = (IF CopyFits(d, HashLen) THEN "running" ELSE "short")
      /\ UNCHANGED <<deep, evmLast, out, evmOut, pushed>>
  BY DEF Sha3, CallsInv, CallsShape
<1>b. (d = last /\ deep) \/ (d = DataOf(n, len) /\ ~deep)
  BY DEF LastAfter
<1>c. len \in 0..MaxLen
  BY <1>0
<1> HIDE DEF d, len
<1>1. CallsShape' /\ CallsTypeOK'
  <2>1. CallsShape'
    <3>1. DataOf(n, len) \in [by : Nat, len : Nat]
      BY <1>0, <1>a, <1>c DEF DataOf
    <3>2. last \in [by : Nat, len : Nat]
      BY DEF CallsInv, CallsShape
    <3>3. d \in [by : Nat, len : Nat]
      BY <1>b, <3>1, <3>2
    <3> QED
      BY <1>a, <3>3 DEF CallsInv, CallsShape
  <2>2. d.by \in 0..n /\ d.len \in 0..MaxLen /\ (d.by = 0 => d.len = 0)
    BY <1>0, <1>a, <1>b, <1>c, StillNamed DEF DataOf
  <2>3. hash' \in {"none", "right", "stale"} /\ status' \in {"running", "short", "gas"}
    BY <1>a DEF CallsInv, CallsExplained, CallsTypeOK
  <2>4. CallsTypeOK'
    BY <1>a, <2>2, <2>3, StillNamed DEF CallsTypeOK
  <2> QED
    BY <2>1, <2>4
<1>2. ReturnDataAgrees' /\ OutputDiffersOnlyStale' /\ TrapsExplained' /\ GasForwarded'
  BY DEF Sha3, CallsInv, CallsExplained, ReturnDataAgrees, OutputDiffersOnlyStale,
         TrapsExplained, GasForwarded
<1>3. HashNeverStale'
  <2>1. CASE deep
    <3>1. d = NoData /\ hash = "none"
      BY <1>b, <2>1 DEF CallsInv, CallsExplained, HashNeverStale
    <3>2. ~CopyFits(d, HashLen)
      BY <1>0, <3>1 DEF CopyFits, NoData
    <3> QED
      BY <1>a, <3>1, <3>2 DEF HashNeverStale
  <2>2. CASE ~deep
    <3>1. d.by = n
      BY <1>b, <2>2 DEF DataOf
    <3> QED
      BY <1>a, <2>2, <3>1 DEF CallsInv, CallsExplained, HashNeverStale
  <2> QED
    BY <2>1, <2>2
<1> QED
  BY <1>1, <1>2, <1>3 DEF CallsInv, CallsExplained

\* A RETURNDATACOPY the EVM allows copies the same bytes or stale ones.
LEMMA ReturnDataCopyInv ==
  ASSUME CallsInv, NEW size \in 0..MaxLen, ReturnDataCopy(size)
  PROVE  CallsInv'
<1>0. MaxLen \in Nat
  BY LenAssumption
<1>1. /\ status = "running" /\ size <= evmLast.len
      /\ status' = (IF CopyFits(last, size) THEN "running" ELSE "short")
      /\ out' = (IF CopyFits(last, size) THEN Copied(out, last, disturbed, size) ELSE out)
      /\ evmOut' = EvmCopied(evmOut, evmLast, size)
      /\ UNCHANGED <<deep, calls, last, evmLast, disturbed, pushed, hash>>
  BY DEF ReturnDataCopy
<1>2. last \in [by : Nat, len : Nat] /\ evmLast \in [by : Nat, len : Nat] /\ disturbed \in BOOLEAN
  BY DEF CallsInv, CallsShape
<1>3. CallsShape'
  BY <1>0, <1>1, <1>2 DEF CallsInv, CallsShape, Copied, EvmCopied
<1>4. CallsTypeOK'
  <2>1. ASSUME NEW i \in 1..MaxLen PROVE out'[i].by \in 0..calls /\ evmOut'[i] \in 0..calls
    BY <1>0, <1>1, <1>2 DEF Copied, EvmCopied, CallsInv, CallsExplained, CallsTypeOK
  <2> QED
    BY <1>1, <2>1 DEF CallsInv, CallsExplained, CallsTypeOK
<1>5. OutputDiffersOnlyStale'
  <2> SUFFICES ASSUME status' = "running", NEW i \in 1..MaxLen, out'[i].by # evmOut'[i]
               PROVE  out'[i].stale
    BY DEF OutputDiffersOnlyStale
  <2>1. CopyFits(last, size)
    BY <1>1
  <2>2. CASE i <= size
    BY <1>0, <1>1, <1>2, <2>1, <2>2 DEF Copied, EvmCopied, Smaller, CallsInv, ReturnDataAgrees
  <2>3. CASE ~(i <= size)
    <3>1. out'[i] = out[i] /\ evmOut'[i] = evmOut[i]
      BY <1>0, <1>1, <1>2, <2>1, <2>3 DEF Copied, EvmCopied, Smaller
    <3> QED
      BY <1>1, <3>1 DEF CallsInv, CallsExplained, OutputDiffersOnlyStale
  <2> QED
    BY <2>2, <2>3
<1>6. TrapsExplained' /\ ReturnDataAgrees'
  BY <1>1, <1>2 DEF TrapsExplained, ReturnDataAgrees, CallsInv, CopyFits
<1>7. GasForwarded' /\ HashNeverStale'
  BY <1>1 DEF CallsInv, CallsExplained, GasForwarded, HashNeverStale
<1> QED
  BY <1>3, <1>4, <1>5, <1>6, <1>7 DEF CallsInv, CallsExplained

\* Every call of a frame keeps the invariant.
LEMMA CallsStepInv == CallsInv /\ [CallsNext]_callsVars => CallsInv'
<1> SUFFICES ASSUME CallsInv, [CallsNext]_callsVars PROVE CallsInv'
  OBVIOUS
<1>1. CASE UNCHANGED callsVars
  BY <1>1
  DEF callsVars, CallsInv, CallsShape, ReturnDataAgrees, CallsExplained, CallsTypeOK,
      OutputDiffersOnlyStale, TrapsExplained, GasForwarded, HashNeverStale
<1>2. CASE CallsNext
  BY <1>2, CallInv, CreateInv, Sha3Inv, ReturnDataCopyInv DEF CallsNext
<1> QED
  BY <1>1, <1>2

\* The invariant holds along every sequence of calls.
LEMMA CallsInvariance == CallsSpec => []CallsInv
BY CallsInitInv, CallsStepInv, PTL DEF CallsSpec

\* For data, gas and frames of any size: a contract sees the EVM's return data
\* until a call is refused or a SHA3 comes between.
THEOREM ReturnDataCorrect == CallsSpec => []ReturnDataAgrees
<1>1. CallsInv => ReturnDataAgrees
  BY DEF CallsInv
<1> QED BY <1>1, CallsInvariance, PTL

\* For data, gas and frames of any size: nothing else in a sequence of calls
\* differs from the EVM but for the causes CallsExplained names.
THEOREM CallsCorrect == CallsSpec => []CallsExplained
<1>1. CallsInv => CallsExplained
  BY DEF CallsInv
<1> QED BY <1>1, CallsInvariance, PTL
-----------------------------------------------------------------------------
(***************************************************************************)
(* Selector.                                                               *)
(***************************************************************************)

\* The pass shortens a load for one of two reasons, and replaces what follows
\* it for the second only.
PassExplained ==
  /\ \A k \in cut : code[k].load /\ MaskedQuotient(k)
  /\ \A k \in DOMAIN code : length[k] = SigBytes =>
       code[k].load /\ (SelectorShift(k) \/ k \in cut)

\* What was loaded last is a copy of the call data over a stale slot, of the
\* length the pass left, and what the instructions after it make of that.
LoadedFrom(stale) ==
  LET k == loaded.k
  IN  /\ k \in DOMAIN code /\ code[k].load /\ code[k].off <= Len(data)
      /\ loaded.word = LoadedSlot(code[k].off, length[k], stale)
      /\ loaded.got = Emitted(k, loaded.word)
LoadedExplained ==
  \/ loaded = Idle
  \/ phase \in {"run", "trap"} /\ \E stale \in DataWord : LoadedFrom(stale)

SelectorShape ==
  /\ code \in Seq(Loads \cup {OtherConversion})
  /\ named \in DOMAIN code /\ pos \in 1..(Len(code) + 1) /\ pc \in 1..(Len(code) + 1)
  /\ length \in [DOMAIN code -> {SigBytes, WordBytes}] /\ cut \subseteq DOMAIN code
  /\ phase \in {"pass", "run", "trap", "crashed"} /\ data \in Seq(DataByte)

SelectorInv == SelectorShape /\ PassExplained /\ LoadedExplained

\* A load is one of the records Loads.
LEMMA LoadFields ==
  ASSUME SelectorShape, NEW k \in DOMAIN code, code[k].load
  PROVE  /\ code[k] \in Loads /\ code[k].off \in Nat /\ code[k].arg \in Nat
         /\ length[k] \in {SigBytes, WordBytes}
<1>1. code[k] \in Loads \cup {OtherConversion}
  BY DEF SelectorShape
<1>2. code[k] # OtherConversion
  BY DEF OtherConversion
<1>3. code[k] \in Loads
  BY <1>1, <1>2
<1>4. code[k].off \in Nat /\ code[k].arg \in 0..WordBytes
  BY <1>3 DEF Loads
<1> QED
  BY <1>3, <1>4, SelectorAssumption DEF SelectorShape

\* A shift, and the shift of a mask, of a word is a word.
LEMMA ShiftsAreWords ==
  ASSUME NEW w \in DataWord, NEW n \in Nat
  PROVE  Shr(w, n) \in DataWord /\ Masked(w) \in DataWord
BY SelectorAssumption DEF Shr, Masked, DataWord

\* The slot a load reads is a word of bytes.
LEMMA SlotIsWord ==
  ASSUME SelectorShape, NEW off \in Nat, off <= Len(data), NEW n \in {SigBytes, WordBytes},
         NEW stale \in DataWord
  PROVE  LoadedSlot(off, n, stale) \in DataWord
<1>1. CopiedLen(off, n) \in Nat /\ off + CopiedLen(off, n) <= Len(data)
  BY SelectorAssumption DEF CopiedLen, SelectorShape
<1>2. ASSUME NEW j \in 1..WordBytes, j <= CopiedLen(off, n) PROVE data[off + j] \in DataByte
  <2>1. off + j \in 1..Len(data)
    BY <1>1, <1>2 DEF SelectorShape
  <2> QED
    BY <2>1 DEF SelectorShape
<1> QED
  BY <1>2, SelectorAssumption DEF LoadedSlot, DataWord

\* Whether or not the pass replaced what follows, a load yields a word.
LEMMA EmittedIsWord ==
  ASSUME SelectorShape, NEW k \in DOMAIN code, code[k].load, NEW w \in DataWord
  PROVE  Emitted(k, w) \in DataWord
<1>1. code[k].arg \in Nat /\ WordBytes - SigBytes \in Nat
  BY LoadFields, SelectorAssumption
<1> QED
  BY <1>1, ShiftsAreWords DEF Emitted, Reduced

\* Before the pass nothing is shortened and nothing loaded.
LEMMA SelectorInitInv == SelectorInit => SelectorInv
<1> SUFFICES ASSUME SelectorInit PROVE SelectorInv
  OBVIOUS
<1>1. code \in Seq(Loads \cup {OtherConversion})
  BY ProgramsAssumption DEF SelectorInit
<1>2. SelectorShape
  <2>1. Len(code) \in Nat /\ named \in DOMAIN code /\ DOMAIN code = 1..Len(code)
    BY <1>1 DEF SelectorInit
  <2>2. pos \in 1..(Len(code) + 1) /\ pc \in 1..(Len(code) + 1)
    BY <2>1 DEF SelectorInit, PassStart
  <2>3. data \in Seq(DataByte)
    BY DEF SelectorInit
  <2> QED
    BY <1>1, <2>1, <2>2, <2>3 DEF SelectorInit, SelectorShape
<1>3. PassExplained
  BY SelectorAssumption DEF SelectorInit, PassExplained
<1>4. LoadedExplained
  BY DEF SelectorInit, LoadedExplained
<1> QED
  BY <1>2, <1>3, <1>4 DEF SelectorInv

\* Every step of the pass and of the contract keeps the invariant.
LEMMA SelectorStepInv == SelectorInv /\ [SelectorNext]_selectorVars => SelectorInv'
<1> SUFFICES ASSUME SelectorInv, [SelectorNext]_selectorVars PROVE SelectorInv'
  OBVIOUS
<1>0. /\ SelectorShape /\ PassExplained /\ LoadedExplained
      /\ Len(code) \in Nat /\ DOMAIN code = 1..Len(code) /\ SigBytes # WordBytes
  BY SelectorAssumption DEF SelectorInv, SelectorShape
<1>s. ASSUME UNCHANGED <<code, length, cut, data, loaded>>, phase' = phase
      PROVE  PassExplained' /\ LoadedExplained'
  BY <1>0, <1>s
  DEF PassExplained, LoadedExplained, LoadedFrom, MaskedQuotient, SelectorShift, LoadedSlot,
      CopiedLen, Emitted
<1>p. phase = "pass" => loaded = Idle
  BY <1>0 DEF LoadedExplained
<1>1. CASE Skip
  <2>1. SelectorShape'
    BY <1>0, <1>1 DEF Skip, InPass, SelectorShape
  <2> QED
    BY <1>1, <1>s, <2>1 DEF Skip, SelectorInv
<1>2. CASE Shorten
  <2>1. pos \in DOMAIN code /\ code[pos].load /\ SelectorShift(pos)
    BY <1>0, <1>2 DEF Shorten, InPass, Candidate, SelectorShape
  <2>2. SelectorShape'
    BY <1>0, <1>2, <2>1 DEF Shorten, Shortened, SelectorShape
  <2>3. PassExplained'
    BY <1>0, <1>2, <2>1 DEF Shorten, Shortened, PassExplained, MaskedQuotient, SelectorShift, SelectorShape
  <2>4. LoadedExplained'
    BY <1>2, <1>p DEF Shorten, InPass, LoadedExplained
  <2> QED
    BY <2>2, <2>3, <2>4 DEF SelectorInv
<1>3. CASE Replace
  <2>1. pos \in DOMAIN code /\ code[pos].load /\ MaskedQuotient(pos)
    BY <1>0, <1>3 DEF Replace, InPass, Candidate, SelectorShape
  <2>2. SelectorShape'
    BY <1>0, <1>3, <2>1 DEF Replace, Shortened, SelectorShape
  <2>3. PassExplained'
    BY <1>0, <1>3, <2>1 DEF Replace, Shortened, PassExplained, MaskedQuotient, SelectorShift, SelectorShape
  <2>4. LoadedExplained'
    BY <1>3, <1>p DEF Replace, InPass, LoadedExplained
  <2> QED
    BY <2>2, <2>3, <2>4 DEF SelectorInv
<1>4. CASE Crash
  <2>1. SelectorShape' /\ loaded' = Idle
    BY <1>0, <1>4, <1>p DEF Crash, InPass, SelectorShape
  <2>2. PassExplained'
    BY <1>0, <1>4 DEF Crash, PassExplained, MaskedQuotient, SelectorShift
  <2> QED
    BY <2>1, <2>2 DEF SelectorInv, LoadedExplained
<1>5. ASSUME NEW d \in CallData, StartCall(d) PROVE SelectorInv'
  <2>1. SelectorShape' /\ loaded' = Idle
    BY <1>0, <1>5, <1>p, SelectorAssumption DEF StartCall, SelectorShape
  <2>2. PassExplained'
    BY <1>0, <1>5 DEF StartCall, PassExplained, MaskedQuotient, SelectorShift
  <2> QED
    BY <2>1, <2>2 DEF SelectorInv, LoadedExplained
<1>6. ASSUME NEW stale \in DataWord, CALLDATALOAD(stale) PROVE SelectorInv'
  <2>1. /\ pc \in DOMAIN code /\ code[pc].load /\ code[pc].off <= Len(data) /\ phase = "run"
        /\ UNCHANGED <<code, named, pos, length, cut, phase, data>>
        /\ pc' = pc + 1
        /\ loaded' = [k |-> pc, word |-> LoadedSlot(code[pc].off, length[pc], stale),
                      got |-> Emitted(pc, LoadedSlot(code[pc].off, length[pc], stale))]
    BY <1>0, <1>6 DEF CALLDATALOAD, SelectorShape
  <2>2. SelectorShape'
    BY <1>0, <2>1 DEF SelectorShape
  <2>3. PassExplained'
    BY <1>0, <2>1 DEF PassExplained, MaskedQuotient, SelectorShift
  <2>4. LoadedFrom(stale)'
    BY <2>1 DEF LoadedFrom, LoadedSlot, CopiedLen, Emitted
  <2> QED
    BY <2>1, <2>2, <2>3, <2>4 DEF SelectorInv, LoadedExplained
<1>7. CASE Trap
  <2>1. SelectorShape' /\ phase = "run" /\ phase' = "trap" /\ UNCHANGED <<code, length, cut, data, loaded>>
    BY <1>0, <1>7 DEF Trap, SelectorShape
  <2>2. PassExplained'
    BY <1>0, <2>1 DEF PassExplained, MaskedQuotient, SelectorShift
  <2>3. LoadedExplained'
    BY <1>0, <2>1 DEF LoadedExplained, LoadedFrom, LoadedSlot, CopiedLen, Emitted
  <2> QED
    BY <2>1, <2>2, <2>3 DEF SelectorInv
<1>8. CASE Convert
  <2>1. SelectorShape' /\ loaded' = Idle
    BY <1>0, <1>8 DEF Convert, SelectorShape
  <2>2. PassExplained'
    BY <1>0, <1>8 DEF Convert, PassExplained, MaskedQuotient, SelectorShift
  <2> QED
    BY <2>1, <2>2 DEF SelectorInv, LoadedExplained
<1>9. CASE UNCHANGED selectorVars
  <2>1. SelectorShape'
    BY <1>0, <1>9 DEF selectorVars, SelectorShape
  <2> QED
    BY <1>9, <1>s, <2>1 DEF selectorVars, SelectorInv
<1> QED
  BY <1>1, <1>2, <1>3, <1>4, <1>5, <1>6, <1>7, <1>8, <1>9 DEF SelectorNext

\* Where the call data holds the bytes a load asks for, they are the EVM's.
LEMMA CopiedBytes ==
  ASSUME SelectorShape, NEW off \in Nat, off <= Len(data), NEW n \in {SigBytes, WordBytes},
         NEW m \in {SigBytes, WordBytes}, m <= n, off + m <= Len(data), NEW stale \in DataWord,
         NEW j \in 1..m
  PROVE  LoadedSlot(off, n, stale)[j] = EVMWord(off)[j]
<1>1. Len(data) \in Nat /\ j \in 1..WordBytes /\ off + j <= Len(data)
  BY SelectorAssumption DEF SelectorShape
<1>2. j <= CopiedLen(off, n)
  BY <1>1, SelectorAssumption DEF CopiedLen
<1> QED
  BY <1>1, <1>2 DEF LoadedSlot, EVMWord

\* A word is its bytes.
LEMMA SameWord ==
  ASSUME NEW v \in DataWord, NEW w \in DataWord, \A j \in 1..WordBytes : v[j] = w[j]
  PROVE  v = w
<1>1. v = [j \in 1..WordBytes |-> v[j]] /\ w = [j \in 1..WordBytes |-> w[j]]
  BY DEF DataWord
<1> QED
  BY <1>1

\* Words alike in their first SigBytes bytes are alike once shifted.
LEMMA SelectorShifts ==
  ASSUME NEW v \in DataWord, NEW w \in DataWord, \A j \in 1..SigBytes : v[j] = w[j]
  PROVE  /\ Shr(v, WordBytes - SigBytes) = Shr(w, WordBytes - SigBytes)
         /\ Masked(Shr(v, WordBytes - SigBytes)) = Shr(v, WordBytes - SigBytes)
<1> DEFINE n == WordBytes - SigBytes
<1>1. n \in Nat /\ WordBytes \in Nat /\ SigBytes \in Nat /\ n + SigBytes = WordBytes
  BY SelectorAssumption
<1>2. ASSUME NEW j \in 1..WordBytes PROVE Shr(v, n)[j] = Shr(w, n)[j]
  <2>1. CASE j <= n
    BY <2>1 DEF Shr
  <2>2. CASE ~(j <= n)
    <3>1. j - n \in 1..SigBytes
      BY <1>1, <2>2
    <3> QED
      BY <2>2, <3>1 DEF Shr
  <2> QED
    BY <2>1, <2>2
<1>3. Shr(v, n) = Shr(w, n)
  BY <1>2 DEF Shr
<1>4. Masked(Shr(v, n)) = Shr(v, n)
  BY <1>1 DEF Masked, Shr
<1> QED
  BY <1>3, <1>4

\* The word the EVM loads is a word.
LEMMA EVMWordIsWord ==
  ASSUME SelectorShape, NEW off \in Nat PROVE EVMWord(off) \in DataWord
<1>1. ASSUME NEW j \in 1..WordBytes, off + j <= Len(data) PROVE data[off + j] \in DataByte
  <2>1. off + j \in 1..Len(data)
    BY <1>1 DEF SelectorShape
  <2> QED
    BY <2>1 DEF SelectorShape
<1> QED
  BY <1>1, SelectorAssumption DEF EVMWord, DataWord

\* The invariant says what a load yields.
LEMMA SelectorInvAgrees == SelectorInv => LoadsAgree
<1> SUFFICES ASSUME SelectorInv PROVE LoadsAgree
  OBVIOUS
<1>1. SelectorShape /\ PassExplained /\ LoadedExplained
  BY DEF SelectorInv
<1>2. CASE loaded = Idle
  <2>1. loaded.k = 0
    BY <1>2 DEF Idle
  <2> QED
    BY <1>1, <2>1
    DEF LoadsAgree, SelectorTypeOK, SelectorExact, DifferenceExplained, SelectorShape
<1>3. ASSUME NEW stale \in DataWord, LoadedFrom(stale) PROVE LoadsAgree
  <2> DEFINE k == loaded.k
             off == code[k].off
             shift == WordBytes - SigBytes
             want == EVMWord(off)
             w == loaded.word
  <2>1. /\ k \in DOMAIN code /\ code[k].load /\ off <= Len(data)
        /\ w = LoadedSlot(off, length[k], stale) /\ loaded.got = Emitted(k, w)
        /\ Want = Reduced(code[k], want)
    BY <1>3 DEF LoadedFrom, Want
  <2>2. code[k] \in Loads /\ off \in Nat /\ length[k] \in {SigBytes, WordBytes}
    BY <1>1, <2>1, LoadFields
  <2> HIDE DEF off, k
  <2>3. w \in DataWord /\ want \in DataWord
    BY <1>1, <2>1, <2>2, SlotIsWord, EVMWordIsWord
  <2>4. SelectorTypeOK
    <3>1. loaded.got \in DataWord
      BY <1>1, <2>1, <2>3, EmittedIsWord
    <3> QED
      BY <1>1, <2>1, <2>3, <3>1 DEF SelectorTypeOK, SelectorShape, k
  <2> HIDE DEF w, want
  <2>5. ASSUME TakesSelector(code[k]), off + SigBytes <= Len(data) PROVE loaded.got = Want
    <3>1. \A j \in 1..SigBytes : w[j] = want[j]
      <4> SUFFICES ASSUME NEW j \in 1..SigBytes PROVE w[j] = want[j]
        OBVIOUS
      <4> SigBytes <= length[k]
        BY <2>2, SelectorAssumption
      <4> QED
        BY <1>1, <2>1, <2>2, <2>5, CopiedBytes DEF want
    <3>2. Shr(w, shift) = Shr(want, shift) /\ Masked(Shr(w, shift)) = Shr(w, shift)
          /\ Masked(Shr(want, shift)) = Shr(want, shift)
      BY <2>3, <3>1, SelectorShifts
    <3>3. code[k].arg = shift /\ code[k].op # "other" /\ code[k].own
      BY <2>5 DEF TakesSelector
    <3> HIDE DEF shift
    <3>4. Reduced(code[k], w) = Shr(w, shift) /\ Reduced(code[k], want) = Shr(want, shift)
      BY <3>2, <3>3 DEF Reduced
    <3>5. loaded.got = Shr(w, shift)
      BY <2>1, <3>3, <3>4 DEF Emitted, shift
    <3> QED
      BY <2>1, <3>2, <3>4, <3>5
  <2>6. SelectorExact
    BY <2>5 DEF SelectorExact, Reaches, off, k
  <2>7. ASSUME off + WordBytes <= Len(data), length[k] = WordBytes PROVE w = want
    <3>1. \A j \in 1..WordBytes : w[j] = want[j]
      BY <1>1, <2>1, <2>2, <2>7, CopiedBytes, SelectorAssumption DEF want
    <3> QED
      BY <2>3, <3>1, SameWord
  <2>8. ASSUME off + WordBytes <= Len(data), k \notin cut \/ TakesSelector(code[k]),
               length[k] # SigBytes \/ code[k].own
        PROVE  loaded.got = Want
    <3>1. CASE TakesSelector(code[k])
      <4> off + SigBytes <= Len(data)
        BY <1>1, <2>2, <2>8, SelectorAssumption DEF SelectorShape
      <4> QED
        BY <2>5, <3>1
    <3>2. CASE ~TakesSelector(code[k])
      <4>1. k \notin cut
        BY <2>8, <3>2
      <4>2. length[k] # SigBytes
        BY <1>1, <2>1, <2>8, <3>2, <4>1 DEF PassExplained, SelectorShift, TakesSelector
      <4>3. w = want
        BY <2>2, <2>7, <2>8, <4>2
      <4> QED
        BY <2>1, <4>1, <4>3 DEF Emitted
    <3> QED
      BY <3>1, <3>2
  <2>9. DifferenceExplained
    BY <2>2, <2>7, <2>8 DEF DifferenceExplained, Reaches, off, k, w, want
  <2> QED
    BY <2>4, <2>6, <2>9 DEF LoadsAgree
<1> QED
  BY <1>1, <1>2, <1>3 DEF LoadedExplained

\* For words, selectors, programs and call data of any size: the selector a
\* contract dispatches on is the EVM's, whatever calldataCopyPass did and
\* whatever the slot held, and a load differs otherwise for the causes named.
THEOREM LoadsCorrect == SelectorSpec => []LoadsAgree
<1>1. SelectorSpec => []SelectorInv
  BY SelectorInitInv, SelectorStepInv, PTL DEF SelectorSpec
<1> QED
  BY <1>1, SelectorInvAgrees, PTL
-----------------------------------------------------------------------------
(***************************************************************************)
(* Casts and conversions, by equations.                                    *)
(***************************************************************************)

\* The widths in order.
LEMMA Widths ==
  /\ WordLen \in Nat \ {0} /\ AddrLen \in Nat \ {0} /\ HalfLen \in Nat \ {0}
  /\ LongLen \in Nat \ {0} /\ IntLen \in Nat \ {0}
  /\ IntLen < LongLen /\ LongLen < HalfLen /\ HalfLen < AddrLen /\ AddrLen < WordLen
BY WidthAssumption

\* An integer is its bytes.
LEMMA SameBytes ==
  ASSUME NEW n \in Nat, NEW s \in Bytes(n), NEW t \in Bytes(n), \A i \in 1..n : s[i] = t[i]
  PROVE  s = t
<1>1. s = [i \in 1..n |-> s[i]] /\ t = [i \in 1..n |-> t[i]]
  BY DEF Bytes
<1> QED
  BY <1>1

\* Its width is the number of them.
LEMMA BytesLen ==
  ASSUME NEW n \in Nat, NEW s \in Bytes(n)
  PROVE  Len(s) = n /\ DOMAIN s = 1..n /\ \A i \in 1..n : s[i] \in Byte
BY DEF Bytes

\* zext: the bytes and zeros after them; to the same width, nothing.
LEMMA ZextFacts ==
  ASSUME NEW n \in Nat, NEW m \in Nat, NEW s \in Bytes(n)
  PROVE  Zext(s, m) \in Bytes(m) /\ Zext(s, n) = s
<1>1. Len(s) = n /\ \A i \in 1..n : s[i] \in Byte
  BY BytesLen
<1>2. Zext(s, m) \in Bytes(m)
  BY <1>1, ByteAssumption DEF Zext, Bytes
<1>3. Zext(s, n) \in Bytes(n) /\ \A i \in 1..n : Zext(s, n)[i] = s[i]
  BY <1>1, ByteAssumption DEF Zext, Bytes
<1> QED
  BY <1>2, <1>3, SameBytes

\* ... byte by byte.
LEMMA ZextBytes ==
  ASSUME NEW n \in Nat, NEW m \in Nat, NEW s \in Bytes(n), NEW i \in 1..m
  PROVE  Zext(s, m)[i] = IF i <= n THEN s[i] ELSE 0
<1>1. Len(s) = n
  BY BytesLen
<1> QED
  BY <1>1 DEF Zext

\* trunc: the low bytes; of an extended value, the value.
LEMMA TruncFacts ==
  ASSUME NEW n \in Nat, NEW m \in Nat, m <= n, NEW s \in Bytes(n)
  PROVE  /\ Trunc(s, m) \in Bytes(m)
         /\ \A i \in 1..m : Trunc(s, m)[i] = s[i]
BY DEF Trunc, Bytes

\* Extending and truncating back changes nothing.
LEMMA TruncZext ==
  ASSUME NEW n \in Nat, NEW m \in Nat, n <= m, NEW s \in Bytes(n)
  PROVE  Trunc(Zext(s, m), n) = s
<1>1. Zext(s, m) \in Bytes(m) /\ \A i \in 1..m : Zext(s, m)[i] = IF i <= n THEN s[i] ELSE 0
  BY ZextFacts, ZextBytes
<1>2. Trunc(Zext(s, m), n) \in Bytes(n) /\ \A i \in 1..n : Trunc(Zext(s, m), n)[i] = Zext(s, m)[i]
  BY <1>1, TruncFacts
<1>3. \A i \in 1..n : Trunc(Zext(s, m), n)[i] = s[i]
  BY <1>1, <1>2
<1> QED
  BY <1>2, <1>3, SameBytes

\* Turning the bytes round keeps the width and is its own inverse.
LEMMA TurnedFacts ==
  ASSUME NEW n \in Nat, NEW s \in Bytes(n)
  PROVE  Turned(s) \in Bytes(n) /\ Turned(Turned(s)) = s
<1>1. Len(s) = n /\ DOMAIN s = 1..n /\ \A i \in 1..n : s[i] \in Byte
  BY BytesLen
<1>2. \A i \in 1..n : Turned(s)[i] = s[n + 1 - i]
  BY <1>1 DEF Turned
<1>3. Turned(s) \in Bytes(n)
  <2>1. \A i \in 1..n : n + 1 - i \in 1..n
    OBVIOUS
  <2> QED
    BY <1>1, <2>1 DEF Turned, Bytes
<1>4. Len(Turned(s)) = n /\ DOMAIN Turned(s) = 1..n
  BY <1>3, BytesLen
<1>5. Turned(Turned(s)) \in Bytes(n)
  <2>1. \A i \in 1..n : n + 1 - i \in 1..n
    OBVIOUS
  <2> QED
    BY <1>3, <1>4, <2>1, BytesLen DEF Turned, Bytes
<1>6. ASSUME NEW i \in 1..n PROVE Turned(Turned(s))[i] = s[i]
  <2>1. n + 1 - i \in 1..n /\ n + 1 - (n + 1 - i) = i
    OBVIOUS
  <2>2. Turned(Turned(s))[i] = Turned(s)[n + 1 - i]
    BY <1>4 DEF Turned
  <2> QED
    BY <1>2, <2>1, <2>2
<1> QED
  BY <1>3, <1>5, <1>6, SameBytes

\* Of a word's conversions only this remains to be known.
LEMMA Converts ==
  ASSUME NEW n \in {1, IntLen, HalfLen, AddrLen, WordLen}, NEW s \in Bytes(n)
  PROVE  emitEndianConvert(s) = Turned(s)
<1>1. n \in Nat \ {0} /\ n <= WordLen
  BY Widths
<1> QED
  BY <1>1, ConvertTurns
-----------------------------------------------------------------------------
(***************************************************************************)
(* HostWords: the invariant.                                               *)
(***************************************************************************)
NarrowSources ==
  {"CALLVALUE", "CODESIZE", "CALLDATASIZE", "RETURNDATASIZE", "BALANCE", "EXTCODESIZE"}

Sources ==
  {"PUSH", "CALLER", "ORIGIN", "GAS", "GASLIMIT", "NUMBER", "TIMESTAMP", "GASPRICE", "DIFFICULTY",
   "SHA3", "CALLDATALOAD", "BLOCKHASH", "CALL", "CALLCODE", "DELEGATECALL", "STATICCALL"}
    \cup NarrowSources \cup TurnedSources \cup Undetermined

Values == Bytes(WordLen) \cup Bytes(HalfLen) \cup Bytes(IntLen)
Items == [want : Word, from : Sources, v : Values, const : BOOLEAN]

\* A value beside the EVM's: the same, or its account turned round, or of a
\* source that decides nothing; narrow only from a source that is, and a
\* constant only from PUSH or CODESIZE.
ItemAgrees(it) ==
  /\ Agreeing(it.from) => Zext(it.v, WordLen) = it.want
  /\ it.from \in TurnedSources =>
       Zext(it.v, WordLen) = Zext(Turned(Trunc(it.want, AddrLen)), WordLen)
  /\ it.v \notin Word => it.from \in NarrowSources
  /\ it.const => it.from \in {"PUSH", "CODESIZE"}
Good == {it \in Items : ItemAgrees(it)}

\* The word at p of a memory, as MLOAD reads it.
WordAt(m, p) == [i \in 1..WordLen |-> m[p + i - 1]]

MemoryGood ==
  /\ memory \in [0..(MemoryLen - 1) -> Byte] /\ expected \in [0..(MemoryLen - 1) -> Byte]
  /\ origin \in [Offsets -> Sources]
  /\ \A p \in Offsets :
       Item(Turned(WordAt(memory, p)), Turned(WordAt(expected, p)), origin[p]) \in Good

\* As long as every key reached the slot the EVM uses, both have the same
\* slots, and in them values that could have been on the stack together.
StorageGood ==
  /\ DOMAIN storage \subseteq Word /\ DOMAIN evmStorage \subseteq Word
  /\ \A k \in DOMAIN storage : storage[k] \in [v : Word, from : Sources, key : Sources]
  /\ \A k \in DOMAIN evmStorage : evmStorage[k] \in Word
  /\ evmStorage = [k \in DOMAIN evmStorage |-> evmStorage[k]]
  /\ KeysAgree =>
       /\ DOMAIN storage = DOMAIN evmStorage
       /\ \A k \in DOMAIN storage :
            Item(Turned(storage[k].v), Turned(evmStorage[k]), storage[k].from) \in Good

HostGood(h) ==
  /\ (h.op \in Converting \union Plain /\ h.from \notin Undetermined) =>
       (h.got = h.want <=>
          \/ (h.from \in TurnedSources) <=> (h.op \in Plain)
          \/ Turned(h.want) = h.want)
  /\ Agreeing(h.from) =>
       /\ h.op = "value" =>
            (Zext(h.got, WordLen) = h.want
               <=> \A i \in (HalfLen + 1)..WordLen : h.want[i] = 0)
       /\ (h.op = "topic" /\ h.len = WordLen) => h.got = Turned(h.want)
       /\ h.op = "slot" => h.got = h.want
  /\ h.op = "ill-typed" => h.from \in NarrowSources
  /\ h.op = "i8 swap" => h.from \in {"PUSH", "CODESIZE"}

WordsInv ==
  /\ stack \in Seq(Good) /\ steps \in 0..MaxSteps
  /\ MemoryGood /\ StorageGood /\ HostGood(host)

\* The width of a value.
LEMMA ValueWidth ==
  ASSUME NEW s \in Values
  PROVE  /\ \/ s \in Bytes(WordLen) /\ Len(s) = WordLen
            \/ s \in Bytes(HalfLen) /\ Len(s) = HalfLen
            \/ s \in Bytes(IntLen) /\ Len(s) = IntLen
         /\ (s \in Bytes(WordLen)) <=> (Len(s) = WordLen)
         /\ Zext(s, WordLen) \in Word
<1>1. PICK n \in {WordLen, HalfLen, IntLen} : s \in Bytes(n)
  BY DEF Values
<1>2. n \in Nat /\ WordLen \in Nat /\ Len(s) = n
  BY <1>1, Widths, BytesLen
<1>3. Zext(s, WordLen) \in Word
  BY <1>1, <1>2, ZextFacts DEF Word
<1>4. s \in Bytes(WordLen) => Len(s) = WordLen
  BY Widths, BytesLen
<1>5. Len(s) = WordLen => s \in Bytes(WordLen)
  BY <1>1, <1>2
<1>6. \/ s \in Bytes(WordLen) /\ Len(s) = WordLen
      \/ s \in Bytes(HalfLen) /\ Len(s) = HalfLen
      \/ s \in Bytes(IntLen) /\ Len(s) = IntLen
  BY <1>1, <1>2
<1> QED
  BY <1>3, <1>4, <1>5, <1>6

\* A word of the EVM beside itself is good, whatever the source, unless that
\* is one of those that turn accounts.
LEMMA SameGood ==
  ASSUME NEW s \in Values, NEW from \in Sources, from \notin TurnedSources,
         s \in Word \/ from \in NarrowSources
  PROVE  Item(s, Zext(s, WordLen), from) \in Good
<1>1. Zext(s, WordLen) \in Word
  BY ValueWidth
<1> QED
  BY <1>1 DEF Good, Items, Item, ItemAgrees

\* A good value that is a constant of the translator.
LEMMA LiteralGood ==
  ASSUME NEW v, NEW want, NEW from \in {"PUSH", "CODESIZE"}, Item(v, want, from) \in Good
  PROVE  Literal(v, want, from) \in Good
BY DEF Good, Items, Item, Literal, ItemAgrees

\* So is an account the host stores without conversion.
LEMMA TurnedGood ==
  ASSUME NEW a \in Bytes(AddrLen), NEW from \in TurnedSources
  PROVE  Item(Zext(a, WordLen), Zext(Turned(a), WordLen), from) \in Good
<1>1. Turned(a) \in Bytes(AddrLen) /\ Turned(Turned(a)) = a
  BY Widths, TurnedFacts
<1>2. Zext(a, WordLen) \in Word /\ Zext(Turned(a), WordLen) \in Word
  BY <1>1, Widths, ZextFacts DEF Word
<1>3. Trunc(Zext(Turned(a), WordLen), AddrLen) = Turned(a)
  BY <1>1, Widths, TruncZext
<1>4. Zext(Zext(a, WordLen), WordLen) = Zext(a, WordLen)
  BY <1>2, Widths, ZextFacts DEF Word
<1>5. from \in Sources
  BY DEF Sources
<1>6. ~Agreeing(from)
  BY DEF Agreeing
<1> QED
  BY <1>1, <1>2, <1>3, <1>4, <1>5, <1>6 DEF Good, Items, Item, ItemAgrees, Values, Word

\* And any word of a source that decides nothing.
LEMMA UndeterminedGood ==
  ASSUME NEW s \in Word, NEW want \in Word, NEW from \in Undetermined
  PROVE  Item(s, want, from) \in Good
<1>1. from \in Sources
  BY DEF Sources
<1>2. ~Agreeing(from)
  BY DEF Agreeing
<1>3. from \notin TurnedSources
  BY DEF Undetermined, TurnedSources
<1> QED
  BY <1>1, <1>2, <1>3 DEF Good, Items, Item, ItemAgrees, Values, Word

\* Extending a good value keeps it good.
LEMMA ExtendedGood ==
  ASSUME NEW it \in Good
  PROVE  Item(Zext(it.v, WordLen), it.want, it.from) \in Good
<1>1. it \in Items /\ ItemAgrees(it) /\ it.v \in Values /\ it.want \in Word /\ it.from \in Sources
  BY DEF Good, Items
<1>2. Zext(it.v, WordLen) \in Word
  BY <1>1, ValueWidth
<1>3. Zext(Zext(it.v, WordLen), WordLen) = Zext(it.v, WordLen)
  BY <1>2, Widths, ZextFacts DEF Word
<1> QED
  BY <1>1, <1>2, <1>3 DEF Good, Items, Item, ItemAgrees, Values, Word

\* What the host gets of a good value is good: an account,
LEMMA ReachedGood ==
  ASSUME NEW it \in Good, NEW op \in Converting \union Plain, it.v \in Word
  PROVE  HostGood(Reached(op, it))
<1> DEFINE addr == Trunc(it.v, AddrLen)
           acct == Trunc(it.want, AddrLen)
           h == Reached(op, it)
<1>1. ItemAgrees(it) /\ it.want \in Word
  BY DEF Good, Items
<1>2. addr \in Bytes(AddrLen) /\ acct \in Bytes(AddrLen)
  BY <1>1, Widths, TruncFacts DEF Word
<1>3. Zext(it.v, WordLen) = it.v
  BY Widths, ZextFacts DEF Word
<1>4. emitEndianConvert(addr) = Turned(addr)
  BY <1>2, Converts
<1>5. Turned(Turned(addr)) = addr /\ Turned(Turned(acct)) = acct /\ Turned(acct) \in Bytes(AddrLen)
  BY <1>2, Widths, TurnedFacts
<1>6. it.from \in TurnedSources => addr = Turned(acct)
  BY <1>1, <1>3, <1>5, Widths, TruncZext DEF ItemAgrees
<1>7. Agreeing(it.from) => addr = acct
  BY <1>1, <1>3 DEF ItemAgrees
<1> HIDE DEF addr, acct
<1>8. /\ h.op = op /\ h.from = it.from /\ h.want = Turned(acct)
      /\ h.got = IF op \in Converting THEN Turned(addr) ELSE addr
  BY <1>4 DEF Reached, Given, addr, acct
<1> HIDE DEF h
<1>9. /\ op \in Converting <=> op \notin Plain
      /\ op \notin {"value", "topic", "slot", "ill-typed", "i8 swap"}
  BY DEF Converting, Plain
<1>10. ASSUME it.from \notin Undetermined
       PROVE  h.got = h.want <=> \/ (h.from \in TurnedSources) <=> (h.op \in Plain)
                                 \/ Turned(h.want) = h.want
  <2>1. CASE it.from \in TurnedSources
    BY <1>5, <1>6, <1>8, <1>9, <2>1
  <2>2. CASE it.from \notin TurnedSources
    <3>1. addr = acct
      BY <1>7, <1>10, <2>2 DEF Agreeing
    <3> QED
      BY <1>5, <1>8, <1>9, <2>2, <3>1
  <2> QED
    BY <2>1, <2>2
<1> QED
  BY <1>8, <1>9, <1>10 DEF HostGood, h

\* the value of a call or a creation,
LEMMA ValueGood ==
  ASSUME NEW it \in Good, it.v \in Bytes(WordLen) \cup Bytes(HalfLen)
  PROVE  HostGood(ValueSent(it))
<1> DEFINE h == ValueSent(it)
<1>1. h.op = "value" /\ h.got = Trunc(it.v, HalfLen) /\ h.want = it.want /\ h.from = it.from
  BY DEF ValueSent, Given
<1>2. "value" \notin Converting \union Plain
  BY DEF Converting, Plain
<1>3. ItemAgrees(it) /\ it.want \in Bytes(WordLen)
  BY DEF Good, Items, Word
<1>4. ASSUME Agreeing(it.from)
      PROVE  Zext(h.got, WordLen) = h.want <=> \A i \in (HalfLen + 1)..WordLen : h.want[i] = 0
  <2>1. Zext(it.v, WordLen) = it.want
    BY <1>3, <1>4 DEF ItemAgrees
  <2>2. PICK n \in {WordLen, HalfLen} : it.v \in Bytes(n)
    OBVIOUS
  <2>3. n \in Nat /\ HalfLen <= n /\ n <= WordLen /\ HalfLen \in Nat /\ WordLen \in Nat
    BY Widths
  <2>4. h.got \in Bytes(HalfLen) /\ \A i \in 1..HalfLen : h.got[i] = it.v[i]
    BY <1>1, <2>2, <2>3, TruncFacts
  <2> HIDE DEF h
  <2>5. \A i \in 1..WordLen : it.want[i] = IF i <= n THEN it.v[i] ELSE 0
    <3>1. \A i \in 1..WordLen : Zext(it.v, WordLen)[i] = IF i <= n THEN it.v[i] ELSE 0
      BY <2>2, <2>3, ZextBytes
    <3> QED
      BY <2>1, <3>1
  <2>6. /\ Zext(h.got, WordLen) \in Bytes(WordLen)
        /\ \A i \in 1..WordLen : Zext(h.got, WordLen)[i] = IF i <= HalfLen THEN h.got[i] ELSE 0
    BY <2>3, <2>4, ZextFacts, ZextBytes
  <2>7. \A i \in 1..WordLen : Zext(h.got, WordLen)[i] = IF i <= HalfLen THEN it.want[i] ELSE 0
    BY <2>3, <2>4, <2>5, <2>6
  <2>8. ASSUME Zext(h.got, WordLen) = it.want, NEW i \in (HalfLen + 1)..WordLen
        PROVE  it.want[i] = 0
    <3>1. i \in 1..WordLen /\ ~(i <= HalfLen)
      BY <2>3
    <3> QED
      BY <2>7, <2>8, <3>1
  <2>9. ASSUME \A i \in (HalfLen + 1)..WordLen : it.want[i] = 0
        PROVE  Zext(h.got, WordLen) = it.want
    <3>1. \A i \in 1..WordLen : Zext(h.got, WordLen)[i] = it.want[i]
      BY <2>3, <2>7, <2>9
    <3> QED
      BY <1>3, <2>3, <2>6, <3>1, SameBytes
  <2> QED
    BY <1>1, <2>8, <2>9
<1> HIDE DEF h
<1> QED
  BY <1>1, <1>2, <1>4 DEF HostGood, h

\* a narrow value where a wider one is needed,
LEMMA IllTypedGood ==
  ASSUME NEW it \in Good, Len(it.v) # WordLen
  PROVE  HostGood(Given("ill-typed", it, <<>>, it.want))
<1>1. it.v \in Values /\ ItemAgrees(it)
  BY DEF Good, Items
<1>2. it.from \in NarrowSources
  BY <1>1, ValueWidth DEF ItemAgrees, Word
<1> QED
  BY <1>2 DEF HostGood, Given, Converting, Plain

\* a key,
LEMMA KeyGood ==
  ASSUME NEW it \in Good, it.v \in Word
  PROVE  /\ HostGood(Given("slot", it, emitEndianConvert(it.v), Turned(it.want)))
         /\ Agreeing(it.from) => emitEndianConvert(it.v) = Turned(it.want)
<1>1. ItemAgrees(it)
  BY DEF Good
<1>2. emitEndianConvert(it.v) = Turned(it.v) /\ Zext(it.v, WordLen) = it.v
  BY Widths, Converts, ZextFacts DEF Word
<1>3. Agreeing(it.from) => emitEndianConvert(it.v) = Turned(it.want)
  BY <1>1, <1>2 DEF ItemAgrees
<1> QED
  BY <1>3 DEF HostGood, Given, Converting, Plain

\* a constant whose low byte MSTORE8 stores,
LEMMA SwapGood ==
  ASSUME NEW it \in Good, it.const
  PROVE  HostGood(Given("i8 swap", it, <<>>, it.want))
<1>1. it.from \in {"PUSH", "CODESIZE"}
  BY DEF Good, ItemAgrees
<1> QED
  BY <1>1 DEF HostGood, Given, Converting, Plain

\* a topic.
LEMMA TopicGood ==
  ASSUME NEW it \in Good, NEW got, Len(it.v) = WordLen => got = it.v
  PROVE  HostGood(Given("topic", it, got, Turned(it.want)))
<1>1. it.v \in Values /\ ItemAgrees(it) /\ it.want \in Word
  BY DEF Good, Items
<1>2. Turned(Turned(it.want)) = it.want
  BY <1>1, Widths, TurnedFacts DEF Word
<1>3. ASSUME Agreeing(it.from), Len(it.v) = WordLen PROVE it.v = it.want
  <2>1. it.v \in Bytes(WordLen)
    BY <1>1, <1>3, ValueWidth
  <2>2. Zext(it.v, WordLen) = it.v
    BY <2>1, Widths, ZextFacts
  <2> QED
    BY <1>1, <1>3, <2>2 DEF ItemAgrees
<1> QED
  BY <1>2, <1>3 DEF HostGood, Given, Converting, Plain
-----------------------------------------------------------------------------
(***************************************************************************)
(* HostWords: the steps.                                                   *)
(***************************************************************************)

\* The top of the stack and what lies below it.
LEMMA StackParts ==
  ASSUME WordsInv, stack # <<>>
  PROVE  /\ Top \in Good /\ Below \in Seq(Good) /\ Top \in Items /\ ItemAgrees(Top)
         /\ Top.v \in Values /\ Top.want \in Word /\ Top.from \in Sources
<1>1. stack \in Seq(Good) /\ Len(stack) \in Nat \ {0}
  BY DEF WordsInv
<1>2. Top \in Good /\ Below \in Seq(Good)
  BY <1>1 DEF Top, Below
<1>3. Top \in Items /\ ItemAgrees(Top)
  BY <1>2 DEF Good
<1> QED
  BY <1>2, <1>3 DEF Items

\* A step that leaves memory and storage alone.
LEMMA DataKept ==
  ASSUME WordsInv, UNCHANGED Data
  PROVE  MemoryGood' /\ StorageGood'
BY DEF WordsInv, MemoryGood, StorageGood, Data, KeysAgree

\* An instruction counts as one step, up to the bound.
LEMMA StepCounted ==
  ASSUME WordsInv, NEW op, Count(op)
  PROVE  steps' \in 0..MaxSteps
BY MaxStepsAssumption DEF WordsInv, Count

\* A push of a good value.
LEMMA PushInv ==
  ASSUME WordsInv, NEW it \in Good, Push(it)
  PROVE  WordsInv'
<1>1. /\ Count(it.from) /\ stack' = Append(stack, it) /\ UNCHANGED Data /\ host' = host
  BY DEF Push, Data
<1>2. stack' \in Seq(Good)
  BY <1>1 DEF WordsInv
<1>3. steps' \in 0..MaxSteps
  BY <1>1, StepCounted
<1> QED
  BY <1>1, <1>2, <1>3, DataKept DEF WordsInv

\* PUSH, and every instruction that pushes what the host returned.
LEMMA PushesInv ==
  ASSUME WordsInv, NEW w \in Words
  PROVE  /\ PUSH(w) => WordsInv'
         /\ \A op \in {"GAS", "GASLIMIT", "NUMBER", "TIMESTAMP", "GASPRICE", "DIFFICULTY"} :
              NumberRead(op, w) => WordsInv'
         /\ \A op \in {"CALLVALUE", "CALLDATASIZE", "RETURNDATASIZE"} :
              NarrowRead(op, w) => WordsInv'
         /\ CODESIZE(w) => WordsInv'
         /\ \A op \in {"SHA3", "CALLDATALOAD"} : BytesRead(op, w) => WordsInv'
<1>0. w \in Word /\ w \in Bytes(WordLen) /\ w \in Values
  BY DataAssumption DEF Word, Values
<1>1. PUSH(w) => WordsInv'
  <2>1. "PUSH" \in Sources /\ "PUSH" \notin TurnedSources
    BY DEF Sources, TurnedSources
  <2>2. Zext(w, WordLen) = w
    BY <1>0, Widths, ZextFacts
  <2>3. Item(w, w, "PUSH") \in Good
    BY <1>0, <2>1, <2>2, SameGood
  <2>4. Literal(w, w, "PUSH") \in Good
    BY <2>3, LiteralGood
  <2> QED
    BY <2>4, PushInv DEF PUSH
<1>2. ASSUME NEW op \in {"GAS", "GASLIMIT", "NUMBER", "TIMESTAMP", "GASPRICE", "DIFFICULTY"},
             NumberRead(op, w)
      PROVE  WordsInv'
  <2>1. op \in Sources /\ op \notin TurnedSources
    BY DEF Sources, TurnedSources
  <2>2. PICK n \in {HalfLen, WordLen, LongLen} :
          Push(Item(Zext(Trunc(w, n), WordLen), Zext(Trunc(w, n), WordLen), op))
    <3>1. CASE op = "GASPRICE"
      BY <1>2, <3>1 DEF NumberRead
    <3>2. CASE op = "DIFFICULTY"
      BY <1>2, <3>2 DEF NumberRead
    <3>3. CASE op \notin {"GASPRICE", "DIFFICULTY"}
      BY <1>2, <3>3 DEF NumberRead
    <3> QED
      BY <3>1, <3>2, <3>3
  <2> DEFINE z == Zext(Trunc(w, n), WordLen)
  <2>3. z \in Word /\ z \in Bytes(WordLen) /\ z \in Values
    BY <1>0, Widths, TruncFacts, ZextFacts DEF Word, Values
  <2>4. Zext(z, WordLen) = z
    BY <2>3, Widths, ZextFacts
  <2> HIDE DEF z
  <2>5. Item(z, z, op) \in Good
    BY <2>1, <2>3, <2>4, SameGood
  <2> QED
    BY <2>2, <2>5, PushInv DEF z
<1>3. ASSUME NEW op \in {"CALLVALUE", "CALLDATASIZE", "RETURNDATASIZE"}, NarrowRead(op, w)
      PROVE  WordsInv'
  <2>1. op \in Sources /\ op \in NarrowSources /\ op \notin TurnedSources
    BY DEF Sources, NarrowSources, TurnedSources
  <2>2. PICK n \in {HalfLen, IntLen} :
          Push(Item(Trunc(w, n), Zext(Trunc(w, n), WordLen), op))
    <3>1. CASE op = "CALLVALUE"
      BY <1>3, <3>1 DEF NarrowRead
    <3>2. CASE op # "CALLVALUE"
      BY <1>3, <3>2 DEF NarrowRead
    <3> QED
      BY <3>1, <3>2
  <2>3. Trunc(w, n) \in Values
    BY <1>0, Widths, TruncFacts DEF Values
  <2>4. Item(Trunc(w, n), Zext(Trunc(w, n), WordLen), op) \in Good
    BY <2>1, <2>3, SameGood
  <2> QED
    BY <2>2, <2>4, PushInv
<1>4. ASSUME NEW op \in {"SHA3", "CALLDATALOAD"}, BytesRead(op, w)
      PROVE  WordsInv'
  <2>1. op \in Sources /\ op \notin TurnedSources
    BY DEF Sources, TurnedSources
  <2>2. emitEndianConvert(w) = Turned(w) /\ Turned(w) \in Bytes(WordLen)
    BY <1>0, Widths, Converts, TurnedFacts
  <2>3. Zext(Turned(w), WordLen) = Turned(w)
    BY <2>2, Widths, ZextFacts
  <2>4. Item(emitEndianConvert(w), Turned(w), op) \in Good
    BY <2>1, <2>2, <2>3, SameGood DEF Values, Word
  <2> QED
    BY <1>4, <2>4, PushInv DEF BytesRead
<1>5. ASSUME CODESIZE(w) PROVE WordsInv'
  <2> DEFINE n == Trunc(w, IntLen)
  <2>1. "CODESIZE" \in Sources /\ "CODESIZE" \in NarrowSources /\ "CODESIZE" \notin TurnedSources
    BY DEF Sources, NarrowSources, TurnedSources
  <2>2. n \in Values
    BY <1>0, Widths, TruncFacts DEF Values
  <2>3. Item(n, Zext(n, WordLen), "CODESIZE") \in Good
    BY <2>1, <2>2, SameGood
  <2>4. Literal(n, Zext(n, WordLen), "CODESIZE") \in Good
    BY <2>3, LiteralGood
  <2> QED
    BY <1>5, <2>4, PushInv DEF CODESIZE
<1> QED
  BY <1>1, <1>2, <1>3, <1>4, <1>5

\* ADDRESS and COINBASE push the account as the host stored it, CALLER and
\* ORIGIN convert it.
LEMMA AccountsInv ==
  ASSUME WordsInv, NEW a \in Accounts
  PROVE  /\ \A op \in {"ADDRESS", "COINBASE"} : AddressRead(op, a) => WordsInv'
         /\ \A op \in {"CALLER", "ORIGIN"} : CallerRead(op, a) => WordsInv'
<1>0. a \in Bytes(AddrLen)
  BY DataAssumption
<1>1. ASSUME NEW op \in {"ADDRESS", "COINBASE"}, AddressRead(op, a) PROVE WordsInv'
  <2>1. op \in TurnedSources
    BY DEF TurnedSources
  <2>2. Item(Zext(a, WordLen), Zext(Turned(a), WordLen), op) \in Good
    BY <1>0, <2>1, TurnedGood
  <2> QED
    BY <1>1, <2>2, PushInv DEF AddressRead
<1>2. ASSUME NEW op \in {"CALLER", "ORIGIN"}, CallerRead(op, a) PROVE WordsInv'
  <2> DEFINE z == Zext(Turned(a), WordLen)
  <2>1. op \in Sources /\ op \notin TurnedSources
    BY DEF Sources, TurnedSources
  <2>2. emitEndianConvert(a) = Turned(a) /\ Turned(a) \in Bytes(AddrLen)
    BY <1>0, Widths, Converts, TurnedFacts
  <2>3. z \in Bytes(WordLen) /\ Zext(z, WordLen) = z
    BY <2>2, Widths, ZextFacts
  <2>4. Push(Item(z, z, op))
    BY <1>2, <2>2 DEF CallerRead
  <2> HIDE DEF z
  <2>5. Item(z, z, op) \in Good
    BY <2>1, <2>3, SameGood DEF Values, Word
  <2> QED
    BY <2>4, <2>5, PushInv
<1> QED
  BY <1>1, <1>2

\* A step that pops the top, hands the host something good and may push a good
\* value.
LEMMA ExchangeInv ==
  ASSUME WordsInv, stack # <<>>, NEW op, Count(op), UNCHANGED Data, HostGood(host'),
         stack' = Below \/ \E it \in Good : stack' = Append(Below, it)
  PROVE  WordsInv'
<1>1. stack' \in Seq(Good)
  BY StackParts
<1>2. steps' \in 0..MaxSteps
  BY StepCounted
<1> QED
  BY <1>1, <1>2, DataKept DEF WordsInv

\* The gas and the value of a call are good values.
LEMMA OperandsGood ==
  ASSUME NEW w \in Words
  PROVE  Operands(w) \subseteq Good
<1>1. w \in Bytes(WordLen)
  BY DataAssumption DEF Word
<1>2. w \in Values /\ w \in Word /\ Trunc(w, HalfLen) \in Values /\ Trunc(w, IntLen) \in Values
  BY <1>1, Widths, TruncFacts DEF Values, Word
<1>3. /\ {"DIFFICULTY", "CALLVALUE", "CALLDATASIZE"} \subseteq Sources \ TurnedSources
      /\ "CALLVALUE" \in NarrowSources /\ "CALLDATASIZE" \in NarrowSources
  BY DEF Sources, NarrowSources, TurnedSources
<1>4. /\ Item(w, Zext(w, WordLen), "DIFFICULTY") \in Good
      /\ Item(Trunc(w, HalfLen), Zext(Trunc(w, HalfLen), WordLen), "CALLVALUE") \in Good
      /\ Item(Trunc(w, IntLen), Zext(Trunc(w, IntLen), WordLen), "CALLDATASIZE") \in Good
  BY <1>2, <1>3, SameGood
<1> QED
  BY <1>4 DEF Operands

\* The calls, EXTCODESIZE, BALANCE and EXTCODECOPY.
LEMMA AccountUsedInv ==
  ASSUME WordsInv, NEW w \in Words, NEW op \in Converting \union Plain,
         NEW others \in SUBSET (Good \X {LongLen, HalfLen}), AccountUsed(op, w, others)
  PROVE  WordsInv'
<1> DEFINE narrow == {use \in others \union {<<Top, AddrLen>>} : Len(use[1].v) < use[2]}
<1>0. /\ stack # <<>> /\ Count(op) /\ UNCHANGED Data /\ w \in Bytes(WordLen)
      /\ Top \in Good /\ Top.v \in Values
  BY StackParts, DataAssumption DEF AccountUsed, Word
<1>1. ASSUME NEW use \in narrow, IllTyped(use[1]), stack' = Below PROVE WordsInv'
  <2>1. host' = Given("ill-typed", use[1], <<>>, use[1].want)
    BY <1>1 DEF IllTyped
  <2>2. use[1] \in Good /\ Len(use[1].v) # WordLen
    <3>1. CASE use = <<Top, AddrLen>>
      BY <1>0, <1>1, <3>1, Widths
    <3>2. CASE use \in others
      BY <1>1, <3>2, Widths
    <3> QED
      BY <1>1, <3>1, <3>2
  <2> QED
    BY <1>0, <1>1, <2>1, <2>2, IllTypedGood, ExchangeInv
<1>2. ASSUME narrow = {},
             \/ host' = Reached(op, Top)
             \/ \E use \in others : use[2] = HalfLen /\ host' = ValueSent(use[1]),
             NEW n,
             n = CASE op = "BALANCE" -> Trunc(w, HalfLen)
                   [] op = "EXTCODESIZE" -> Trunc(w, IntLen)
                   [] OTHER -> Zext(Trunc(w, 1), WordLen),
             stack' = IF op = "EXTCODECOPY" THEN Below
                      ELSE Append(Below, Item(n, Zext(n, WordLen), op))
      PROVE  WordsInv'
  <2>1. Top.v \in Word
    <3>1. ~(Len(Top.v) < AddrLen)
      <4>1. <<Top, AddrLen>> \notin narrow
        BY <1>2
      <4> QED
        BY <4>1
    <3> QED
      BY <1>0, <3>1, Widths, ValueWidth DEF Word
  <2>2. HostGood(host')
    <3>1. CASE host' = Reached(op, Top)
      BY <1>0, <2>1, <3>1, ReachedGood
    <3>2. ASSUME NEW use \in others, use[2] = HalfLen, host' = ValueSent(use[1])
          PROVE  HostGood(host')
      <4>1. use[1] \in Good /\ use[1].v \in Values /\ ~(Len(use[1].v) < HalfLen)
        BY <1>2, <3>2 DEF Good, Items
      <4>2. use[1].v \in Bytes(WordLen) \cup Bytes(HalfLen)
        BY <4>1, Widths, ValueWidth
      <4> QED
        BY <3>2, <4>1, <4>2, ValueGood
    <3> QED
      BY <1>2, <3>1, <3>2
  <2>3. CASE op = "EXTCODECOPY"
    BY <1>0, <1>2, <2>2, <2>3, ExchangeInv
  <2>4. CASE op # "EXTCODECOPY"
    <3>1. op \in Sources /\ op \notin TurnedSources
      BY <2>4 DEF Converting, Plain, Sources, NarrowSources, TurnedSources
    <3>2. n \in Values /\ (n \in Word \/ op \in NarrowSources)
      <4>1. CASE op = "BALANCE"
        <5>1. n = Trunc(w, HalfLen) /\ op \in NarrowSources
          BY <1>2, <4>1 DEF NarrowSources
        <5> QED
          BY <1>0, <5>1, Widths, TruncFacts DEF Values
      <4>2. CASE op = "EXTCODESIZE"
        <5>1. n = Trunc(w, IntLen) /\ op \in NarrowSources
          BY <1>2, <4>2 DEF NarrowSources
        <5> QED
          BY <1>0, <5>1, Widths, TruncFacts DEF Values
      <4>3. CASE op \notin {"BALANCE", "EXTCODESIZE"}
        <5>1. Trunc(w, 1) \in Bytes(1) /\ n = Zext(Trunc(w, 1), WordLen)
          BY <1>0, <1>2, <4>3, Widths, TruncFacts
        <5> QED
          BY <5>1, Widths, ZextFacts DEF Values, Word
      <4> QED
        BY <4>1, <4>2, <4>3
    <3>3. Item(n, Zext(n, WordLen), op) \in Good
      BY <3>1, <3>2, SameGood
    <3>4. stack' = Append(Below, Item(n, Zext(n, WordLen), op))
      BY <1>2, <2>4
    <3> QED
      BY <1>0, <2>2, <3>3, <3>4, ExchangeInv
  <2> QED
    BY <2>3, <2>4
<1> HIDE DEF narrow
<1> QED
  BY <1>1, <1>2 DEF AccountUsed, narrow

\* SUICIDE hands the host what its operand points to.
LEMMA SuicideInv == WordsInv /\ SUICIDE => WordsInv'
<1> SUFFICES ASSUME WordsInv, SUICIDE PROVE WordsInv'
  OBVIOUS
<1>1. stack # <<>> /\ Count("SUICIDE") /\ UNCHANGED Data /\ stack' = Below
  BY DEF SUICIDE
<1>2. host'.op = "SUICIDE"
  BY DEF SUICIDE, Given
<1>3. HostGood(host')
  BY <1>2 DEF HostGood, Converting, Plain
<1> QED
  BY <1>1, <1>3, ExchangeInv

\* CREATE sends a value and pushes an account, or what was in the slot.
LEMMA CreatesInv ==
  ASSUME WordsInv, NEW a \in Bytes(AddrLen), NEW created \in BOOLEAN, CREATE(a, created)
  PROVE  WordsInv'
<1>0. stack # <<>> /\ Count("CREATE") /\ UNCHANGED Data /\ Top \in Good /\ Top.v \in Values
  BY StackParts DEF CREATE
<1>1. CASE Len(Top.v) < HalfLen
  <2>1. host' = Given("ill-typed", Top, <<>>, Top.want) /\ stack' = Below
    BY <1>1 DEF CREATE, IllTyped
  <2>2. Len(Top.v) # WordLen
    BY <1>1, Widths
  <2> QED
    BY <1>0, <2>1, <2>2, IllTypedGood, ExchangeInv
<1>2. CASE ~(Len(Top.v) < HalfLen)
  <2>1. Top.v \in Bytes(WordLen) \cup Bytes(HalfLen)
    BY <1>0, <1>2, Widths, ValueWidth
  <2>2. HostGood(host')
    BY <1>0, <1>2, <2>1, ValueGood DEF CREATE
  <2>3. Item(Zext(a, WordLen), Zext(Turned(a), WordLen), "CREATE") \in Good
    BY TurnedGood DEF TurnedSources
  <2>4. Item(Zext(a, WordLen), Zero, "failed CREATE") \in Good
    <3>1. Zext(a, WordLen) \in Word
      BY Widths, ZextFacts DEF Word
    <3>2. Zero \in Word
      BY ByteAssumption DEF Zero, Word, Bytes
    <3>3. "failed CREATE" \in Undetermined
      BY DEF Undetermined
    <3> QED
      BY <3>1, <3>2, <3>3, UndeterminedGood
  <2>5. \E it \in Good : stack' = Append(Below, it)
    BY <1>2, <2>3, <2>4 DEF CREATE
  <2> QED
    BY <1>0, <2>2, <2>5, ExchangeInv
<1> QED
  BY <1>1, <1>2

\* BLOCKHASH: zero for a number too large, the hash, or what was in the slot.
LEMMA BlockhashInv ==
  ASSUME WordsInv, NEW b \in Word, NEW known \in BOOLEAN, BLOCKHASH(b, known)
  PROVE  WordsInv'
<1>0. stack # <<>> /\ Count("BLOCKHASH") /\ UNCHANGED Data /\ Top \in Good /\ Top.v \in Values
  BY StackParts DEF BLOCKHASH
<1>1. CASE Len(Top.v) < WordLen
  <2>1. host' = Given("ill-typed", Top, <<>>, Top.want) /\ stack' = Below
    BY <1>1 DEF BLOCKHASH, IllTyped
  <2>2. Len(Top.v) # WordLen
    BY <1>1, Widths
  <2> QED
    BY <1>0, <2>1, <2>2, IllTypedGood, ExchangeInv
<1>2. CASE ~(Len(Top.v) < WordLen)
  <2>1. host' = Given("number", Top, Trunc(Top.v, LongLen), Trunc(Top.want, LongLen))
    BY <1>2 DEF BLOCKHASH
  <2>a. host'.op = "number"
    BY <2>1 DEF Given
  <2>2. HostGood(host')
    BY <2>a DEF HostGood, Converting, Plain
  <2>3. /\ emitEndianConvert(b) = Turned(b) /\ Turned(b) \in Bytes(WordLen)
        /\ Zext(Turned(b), WordLen) = Turned(b)
    BY Widths, Converts, TurnedFacts, ZextFacts DEF Word
  <2>4. Zero \in Bytes(WordLen) /\ Zext(Zero, WordLen) = Zero
    <3>1. Zero \in Bytes(WordLen)
      BY ByteAssumption DEF Zero, Bytes
    <3> QED
      BY <3>1, Widths, ZextFacts
  <2>5. "BLOCKHASH" \in Sources /\ "BLOCKHASH" \notin TurnedSources
    BY DEF Sources, TurnedSources
  <2>6. "unknown BLOCKHASH" \in Undetermined
    BY DEF Undetermined
  <2>7. Item(Zero, Zero, "BLOCKHASH") \in Good
    BY <2>4, <2>5, SameGood DEF Values, Word
  <2>8. Item(emitEndianConvert(b), Turned(b), "BLOCKHASH") \in Good
    BY <2>3, <2>5, SameGood DEF Values, Word
  <2>9. Item(emitEndianConvert(b), Zero, "unknown BLOCKHASH") \in Good
    BY <2>3, <2>4, <2>6, UndeterminedGood DEF Word
  <2>10. \E it \in Good : stack' = Append(Below, it)
    BY <1>2, <2>7, <2>8, <2>9 DEF BLOCKHASH
  <2> QED
    BY <1>0, <2>2, <2>10, ExchangeInv
<1> QED
  BY <1>1, <1>2

\* LOG: a topic of a word's width is the word.
LEMMA LogInv ==
  ASSUME WordsInv, NEW rest \in Word, LOG(rest)
  PROVE  WordsInv'
<1> DEFINE got == [i \in 1..WordLen |-> IF i <= Len(Top.v) THEN Top.v[i] ELSE rest[i]]
<1>0. /\ stack # <<>> /\ Count("LOG") /\ UNCHANGED Data /\ Top \in Good /\ Top.v \in Values
      /\ stack' = Below /\ host' = Given("topic", Top, got, Turned(Top.want))
  BY StackParts DEF LOG
<1>1. ASSUME Len(Top.v) = WordLen PROVE got = Top.v
  <2>1. Top.v \in Bytes(WordLen)
    BY <1>0, <1>1, ValueWidth
  <2>2. got \in Bytes(WordLen) /\ \A i \in 1..WordLen : got[i] = Top.v[i]
    BY <1>1, <2>1, Widths, BytesLen DEF Bytes
  <2> QED
    BY <2>1, <2>2, Widths, SameBytes
<1> HIDE DEF got
<1>2. HostGood(host')
  BY <1>0, <1>1, TopicGood
<1> QED
  BY <1>0, <1>2, ExchangeInv
\* A word written at p is the word read there.
LEMMA WrittenAt ==
  ASSUME NEW m \in [0..(MemoryLen - 1) -> Byte], NEW p \in Offsets, NEW n \in 1..WordLen,
         NEW s \in Bytes(n)
  PROVE  /\ Written(m, p, s) \in [0..(MemoryLen - 1) -> Byte]
         /\ n = WordLen => WordAt(Written(m, p, s), p) = s
<1>1. Len(s) = n /\ p \in Nat /\ WordLen \in Nat /\ MemoryLen = WordLen + 1 /\ p <= 1
  BY Widths, BytesLen DEF Offsets, MemoryLen
<1>2. \A a \in p..(p + n - 1) : a - p + 1 \in 1..n
  BY <1>1
<1>3. Written(m, p, s) \in [0..(MemoryLen - 1) -> Byte]
  BY <1>1, <1>2 DEF Written, Bytes
<1>4. ASSUME n = WordLen PROVE WordAt(Written(m, p, s), p) = s
  <2>1. ASSUME NEW i \in 1..WordLen PROVE Written(m, p, s)[p + i - 1] = s[i]
    <3>1. p + i - 1 \in 0..(MemoryLen - 1) /\ p + i - 1 \in p..(p + n - 1) /\ p + i - 1 - p + 1 = i
      BY <1>1, <1>4
    <3> QED
      BY <1>1, <3>1 DEF Written
  <2>2. \A i \in 1..WordLen : WordAt(Written(m, p, s), p)[i] = s[i]
    BY <2>1 DEF WordAt
  <2>3. WordAt(Written(m, p, s), p) \in Bytes(WordLen)
    BY <1>4, <2>1 DEF WordAt, Bytes
  <2> QED
    BY <1>1, <1>4, <2>2, <2>3, SameBytes
<1> QED
  BY <1>3, <1>4

\* What MLOAD reads is a word.
LEMMA WordAtIsWord ==
  ASSUME NEW m \in [0..(MemoryLen - 1) -> Byte], NEW p \in Offsets
  PROVE  WordAt(m, p) \in Bytes(WordLen)
<1>1. \A i \in 1..WordLen : p + i - 1 \in 0..(MemoryLen - 1)
  BY Widths DEF Offsets, MemoryLen
<1> QED
  BY <1>1 DEF WordAt, Bytes

\* Memory after a store: the offset written holds a good pair, the other one
\* a pair that decides nothing.
LEMMA MemoryStored ==
  ASSUME NEW m \in [0..(MemoryLen - 1) -> Byte], NEW e \in [0..(MemoryLen - 1) -> Byte],
         memory' = m, expected' = e, NEW p \in Offsets, NEW from \in Sources,
         origin' = Origins(p, from) \/ origin' = [q \in Offsets |-> "mixed"],
         origin' = Origins(p, from) => Item(Turned(WordAt(m, p)), Turned(WordAt(e, p)), from) \in Good
  PROVE  MemoryGood'
<1>1. "mixed" \in Sources /\ "mixed" \in Undetermined
  BY DEF Sources, Undetermined
<1>2. origin' \in [Offsets -> Sources]
  BY <1>1 DEF Origins
<1>3. ASSUME NEW q \in Offsets
      PROVE  Item(Turned(WordAt(m, q)), Turned(WordAt(e, q)), origin'[q]) \in Good
  <2>1. Turned(WordAt(m, q)) \in Word /\ Turned(WordAt(e, q)) \in Word
    BY Widths, WordAtIsWord, TurnedFacts DEF Word
  <2>2. CASE origin'[q] = "mixed"
    BY <1>1, <2>1, <2>2, UndeterminedGood
  <2>3. CASE origin'[q] # "mixed"
    <3>1. q = p /\ origin' = Origins(p, from) /\ origin'[q] = from
      BY <2>3 DEF Origins
    <3> QED
      BY <3>1
  <2> QED
    BY <2>2, <2>3
<1> QED
  BY <1>2, <1>3 DEF MemoryGood

\* MSTORE and MSTORE8.
LEMMA StoresInv ==
  ASSUME WordsInv, NEW p \in Offsets
  PROVE  (MSTORE(p) => WordsInv') /\ (MSTORE8(p) => WordsInv')
<1>0. /\ memory \in [0..(MemoryLen - 1) -> Byte] /\ expected \in [0..(MemoryLen - 1) -> Byte]
      /\ HostGood(host)
  BY DEF WordsInv, MemoryGood
<1>1. ASSUME MSTORE(p) PROVE WordsInv'
  <2> DEFINE z == Zext(Top.v, WordLen)
  <2>1. /\ stack # <<>> /\ Count("MSTORE") /\ stack' = Below /\ origin' = Origins(p, Top.from)
        /\ memory' = Written(memory, p, MstoreBytes(Top.v))
        /\ expected' = Written(expected, p, Turned(Top.want))
        /\ UNCHANGED <<storage, evmStorage, host>>
    BY <1>1 DEF MSTORE
  <2>2. Top \in Good /\ Below \in Seq(Good) /\ Top.v \in Values /\ Top.want \in Word /\ Top.from \in Sources
    BY <2>1, StackParts
  <2>3. z \in Bytes(WordLen) /\ Item(z, Top.want, Top.from) \in Good
    BY <2>2, ValueWidth, ExtendedGood DEF Word
  <2>4. MstoreBytes(Top.v) = Turned(z)
    BY <2>3, Converts DEF MstoreBytes
  <2> HIDE DEF z
  <2>5. /\ Turned(z) \in Bytes(WordLen) /\ Turned(Turned(z)) = z
        /\ Turned(Top.want) \in Bytes(WordLen) /\ Turned(Turned(Top.want)) = Top.want
    BY <2>2, <2>3, Widths, TurnedFacts DEF Word
  <2>6. /\ memory' \in [0..(MemoryLen - 1) -> Byte] /\ WordAt(memory', p) = Turned(z)
        /\ expected' \in [0..(MemoryLen - 1) -> Byte] /\ WordAt(expected', p) = Turned(Top.want)
    BY <1>0, <2>1, <2>4, <2>5, Widths, WrittenAt
  <2>7. MemoryGood'
    BY <2>1, <2>2, <2>3, <2>5, <2>6, MemoryStored
  <2>8. StorageGood'
    BY <2>1 DEF WordsInv, StorageGood, KeysAgree
  <2>9. steps' \in 0..MaxSteps
    BY <2>1, StepCounted
  <2> QED
    BY <1>0, <2>1, <2>2, <2>7, <2>8, <2>9 DEF WordsInv
<1>2. ASSUME MSTORE8(p), Top.const PROVE WordsInv'
  <2>1. /\ stack # <<>> /\ Count("MSTORE8") /\ stack' = Below /\ UNCHANGED Data
        /\ host' = Given("i8 swap", Top, <<>>, Top.want)
    BY <1>2 DEF MSTORE8
  <2>2. HostGood(host')
    BY <1>2, <2>1, StackParts, SwapGood
  <2> QED
    BY <2>1, <2>2, ExchangeInv
<1>3. ASSUME MSTORE8(p), ~Top.const PROVE WordsInv'
  <2>1. /\ stack # <<>> /\ Count("MSTORE8") /\ stack' = Below /\ origin' = [q \in Offsets |-> "mixed"]
        /\ memory' = Written(memory, p, emitEndianConvert(Trunc(Top.v, 1)))
        /\ expected' = Written(expected, p, <<Top.want[1]>>)
        /\ UNCHANGED <<storage, evmStorage, host>>
    BY <1>3 DEF MSTORE8
  <2>2. Top \in Good /\ Below \in Seq(Good) /\ Top.v \in Values /\ Top.want \in Word /\ Top.from \in Sources
    BY <2>1, StackParts
  <2>3. PICK n \in {WordLen, HalfLen, IntLen} : Top.v \in Bytes(n)
    BY <2>2 DEF Values
  <2>4. Trunc(Top.v, 1) \in Bytes(1)
    BY <2>3, Widths, TruncFacts
  <2>5. emitEndianConvert(Trunc(Top.v, 1)) \in Bytes(1)
    BY <2>4, Converts, TurnedFacts
  <2>6. <<Top.want[1]>> \in Bytes(1)
    <3>1. 1 \in 1..WordLen
      BY Widths
    <3>2. Top.want[1] \in Byte
      BY <2>2, <3>1 DEF Word, Bytes
    <3> QED BY <3>2 DEF Bytes
  <2>7. memory' \in [0..(MemoryLen - 1) -> Byte] /\ expected' \in [0..(MemoryLen - 1) -> Byte]
    BY <1>0, <2>1, <2>5, <2>6, Widths, WrittenAt
  <2>8. origin' # Origins(p, "PUSH")
    <3>1. "PUSH" # "mixed"
      OBVIOUS
    <3> QED
      BY <2>1, <3>1 DEF Origins
  <2>9. "PUSH" \in Sources
    BY DEF Sources
  <2>10. MemoryGood'
    BY <2>1, <2>7, <2>8, <2>9, MemoryStored
  <2>11. StorageGood'
    BY <2>1 DEF WordsInv, StorageGood, KeysAgree
  <2>12. steps' \in 0..MaxSteps
    BY <2>1, StepCounted
  <2> QED
    BY <1>0, <2>1, <2>2, <2>10, <2>11, <2>12 DEF WordsInv
<1> QED
  BY <1>1, <1>2, <1>3

\* MLOAD reads the pair back.
LEMMA MloadInv ==
  ASSUME WordsInv, NEW p \in Offsets, MLOAD(p)
  PROVE  WordsInv'
<1> DEFINE it == Item(Turned(WordAt(memory, p)), Turned(WordAt(expected, p)), origin[p])
<1>1. it \in Good /\ memory \in [0..(MemoryLen - 1) -> Byte]
  BY DEF WordsInv, MemoryGood
<1>2. emitEndianConvert(WordAt(memory, p)) = Turned(WordAt(memory, p))
  BY <1>1, WordAtIsWord, Converts
<1>3. Count("MLOAD") /\ stack' = Append(stack, it) /\ UNCHANGED Data /\ host' = host
  BY <1>2 DEF MLOAD, WordAt, Data
<1> HIDE DEF it
<1>4. stack' \in Seq(Good)
  BY <1>1, <1>3 DEF WordsInv
<1>5. steps' \in 0..MaxSteps
  BY <1>3, StepCounted
<1> QED
  BY <1>3, <1>4, <1>5, DataKept DEF WordsInv
\* Zero is a word, and turned round still zero.
LEMMA ZeroFacts == Zero \in Bytes(WordLen) /\ Turned(Zero) = Zero /\ Zext(Zero, WordLen) = Zero
<1>1. Zero \in Bytes(WordLen)
  BY ByteAssumption DEF Zero, Bytes
<1>2. Len(Zero) = WordLen /\ DOMAIN Zero = 1..WordLen
  BY <1>1, Widths, BytesLen
<1>3. \A i \in 1..WordLen : WordLen + 1 - i \in 1..WordLen
  BY Widths
<1>4. \A i \in 1..WordLen : Turned(Zero)[i] = Zero[i]
  BY <1>2, <1>3 DEF Turned, Zero
<1>5. Turned(Zero) \in Bytes(WordLen)
  BY <1>1, Widths, TurnedFacts
<1>6. Zext(Zero, WordLen) = Zero
  BY <1>1, Widths, ZextFacts
<1> QED
  BY <1>1, <1>4, <1>5, <1>6, Widths, SameBytes

\* SSTORE extends key and value.
LEMMA SlotFacts ==
  ASSUME NEW it \in Good
  PROVE  /\ Slot(it.v) = Turned(Zext(it.v, WordLen)) /\ Slot(it.v) \in Word
         /\ Turned(Slot(it.v)) = Zext(it.v, WordLen)
         /\ Agreeing(it.from) => Slot(it.v) = Turned(it.want)
<1>1. it.v \in Values /\ ItemAgrees(it)
  BY DEF Good, Items
<1>2. Zext(it.v, WordLen) \in Bytes(WordLen)
  BY <1>1, ValueWidth DEF Word
<1>3. Slot(it.v) = Turned(Zext(it.v, WordLen))
  BY <1>2, Converts DEF Slot
<1>4. Turned(Zext(it.v, WordLen)) \in Bytes(WordLen) /\ Turned(Turned(Zext(it.v, WordLen))) = Zext(it.v, WordLen)
  BY <1>2, Widths, TurnedFacts
<1>5. Agreeing(it.from) => Zext(it.v, WordLen) = it.want
  BY <1>1 DEF ItemAgrees
<1> QED
  BY <1>3, <1>4, <1>5 DEF Word

\* Storage after an SSTORE.
LEMMA StorageStored ==
  ASSUME StorageGood, NEW key \in Good, NEW value \in Good,
         storage' = Put(storage, Slot(key.v),
                        [v |-> Slot(value.v), from |-> value.from, key |-> KeySource(key)]),
         evmStorage' = Put(evmStorage, Turned(key.want), Turned(value.want))
  PROVE  StorageGood'
<1> DEFINE slot == Slot(key.v)
           e == Turned(key.want)
           new == [v |-> Slot(value.v), from |-> value.from, key |-> KeySource(key)]
<1>1. /\ key.from \in Sources /\ value.from \in Sources /\ key.want \in Bytes(WordLen)
      /\ value.want \in Bytes(WordLen)
  BY DEF Good, Items, Word
<1>2. slot \in Word /\ e \in Word /\ Slot(value.v) \in Word /\ Turned(value.want) \in Word
      /\ Turned(Turned(value.want)) = value.want
  BY <1>1, SlotFacts, Widths, TurnedFacts DEF Word
<1>3. KeySource(key) \in Sources
  BY <1>1 DEF KeySource, StorageGood
<1>4. new \in [v : Word, from : Sources, key : Sources]
  BY <1>1, <1>2, <1>3
<1>5. /\ DOMAIN storage' = DOMAIN storage \cup {slot}
      /\ storage'[slot] = new
      /\ \A k \in DOMAIN storage : k # slot => storage'[k] = storage[k]
  BY DEF Put
<1>6. /\ DOMAIN evmStorage' = DOMAIN evmStorage \cup {e}
      /\ evmStorage'[e] = Turned(value.want)
      /\ \A k \in DOMAIN evmStorage : k # e => evmStorage'[k] = evmStorage[k]
      /\ evmStorage' = [k \in DOMAIN evmStorage' |-> evmStorage'[k]]
  BY DEF Put
<1> HIDE DEF new
<1>7. ASSUME KeysAgree' PROVE KeysAgree /\ slot = e
  <2>1. Agreeing(new.key) /\ new.key = KeySource(key)
    BY <1>5, <1>7 DEF KeysAgree, new
  <2>2. Agreeing(key.from) /\ (slot \in DOMAIN storage => Agreeing(storage[slot].key))
    BY <2>1 DEF KeySource
  <2>3. KeysAgree
    BY <1>5, <1>7, <2>2 DEF KeysAgree
  <2> QED
    BY <2>2, <2>3, SlotFacts
<1>8. Item(Turned(Slot(value.v)), Turned(Turned(value.want)), value.from) \in Good
  BY <1>2, SlotFacts, ExtendedGood
<1>9. new.v = Slot(value.v) /\ new.from = value.from
  BY DEF new
<1> HIDE DEF slot, e
<1>10. ASSUME KeysAgree', NEW k \in DOMAIN storage'
       PROVE  Item(Turned(storage'[k].v), Turned(evmStorage'[k]), storage'[k].from) \in Good
  <2>1. KeysAgree /\ slot = e /\ DOMAIN storage = DOMAIN evmStorage
    BY <1>7, <1>10 DEF StorageGood
  <2>2. CASE k = slot
    BY <1>5, <1>6, <1>8, <1>9, <2>1, <2>2
  <2>3. CASE k # slot
    <3>1. storage'[k] = storage[k] /\ evmStorage'[k] = evmStorage[k] /\ k \in DOMAIN storage
      BY <1>5, <1>6, <2>1, <2>3
    <3> QED
      BY <2>1, <3>1 DEF StorageGood
  <2> QED
    BY <2>2, <2>3
<1>11. KeysAgree' => DOMAIN storage' = DOMAIN evmStorage'
  BY <1>5, <1>6, <1>7 DEF StorageGood
<1>12. \A k \in DOMAIN storage' : storage'[k] \in [v : Word, from : Sources, key : Sources]
  BY <1>4, <1>5 DEF StorageGood
<1>13. \A k \in DOMAIN evmStorage' : evmStorage'[k] \in Word
  BY <1>2, <1>6 DEF StorageGood
<1>14. DOMAIN storage' \subseteq Word /\ DOMAIN evmStorage' \subseteq Word
  BY <1>2, <1>5, <1>6 DEF StorageGood
<1> QED
  BY <1>6, <1>10, <1>11, <1>12, <1>13, <1>14 DEF StorageGood

\* SSTORE pops a key and a value.
LEMMA SstoreInv == WordsInv /\ SSTORE => WordsInv'
<1> SUFFICES ASSUME WordsInv, SSTORE PROVE WordsInv'
  OBVIOUS
<1>1. /\ stack \in Seq(Good) /\ Len(stack) \in Nat /\ Len(stack) >= 2 /\ StorageGood
  BY DEF WordsInv, SSTORE
<1> DEFINE value == stack[Len(stack) - 1]
<1>2. Top \in Good /\ value \in Good /\ SubSeq(stack, 1, Len(stack) - 2) \in Seq(Good)
  BY <1>1 DEF Top
<1>3. /\ Count("SSTORE") /\ stack' = SubSeq(stack, 1, Len(stack) - 2)
      /\ storage' = Put(storage, Slot(Top.v),
                        [v |-> Slot(value.v), from |-> value.from, key |-> KeySource(Top)])
      /\ evmStorage' = Put(evmStorage, Turned(Top.want), Turned(value.want))
      /\ UNCHANGED <<memory, expected, origin, host>>
  BY DEF SSTORE
<1> HIDE DEF value
<1>4. StorageGood'
  BY <1>1, <1>2, <1>3, StorageStored
<1>5. MemoryGood'
  BY <1>3 DEF WordsInv, MemoryGood
<1>6. steps' \in 0..MaxSteps
  BY <1>3, StepCounted
<1> QED
  BY <1>2, <1>3, <1>4, <1>5, <1>6 DEF WordsInv

\* SLOAD finds what the EVM finds if it looks in the same slot.
LEMMA SloadInv == WordsInv /\ SLOAD => WordsInv'
<1> SUFFICES ASSUME WordsInv, SLOAD PROVE WordsInv'
  OBVIOUS
<1> DEFINE k == emitEndianConvert(Top.v)
           found == IF k \in DOMAIN storage THEN storage[k] ELSE [v |-> Zero, from |-> "PUSH", key |-> "PUSH"]
           e == Turned(Top.want)
           from == IF Agreeing(Top.from) /\ KeysAgree THEN found.from ELSE "mixed"
           want == IF e \in DOMAIN evmStorage THEN Turned(evmStorage[e]) ELSE Zero
           it == Item(emitEndianConvert(found.v), want, from)
<1>1. /\ stack # <<>> /\ Count("SLOAD") /\ UNCHANGED Data /\ StorageGood
      /\ \/ Len(Top.v) < WordLen /\ IllTyped(Top) /\ stack' = Below
         \/ Len(Top.v) = WordLen /\ host' = Given("slot", Top, k, e) /\ stack' = Append(Below, it)
  BY DEF SLOAD, WordsInv
<1>2. Top \in Good /\ Top.v \in Values /\ Top.want \in Word
  BY <1>1, StackParts
<1>3. ASSUME Len(Top.v) < WordLen, IllTyped(Top), stack' = Below PROVE WordsInv'
  <2>1. Len(Top.v) # WordLen
    BY <1>3, Widths
  <2> QED
    BY <1>1, <1>2, <1>3, <2>1, IllTypedGood, ExchangeInv DEF IllTyped
<1>4. ASSUME Len(Top.v) = WordLen, host' = Given("slot", Top, k, e), stack' = Append(Below, it)
      PROVE  WordsInv'
  <2>1. Top.v \in Word
    BY <1>2, <1>4, ValueWidth DEF Word
  <2>2. HostGood(host') /\ (Agreeing(Top.from) => k = e)
    BY <1>2, <1>4, <2>1, KeyGood
  <2>3. found.v \in Bytes(WordLen)
    BY <1>1, ZeroFacts DEF StorageGood, Word
  <2>4. emitEndianConvert(found.v) = Turned(found.v) /\ Turned(found.v) \in Word
    BY <2>3, Widths, Converts, TurnedFacts DEF Word
  <2>5. want \in Word
    BY <1>1, ZeroFacts, Widths, TurnedFacts DEF StorageGood, Word
  <2>6. it \in Good
    <3>1. CASE ~(Agreeing(Top.from) /\ KeysAgree)
      <4>1. from = "mixed" /\ "mixed" \in Undetermined
        BY <3>1 DEF Undetermined
      <4> HIDE DEF want, found, from
      <4> QED
        BY <2>4, <2>5, <4>1, UndeterminedGood
    <3>2. CASE Agreeing(Top.from) /\ KeysAgree
      <4>1. from = found.from /\ k = e
        BY <2>2, <3>2
      <4>2. CASE k \in DOMAIN storage
        <5>1. k \in DOMAIN evmStorage
          BY <1>1, <3>2, <4>2 DEF StorageGood
        <5>2. it = Item(Turned(storage[k].v), Turned(evmStorage[k]), storage[k].from)
          BY <2>4, <4>1, <4>2, <5>1
        <5> QED
          BY <1>1, <3>2, <4>2, <5>2 DEF StorageGood
      <4>3. CASE k \notin DOMAIN storage
        <5>1. k \notin DOMAIN evmStorage
          BY <1>1, <3>2, <4>3 DEF StorageGood
        <5>2. it = Item(Zero, Zero, "PUSH")
          BY <2>4, <4>1, <4>3, <5>1, ZeroFacts
        <5>3. "PUSH" \in Sources /\ "PUSH" \notin TurnedSources
          BY DEF Sources, TurnedSources
        <5> QED
          BY <5>2, <5>3, ZeroFacts, SameGood DEF Values, Word
      <4> QED
        BY <4>2, <4>3
    <3> QED
      BY <3>1, <3>2
  <2> HIDE DEF it
  <2> QED
    BY <1>1, <1>4, <2>2, <2>6, ExchangeInv
<1> HIDE DEF it, k, e
<1> QED
  BY <1>1, <1>3, <1>4

\* The contract starts with zeros everywhere.
LEMMA WordsInitInv == Init => WordsInv
<1> SUFFICES ASSUME Init PROVE WordsInv
  OBVIOUS
<1>1. stack \in Seq(Good) /\ steps \in 0..MaxSteps
  BY MaxStepsAssumption DEF Init
<1>2. MemoryGood
  <2>1. "PUSH" \in Sources /\ "PUSH" \notin TurnedSources
    BY DEF Sources, TurnedSources
  <2>2. memory \in [0..(MemoryLen - 1) -> Byte] /\ expected = memory /\ origin = [p \in Offsets |-> "PUSH"]
    BY ByteAssumption DEF Init
  <2>3. ASSUME NEW p \in Offsets
        PROVE  Item(Turned(WordAt(memory, p)), Turned(WordAt(memory, p)), "PUSH") \in Good
    <3> DEFINE z == Turned(WordAt(memory, p))
    <3>1. z \in Bytes(WordLen) /\ Zext(z, WordLen) = z
      BY <2>2, WordAtIsWord, Widths, TurnedFacts, ZextFacts
    <3> HIDE DEF z
    <3>2. Item(z, z, "PUSH") \in Good
      BY <2>1, <3>1, SameGood DEF Values, Word
    <3> QED
      BY <3>2 DEF z
  <2> QED
    BY <2>1, <2>2, <2>3 DEF MemoryGood
<1>3. StorageGood
  <2>1. storage = <<>> /\ evmStorage = <<>>
    BY DEF Init
  <2>2. DOMAIN storage = {} /\ DOMAIN evmStorage = {}
    BY <2>1
  <2>3. evmStorage = [k \in DOMAIN evmStorage |-> evmStorage[k]]
    BY <2>1
  <2> QED
    BY <2>2, <2>3 DEF StorageGood
<1>4. HostGood(host)
  BY DEF Init, Nothing, HostGood, Converting, Plain
<1> QED
  BY <1>1, <1>2, <1>3, <1>4 DEF WordsInv

\* Every instruction keeps the invariant.
LEMMA WordsStepInv == WordsInv /\ [Next]_vars => WordsInv'
<1> SUFFICES ASSUME WordsInv, [Next]_vars PROVE WordsInv'
  OBVIOUS
<1>1. CASE UNCHANGED vars
  BY <1>1, DataKept DEF vars, Data, WordsInv
<1>2. ASSUME NEW w \in Words,
             \/ PUSH(w)
             \/ \E op \in {"GAS", "GASLIMIT", "NUMBER", "TIMESTAMP", "GASPRICE", "DIFFICULTY"} :
                  NumberRead(op, w)
             \/ \E op \in {"CALLVALUE", "CALLDATASIZE", "RETURNDATASIZE"} : NarrowRead(op, w)
             \/ CODESIZE(w)
             \/ \E op \in {"SHA3", "CALLDATALOAD"} : BytesRead(op, w)
             \/ BLOCKHASH(w, TRUE)
      PROVE  WordsInv'
  BY <1>2, PushesInv, BlockhashInv, DataAssumption
<1>7. ASSUME NEW w \in Words,
             \/ \E op \in Plain \union {"EXTCODESIZE"} : AccountUsed(op, w, {})
             \/ \E op \in {"CALL", "CALLCODE"}, gas, value \in Operands(w) : CALL(op, w, gas, value)
             \/ \E op \in {"DELEGATECALL", "STATICCALL"}, gas \in Operands(w) :
                  DELEGATECALL(op, w, gas)
      PROVE  WordsInv'
  <2>1. /\ Plain \union {"EXTCODESIZE"} \subseteq Converting \union Plain
        /\ {"CALL", "CALLCODE", "DELEGATECALL", "STATICCALL"} \subseteq Converting
    BY DEF Converting, Plain
  <2>2. \A gas, value \in Operands(w) :
          /\ {<<gas, LongLen>>, <<value, HalfLen>>} \in SUBSET (Good \X {LongLen, HalfLen})
          /\ {<<gas, LongLen>>} \in SUBSET (Good \X {LongLen, HalfLen})
    BY OperandsGood
  <2>3. ASSUME NEW op \in Plain \union {"EXTCODESIZE"}, AccountUsed(op, w, {}) PROVE WordsInv'
    BY <2>1, <2>3, AccountUsedInv
  <2>4. ASSUME NEW op \in {"CALL", "CALLCODE"}, NEW gas \in Operands(w), NEW value \in Operands(w),
               CALL(op, w, gas, value)
        PROVE  WordsInv'
    BY <2>1, <2>2, <2>4, AccountUsedInv DEF CALL
  <2>5. ASSUME NEW op \in {"DELEGATECALL", "STATICCALL"}, NEW gas \in Operands(w),
               DELEGATECALL(op, w, gas)
        PROVE  WordsInv'
    BY <2>1, <2>2, <2>5, AccountUsedInv DEF DELEGATECALL
  <2> QED
    BY <1>7, <2>3, <2>4, <2>5
<1>3. ASSUME NEW a \in Accounts,
             \/ \E op \in {"ADDRESS", "COINBASE"} : AddressRead(op, a)
             \/ \E op \in {"CALLER", "ORIGIN"} : CallerRead(op, a)
             \/ CREATE(a, TRUE)
      PROVE  WordsInv'
  BY <1>3, AccountsInv, CreatesInv, DataAssumption
<1>4. ASSUME NEW j \in Junk,
             CREATE(Trunc(j, AddrLen), FALSE) \/ BLOCKHASH(j, FALSE) \/ LOG(j)
      PROVE  WordsInv'
  <2>1. j \in Word /\ Trunc(j, AddrLen) \in Bytes(AddrLen)
    BY DataAssumption, Widths, TruncFacts DEF Word
  <2> QED
    BY <1>4, <2>1, CreatesInv, BlockhashInv, LogInv
<1>5. ASSUME NEW p \in Offsets, MSTORE(p) \/ MSTORE8(p) \/ MLOAD(p) PROVE WordsInv'
  BY <1>5, StoresInv, MloadInv
<1>6. CASE SSTORE \/ SLOAD \/ SUICIDE
  BY <1>6, SstoreInv, SloadInv, SuicideInv
<1> QED
  BY <1>1, <1>2, <1>3, <1>4, <1>5, <1>6, <1>7 DEF Next

\* What the invariant says of the exchanges.
LEMMA WordsInvAgrees == WordsInv => ExchangesAgree /\ StorageAgrees
<1> SUFFICES ASSUME WordsInv PROVE ExchangesAgree /\ StorageAgrees
  OBVIOUS
<1>0. MemoryGood /\ StorageGood /\ HostGood(host) /\ stack \in Seq(Good)
  BY DEF WordsInv
<1>i. ASSUME NEW i \in DOMAIN stack
      PROVE  /\ stack[i] \in Good /\ ItemAgrees(stack[i]) /\ stack[i].v \in Values /\ stack[i].want \in Word
  <2>1. stack[i] \in Good
    BY <1>0
  <2> QED
    BY <2>1 DEF Good, Items
<1>1. TypeOK
  <2>1. ASSUME NEW i \in DOMAIN stack
        PROVE  stack[i].v \in UNION {Bytes(n) : n \in {WordLen, HalfLen, IntLen}}
    BY <1>i DEF Values
  <2>2. \A k \in DOMAIN storage : k \in Word /\ storage[k].v \in Word
    BY <1>0 DEF StorageGood
  <2>3. \A a \in DOMAIN memory : memory[a] \in Byte /\ expected[a] \in Byte
    BY <1>0 DEF MemoryGood
  <2> QED
    BY <1>i, <2>1, <2>2, <2>3 DEF TypeOK, WordsInv
<1>2. WordsAgree
  <2>1. ASSUME NEW p \in Offsets, Agreeing(origin[p]), NEW a \in p..(p + WordLen - 1)
        PROVE  memory[a] = expected[a]
    <3> DEFINE m == WordAt(memory, p)
               x == WordAt(expected, p)
    <3>1. m \in Bytes(WordLen) /\ x \in Bytes(WordLen)
      BY <1>0, WordAtIsWord DEF MemoryGood
    <3>2. Turned(m) \in Bytes(WordLen) /\ Turned(Turned(m)) = m /\ Turned(Turned(x)) = x
      BY <3>1, Widths, TurnedFacts
    <3>3. Zext(Turned(m), WordLen) = Turned(m)
      BY <3>2, Widths, ZextFacts
    <3>4. Item(Turned(m), Turned(x), origin[p]) \in Good
      BY <1>0 DEF MemoryGood
    <3> HIDE DEF m, x
    <3>5. Turned(m) = Turned(x)
      BY <2>1, <3>3, <3>4 DEF Good, ItemAgrees, Item
    <3>6. m = x
      BY <3>2, <3>5
    <3>7. PICK i \in 1..WordLen : a = p + i - 1
      <4>1. a - p + 1 \in 1..WordLen /\ a = p + (a - p + 1) - 1
        BY Widths DEF Offsets
      <4> QED
        BY <4>1
    <3> QED
      BY <3>6, <3>7 DEF m, x, WordAt
  <2> QED
    BY <1>i, <2>1 DEF WordsAgree, ItemAgrees
<1>3. AccountsReached /\ OperandsReached /\ RefusedOnlyNarrow
  BY <1>0 DEF HostGood, AccountsReached, OperandsReached, RefusedOnlyNarrow, NarrowSources
<1>4. StorageAgrees
  <2>1. ASSUME KeysAgree, \A k \in DOMAIN storage : Agreeing(storage[k].from)
        PROVE  evmStorage = [k \in DOMAIN storage |-> storage[k].v]
    <3>1. DOMAIN storage = DOMAIN evmStorage
      BY <1>0, <2>1 DEF StorageGood
    <3>2. ASSUME NEW k \in DOMAIN storage PROVE evmStorage[k] = storage[k].v
      <4> DEFINE m == storage[k].v
                 x == evmStorage[k]
      <4>1. m \in Bytes(WordLen) /\ x \in Bytes(WordLen)
        BY <1>0, <3>1 DEF StorageGood, Word
      <4>2. Turned(m) \in Bytes(WordLen) /\ Turned(Turned(m)) = m /\ Turned(Turned(x)) = x
        BY <4>1, Widths, TurnedFacts
      <4>3. Zext(Turned(m), WordLen) = Turned(m)
        BY <4>2, Widths, ZextFacts
      <4>4. Item(Turned(m), Turned(x), storage[k].from) \in Good
        BY <1>0, <2>1 DEF StorageGood
      <4>5. Agreeing(storage[k].from)
        BY <2>1
      <4> HIDE DEF m, x
      <4>6. Turned(m) = Turned(x)
        BY <4>3, <4>4, <4>5 DEF Good, ItemAgrees, Item
      <4>7. m = x
        BY <4>2, <4>6
      <4> QED
        BY <4>7 DEF m, x
    <3>3. evmStorage = [k \in DOMAIN evmStorage |-> evmStorage[k]]
      BY <1>0 DEF StorageGood
    <3> QED
      BY <3>1, <3>2, <3>3
  <2> QED
    BY <1>0, <2>1 DEF StorageAgrees, HostGood
<1> QED
  BY <1>1, <1>2, <1>3, <1>4 DEF ExchangesAgree

\* The invariant holds along every run of a contract.
LEMMA WordsInvariance == Spec => []WordsInv
BY WordsInitInv, WordsStepInv, PTL DEF Spec

\* For every width, account, word and content of a fresh slot, and contracts
\* of any length: a word that a translated contract exchanges with its host is
\* the EVM's, but for the turned accounts and cut values ExchangesAgree names,
\* and where there is no contract because a value was too narrow for its use,
\* or a constant byte was to be swapped, it names the sources of such values.
THEOREM ExchangesCorrect == Spec => []ExchangesAgree
<1> QED BY WordsInvariance, WordsInvAgrees, PTL

\* The same of storage: what is stored is what is loaded, under the same key.
THEOREM StorageCorrect == Spec => []StorageAgrees
<1> QED BY WordsInvariance, WordsInvAgrees, PTL
=============================================================================
