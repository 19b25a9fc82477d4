---------------------------- MODULE WordsProofs -----------------------------
(***************************************************************************)
(* Proofs about the instructions on words and the functions they call, for *)
(* every width of a word: numbers and powers of two, the functions of      *)
(* Arith256.cpp from block to block (ArithInv), the safe math pass and the *)
(* types of values (NarrowInv); then sums, products, quotients, bits and   *)
(* bytes of values of different types, and from them what each instruction *)
(* yields after any history of instructions (WordsInv).                    *)
(***************************************************************************)
EXTENDS Words, Arith256, FiniteSetTheorems, WellFoundedInduction, TLAPS

(***************************************************************************)
(* Numbers.  Induction is on a set of naturals, which needs no operator as *)
(* a parameter.                                                            *)
(***************************************************************************)
\* A set of naturals that is not empty has a least member.
LEMMA Least ==
  ASSUME NEW S \in SUBSET Nat, S # {}
  PROVE  \E m \in S : \A n \in S : m <= n
<1>1. PICK m \in S : \A n \in S : ~(<<n, m>> \in OpToRel(<, Nat))
  BY WFMin, NatLessThanWellFounded
<1>2. ASSUME NEW n \in S PROVE m <= n
  <2>1. ~(n < m)
    BY <1>1 DEF OpToRel
  <2> QED BY <2>1
<1> QED BY <1>1, <1>2

\* A set of naturals that contains zero and every successor contains all.
LEMMA Induct ==
  ASSUME NEW S \in SUBSET Nat, 0 \in S, \A n \in S : n + 1 \in S
  PROVE  S = Nat
<1> SUFFICES ASSUME S # Nat PROVE FALSE
  OBVIOUS
<1>1. PICK m \in Nat \ S : \A n \in Nat \ S : m <= n
  <2>1. Nat \ S \in SUBSET Nat /\ Nat \ S # {}
    OBVIOUS
  <2> QED BY <2>1, Least
<1>2. m - 1 \in Nat
  BY <1>1
<1>3. m - 1 \in S
  BY <1>1, <1>2
<1>4. (m - 1) + 1 \in S
  BY <1>3
<1> QED BY <1>1, <1>2, <1>4

\* A power of two is a natural and not zero: it counts the subsets of a set.
LEMMA PowNat == \A n \in Nat : 2^n \in Nat \ {0}
<1> SUFFICES ASSUME NEW n \in Nat PROVE 2^n \in Nat \ {0}
  OBVIOUS
<1>1. IsFiniteSet(1..n) /\ Cardinality(1..n) = n
  BY FS_Interval
<1>2. IsFiniteSet(SUBSET (1..n)) /\ Cardinality(SUBSET (1..n)) = 2^n
  BY <1>1, FS_SUBSET
<1>3. Cardinality(SUBSET (1..n)) \in Nat
  BY <1>2, FS_CardinalityType
<1>4. SUBSET (1..n) # {}
  OBVIOUS
<1>5. Cardinality(SUBSET (1..n)) # 0
  BY <1>2, <1>4, FS_EmptySet
<1> QED BY <1>2, <1>3, <1>5

\* Each power of two is twice the one before.
LEMMA PowNext == \A n \in Nat : 2^(n + 1) = 2 * 2^n
<1> SUFFICES ASSUME NEW n \in Nat PROVE 2^(n + 1) = 2 * 2^n
  OBVIOUS
<1> DEFINE S == SUBSET (1..n)
           f == [T \in S |-> T \union {n + 1}]
           U == {T \union {n + 1} : T \in S}
<1>0. n + 1 \in Nat
  OBVIOUS
<1>1. /\ IsFiniteSet(1..n) /\ Cardinality(1..n) = n
      /\ IsFiniteSet(1..(n + 1)) /\ Cardinality(1..(n + 1)) = n + 1
  BY FS_Interval
<1>2. /\ IsFiniteSet(S) /\ Cardinality(S) = 2^n
      /\ Cardinality(SUBSET (1..(n + 1))) = 2^(n + 1)
  BY <1>1, FS_SUBSET
<1>3. n + 1 \notin 1..n
  OBVIOUS
<1>4. f \in Bijection(S, U)
  <2>1. f \in [S -> U]
    OBVIOUS
  <2>2. \A T1, T2 \in S : f[T1] = f[T2] => T1 = T2
    <3> SUFFICES ASSUME NEW T1 \in S, NEW T2 \in S, T1 \union {n + 1} = T2 \union {n + 1}
                 PROVE  T1 = T2
      OBVIOUS
    <3>1. n + 1 \notin T1 /\ n + 1 \notin T2
      BY <1>3
    <3> QED BY <3>1
  <2>3. \A u \in U : \E T \in S : f[T] = u
    OBVIOUS
  <2> QED BY <2>1, <2>2, <2>3 DEF Bijection, Injection, Surjection, IsInjective
<1>5. IsFiniteSet(U) /\ Cardinality(U) = 2^n
  BY <1>2, <1>4, FS_Bijection DEF ExistsBijection
<1>6. S \intersect U = {}
  BY <1>3
<1>7. 1..(n + 1) = (1..n) \union {n + 1}
  OBVIOUS
<1>8. SUBSET (1..(n + 1)) = S \union U
  <2>1. ASSUME NEW T \in SUBSET (1..(n + 1)) PROVE T \in S \union U
    <3>1. CASE n + 1 \in T
      <4>1. T \ {n + 1} \in S /\ T = (T \ {n + 1}) \union {n + 1}
        BY <1>7, <3>1
      <4> QED BY <4>1
    <3>2. CASE n + 1 \notin T
      BY <1>7, <3>2
    <3> QED BY <3>1, <3>2
  <2>2. \A T \in S \union U : T \in SUBSET (1..(n + 1))
    BY <1>7
  <2> QED BY <2>1, <2>2
<1> HIDE DEF S, U
<1>9. Cardinality(S \union U) = Cardinality(S) + Cardinality(U) - Cardinality(S \intersect U)
  BY <1>2, <1>5, FS_Union
<1>10. Cardinality(S \intersect U) = 0
  BY <1>6, FS_EmptySet
<1> PICK p \in Nat : p = 2^n
  BY PowNat
<1>11. Cardinality(S) = p /\ Cardinality(U) = p
  BY <1>2, <1>5
<1>12. Cardinality(S \union U) = p + p
  BY <1>9, <1>10, <1>11
<1>13. Cardinality(SUBSET (1..(n + 1))) = p + p
  BY <1>8, <1>12, Zenon
<1>14. p + p = 2 * p
  OBVIOUS
<1> QED BY <1>2, <1>13, <1>14, Zenon

\* Powers of two multiply.
LEMMA PowSum == \A m, n \in Nat : 2^(m + n) = 2^m * 2^n
<1> SUFFICES ASSUME NEW m \in Nat PROVE \A n \in Nat : 2^(m + n) = 2^m * 2^n
  OBVIOUS
<1> DEFINE S == {n \in Nat : 2^(m + n) = 2^m * 2^n}
<1>1. 0 \in S
  <2>1. 2^0 = 1 /\ m + 0 = m
    OBVIOUS
  <2>2. \A p \in Nat : p = p * 1
    OBVIOUS
  <2>3. 2^m = 2^m * 1
    BY <2>2, PowNat
  <2>4. 2^(m + 0) = 2^m * 2^0
    BY <2>1, <2>3, Zenon
  <2> QED BY <2>4
<1>2. ASSUME NEW n \in S PROVE n + 1 \in S
  <2>1. 2^(m + n) = 2^m * 2^n /\ n \in Nat
    OBVIOUS
  <2>2. 2^((m + n) + 1) = 2 * 2^(m + n) /\ 2^(n + 1) = 2 * 2^n
    BY <2>1, PowNext
  <2>3. \A p, k \in Nat : 2 * (p * k) = p * (2 * k)
    OBVIOUS
  <2>4. 2 * (2^m * 2^n) = 2^m * (2 * 2^n)
    BY <2>1, <2>3, PowNat
  <2>5. (m + n) + 1 = m + (n + 1)
    BY <2>1
  <2>6. 2^(m + (n + 1)) = 2^m * 2^(n + 1)
    BY <2>1, <2>2, <2>4, <2>5, Zenon
  <2> QED BY <2>1, <2>6
<1>3. S = Nat
  <2>1. S \in SUBSET Nat
    OBVIOUS
  <2> HIDE DEF S
  <2> QED BY <1>1, <1>2, <2>1, Induct
<1> QED BY <1>3

\* And grow.
LEMMA PowMono == \A m, n \in Nat : m <= n => 2^m <= 2^n
<1> SUFFICES ASSUME NEW m \in Nat, NEW n \in Nat, m <= n PROVE 2^m <= 2^n
  OBVIOUS
<1>1. n - m \in Nat /\ m + (n - m) = n
  OBVIOUS
<1>2. 2^(m + (n - m)) = 2^m * 2^(n - m)
  BY <1>1, PowSum
<1>3. \A p \in Nat, k \in Nat \ {0} : p <= p * k
  OBVIOUS
<1>4. 2^m <= 2^m * 2^(n - m)
  BY <1>1, <1>3, PowNat
<1> QED BY <1>1, <1>2, <1>4, Zenon

(***************************************************************************)
(* Bit lengths.                                                            *)
(***************************************************************************)
\* The bits of n without leading zeros are k.
BitsOf(n, k) == n < 2^k /\ (k = 0 \/ n >= 2^(k - 1))

\* A number is below the power of two it is the exponent of.
LEMMA PowAbove == \A n \in Nat : n < 2^n
<1> DEFINE S == {n \in Nat : n < 2^n}
<1>1. 0 \in S
  BY PowNat
<1>2. ASSUME NEW n \in S PROVE n + 1 \in S
  <2>1. n \in Nat /\ n < 2^n
    OBVIOUS
  <2> PICK p \in Nat : p = 2^n
    BY <2>1, PowNat
  <2>2. 2^(n + 1) = 2 * p
    BY <2>1, PowNext, Zenon
  <2>3. n + 1 < 2 * p
    BY <2>1
  <2>4. n + 1 < 2^(n + 1)
    BY <2>2, <2>3, Zenon
  <2> QED BY <2>1, <2>4
<1>3. S = Nat
  <2>1. S \in SUBSET Nat
    OBVIOUS
  <2> HIDE DEF S
  <2> QED BY <1>1, <1>2, <2>1, Induct
<1> QED BY <1>3

\* A number below a power of two has at most as many bits.
LEMMA BitsBelow ==
  ASSUME NEW n \in Nat, NEW k \in Nat, NEW m \in Nat, BitsOf(n, k), n < 2^m
  PROVE  k <= m
<1> SUFFICES ASSUME k > m PROVE FALSE
  OBVIOUS
<1>1. k # 0 /\ k - 1 \in Nat /\ m <= k - 1
  OBVIOUS
<1>2. 2^m <= 2^(k - 1)
  BY <1>1, PowMono
<1>3. 2^(k - 1) <= n
  BY <1>1 DEF BitsOf
<1> PICK p \in Nat : p = 2^m
  BY PowNat
<1> PICK c \in Nat : c = 2^(k - 1)
  BY <1>1, PowNat
<1>4. p <= c /\ c <= n /\ n < p
  BY <1>2, <1>3
<1> QED BY <1>4

\* So bit lengths grow with the number, and a number has only one.
LEMMA BitsGrow ==
  ASSUME NEW n \in Nat, NEW k \in Nat, NEW m \in Nat, NEW j \in Nat,
         BitsOf(n, k), BitsOf(m, j), n <= m
  PROVE  k <= j
<1>1. n < 2^j
  <2> PICK p \in Nat : p = 2^j
    BY PowNat
  <2>1. m < p
    BY DEF BitsOf
  <2> QED BY <2>1
<1> QED BY <1>1, BitsBelow

\* The length the EVM model picks is the bit length.
LEMMA BitLengthIs ==
  ASSUME NEW n \in Nat, NEW k \in Nat, NEW width \in Nat, BitsOf(n, k), k <= width
  PROVE  BitLength(n, width) = k
<1>1. k \in 0..width /\ n < 2^k /\ (k = 0 \/ n >= 2^(k - 1))
  BY DEF BitsOf
<1>2. ASSUME NEW j \in 0..width, n < 2^j /\ (j = 0 \/ n >= 2^(j - 1))
      PROVE  j = k
  <2>1. j \in Nat /\ BitsOf(n, j)
    BY <1>2 DEF BitsOf
  <2>2. j <= k /\ k <= j
    BY <2>1, BitsGrow
  <2> QED BY <2>1, <2>2
<1> QED BY <1>1, <1>2 DEF BitLength

\* One pass of the loop that halves tmp and counts: t is n shifted by c.
Halving(n, t, c) ==
  /\ t * 2^c <= n /\ n < (t + 1) * 2^c
  /\ c = 0 \/ 2^(c - 1) <= n

\* A pass keeps it.
LEMMA HalvingStep ==
  ASSUME NEW n \in Nat, NEW t \in Nat \ {0}, NEW c \in Nat, Halving(n, t, c)
  PROVE  Halving(n, t \div 2, c + 1)
<1> PICK p \in Nat : p = 2^c
  BY PowNat
<1> PICK u \in Nat : u = t \div 2 /\ (t = 2 * u \/ t = 2 * u + 1)
  OBVIOUS
<1>1. 2^(c + 1) = 2 * p
  BY PowNext, Zenon
<1>2. t * p <= n /\ n < (t + 1) * p
  BY DEF Halving
<1>3. u * (2 * p) <= n /\ n < (u + 1) * (2 * p)
  <2>1. CASE t = 2 * u
    BY <1>2, <2>1
  <2>2. CASE t = 2 * u + 1
    BY <1>2, <2>2
  <2> QED BY <2>1, <2>2
<1>4. p <= n
  <2>1. \A s \in Nat \ {0} : p <= s * p
    OBVIOUS
  <2> PICK s \in Nat : s = t * p
    OBVIOUS
  <2>2. p <= s /\ s <= n
    BY <1>2, <2>1
  <2> QED BY <2>2
<1>5. (c + 1) - 1 = c /\ c + 1 \in Nat
  OBVIOUS
<1> QED BY <1>1, <1>3, <1>4, <1>5, Zenon DEF Halving

\* It ends with the bit length.
LEMMA HalvingEnd ==
  ASSUME NEW n \in Nat, NEW c \in Nat, Halving(n, 0, c)
  PROVE  BitsOf(n, c)
<1> PICK p \in Nat : p = 2^c
  BY PowNat
<1>1. n < (0 + 1) * p
  BY DEF Halving
<1>2. n < p
  BY <1>1
<1>3. c = 0 \/ 2^(c - 1) <= n
  BY DEF Halving
<1>4. c # 0 => c - 1 \in Nat
  OBVIOUS
<1>5. c = 0 \/ n >= 2^(c - 1)
  BY <1>3
<1> QED BY <1>2, <1>5 DEF BitsOf

(***************************************************************************)
(* Words.                                                                  *)
(***************************************************************************)
\* The values of k bits are the naturals below 2^k.
LEMMA ValuesAre == \A k \in Nat : \A n : n \in Values(k) <=> n \in Nat /\ n < 2^k
<1> SUFFICES ASSUME NEW k \in Nat, NEW n PROVE n \in Values(k) <=> n \in Nat /\ n < 2^k
  OBVIOUS
<1> PICK p \in Nat : p = 2^k
  BY PowNat
<1>1. n \in 0..(p - 1) <=> n \in Nat /\ n < p
  OBVIOUS
<1> QED BY <1>1 DEF Values

\* Wrapping yields a value, and keeps one.
LEMMA WrapFacts ==
  /\ \A k \in Nat, n \in Int : Wrap(n, k) \in Values(k)
  /\ \A k \in Nat : \A n \in Values(k) : Wrap(n, k) = n
<1>1. ASSUME NEW k \in Nat, NEW n \in Int PROVE Wrap(n, k) \in Values(k)
  <2> PICK p \in Nat \ {0} : p = 2^k
    BY PowNat
  <2>1. n % p \in 0..(p - 1)
    OBVIOUS
  <2> QED BY <2>1 DEF Wrap, Values
<1>2. ASSUME NEW k \in Nat, NEW n \in Values(k) PROVE Wrap(n, k) = n
  <2> PICK p \in Nat \ {0} : p = 2^k
    BY PowNat
  <2>1. n \in Nat /\ n < p
    BY ValuesAre
  <2>2. n % p = n
    BY <2>1
  <2> QED BY <2>2 DEF Wrap
<1> QED BY <1>1, <1>2

\* Quotient and remainder are determined by their equation.
LEMMA DivUnique ==
  ASSUME NEW n \in Nat, NEW d \in Nat \ {0}, NEW k \in Nat, NEW c \in Nat,
         n = k * d + c, c < d
  PROVE  n \div d = k /\ n % d = c
<1>1. \A p \in Nat \ {0}, l \in Int : \A m \in 0..(p - 1) :
         (p * l + m) % p = m /\ (p * l + m) \div p = l
  OBVIOUS
<1>2. n = d * k + c
  OBVIOUS
<1>3. c \in 0..(d - 1)
  OBVIOUS
<1> QED BY <1>1, <1>2, <1>3

(***************************************************************************)
(* The division loops, on numbers.                                         *)
(***************************************************************************)
\* n shifted by k bits, its highest bit just below 2^m.
ShiftedTo(n, k, m, v) == v = n * 2^k /\ v < 2^m /\ (n # 0 => 2^m <= 2 * v)

\* One pass of the loop that shifts the divisor: it loses no bit.
LEMMA ShiftStep ==
  ASSUME NEW n \in Nat, NEW k \in Nat, NEW m \in Nat, NEW v \in Nat, NEW width \in Nat,
         ShiftedTo(n, k, m, v), m + 1 <= width
  PROVE  /\ Wrap(2 * v, width) = 2 * v /\ 2 * v \in Values(width)
         /\ ShiftedTo(n, k + 1, m + 1, 2 * v)
<1> PICK p \in Nat : p = 2^k
  BY PowNat
<1> PICK c \in Nat : c = 2^m
  BY PowNat
<1> PICK N \in Nat : N = 2^width
  BY PowNat
<1>1. 2^(k + 1) = 2 * p /\ 2^(m + 1) = 2 * c
  BY PowNext, Zenon
<1>2. 2^(m + 1) <= 2^width
  BY PowMono
<1>3. 2 * c <= N
  BY <1>1, <1>2, Zenon
<1>4. v = n * p /\ v < c /\ (n # 0 => c <= 2 * v)
  BY Zenon DEF ShiftedTo
<1>5. 2 * v = n * (2 * p) /\ 2 * v < 2 * c /\ (n # 0 => 2 * c <= 2 * (2 * v))
  BY <1>4
<1>6. 2 * v \in Nat /\ 2 * v < N
  BY <1>3, <1>5
<1>7. 2 * v \in Values(width)
  BY <1>6, ValuesAre
<1>8. Wrap(2 * v, width) = 2 * v
  BY <1>7, WrapFacts
<1> QED BY <1>1, <1>5, <1>7, <1>8, Zenon DEF ShiftedTo

\* One pass of the loop that subtracts: v is the shifted divisor, m the
\* quotient so far, which is even, and c the rest.
Rest(v, c) == IF c >= v THEN c - v ELSE c
Quotient(v, m, c) == IF c >= v THEN m + 1 - (m % 2) ELSE m

\* It leaves a rest below the divisor.
RestBelow(n, v, m, c) ==
  /\ Rest(v, c) \in Nat /\ Quotient(v, m, c) \in Nat
  /\ n = Quotient(v, m, c) * v + Rest(v, c) /\ Rest(v, c) < v

\* If the rest was below twice the divisor.
LEMMA SubtractStep ==
  ASSUME NEW n \in Nat, NEW v \in Nat, NEW m \in Nat, NEW c \in Nat,
         n = m * v + c, c < 2 * v, m % 2 = 0
  PROVE  RestBelow(n, v, m, c)
<1> USE DEF RestBelow
<1>1. CASE c >= v
  <2>1. Rest(v, c) = c - v /\ Quotient(v, m, c) = m + 1
    BY <1>1 DEF Rest, Quotient
  <2>2. (m + 1) * v = m * v + v
    OBVIOUS
  <2> QED BY <1>1, <2>1, <2>2
<1>2. CASE ~(c >= v)
  BY <1>2 DEF Rest, Quotient
<1> QED BY <1>1, <1>2

\* A division of n by d that has come to d * 2^k, and the one after it.
DividedTo(n, d, k, v, m, c) == v = d * 2^k /\ n = m * v + c /\ c < v
Continues(n, d, k, v, m, c, width) ==
  /\ v \div 2 = d * 2^(k - 1) /\ v \div 2 \in Nat
  /\ Wrap(2 * m, width) = 2 * m /\ 2 * m \in Values(width)
  /\ n = (2 * m) * (v \div 2) + c /\ c < 2 * (v \div 2)
  /\ (2 * m) % 2 = 0

\* The next pass continues with half the divisor and twice the quotient.
LEMMA HalveStep ==
  ASSUME NEW n \in Nat, NEW d \in Nat \ {0}, NEW k \in Nat \ {0}, NEW v \in Nat,
         NEW m \in Nat, NEW c \in Nat, NEW width \in Nat,
         DividedTo(n, d, k, v, m, c), n \in Values(width)
  PROVE  Continues(n, d, k, v, m, c, width)
<1>0. v = d * 2^k /\ n = m * v + c /\ c < v
  BY Zenon DEF DividedTo
<1> PICK p \in Nat \ {0} : p = 2^(k - 1)
  BY PowNat
<1> PICK N \in Nat : N = 2^width
  BY PowNat
<1>1. k - 1 \in Nat /\ (k - 1) + 1 = k
  OBVIOUS
<1>2. 2^k = 2 * p
  BY <1>1, PowNext, Zenon
<1>3. v = d * (2 * p)
  BY <1>0, <1>2, Zenon
<1> PICK h \in Nat : h = d * p
  OBVIOUS
<1>4. v = 2 * h /\ h # 0
  BY <1>3
<1>5. v \div 2 = h
  BY <1>4
<1>6. n = (2 * m) * h + c
  BY <1>0, <1>4
<1>7. 2 * m <= (2 * m) * h
  BY <1>4
<1>8. n < N
  BY ValuesAre
<1>9. 2 * m \in Nat /\ 2 * m < N
  BY <1>6, <1>7, <1>8
<1>10. 2 * m \in Values(width)
  BY <1>9, ValuesAre
<1>11. Wrap(2 * m, width) = 2 * m
  BY <1>10, WrapFacts
<1>12. (2 * m) % 2 = 0
  OBVIOUS
<1>13. v \div 2 = d * 2^(k - 1)
  BY <1>5, Zenon
<1> QED BY <1>0, <1>4, <1>5, <1>6, <1>10, <1>11, <1>12, <1>13 DEF Continues

(***************************************************************************)
(* The multiplication by halves, on numbers.                               *)
(***************************************************************************)
\* Multiples of the modulus do not show.
LEMMA ModAdd ==
  ASSUME NEW N \in Nat \ {0}, NEW m \in Int, NEW k \in Int
  PROVE  (N * k + m) % N = m % N
<1>1. m = N * (m \div N) + (m % N) /\ m % N \in 0..(N - 1) /\ m \div N \in Int
  OBVIOUS
<1>2. \A l \in Int : \A c \in 0..(N - 1) : (N * l + c) % N = c
  OBVIOUS
<1> PICK d \in Int : d = m \div N
  BY <1>1
<1> PICK c \in 0..(N - 1) : c = m % N
  BY <1>1
<1>3. m = N * d + c
  BY <1>1
<1>4. N * k + m = N * (k + d) + c
  BY <1>3
<1> QED BY <1>2, <1>4

\* A sum may be reduced before it is.
LEMMA ModSum ==
  ASSUME NEW N \in Nat \ {0}, NEW m \in Int, NEW n \in Int
  PROVE  (m + (n % N)) % N = (m + n) % N
<1> PICK d \in Int : d = n \div N
  OBVIOUS
<1> PICK c \in Nat : c = n % N
  OBVIOUS
<1>1. n = N * d + c
  OBVIOUS
<1>2. m + n = N * d + (m + c)
  BY <1>1
<1> PICK g \in Int : g = m + c
  OBVIOUS
<1>3. (N * d + g) % N = g % N
  BY ModAdd
<1>4. (m + n) % N = (m + c) % N
  BY <1>2, <1>3
<1> QED BY <1>4

\* Quotient and remainder make up the number.
LEMMA DivMod ==
  ASSUME NEW n \in Nat, NEW d \in Nat \ {0}
  PROVE  n \div d \in Nat /\ n % d \in Nat /\ n % d < d /\ n = (n \div d) * d + (n % d)
  OBVIOUS

\* The four products of the digits of two numbers in base Q, each with what the
\* ones before carry.
Columns(Q, l0, l1, s0, s1, t, u, v, p) ==
  /\ t = l0 * s0
  /\ u = l1 * s0 + t \div Q
  /\ v = l0 * s1 + (u % Q)
  /\ p = l1 * s1 + (u \div Q + v \div Q)

\* None overflows, and they make up the product.
ColumnsFit(Q, l0, l1, s0, s1, t, u, v, p) ==
  /\ t < Q * Q /\ u < Q * Q /\ v < Q * Q /\ p < Q * Q
  /\ u \div Q + v \div Q < Q * Q
  /\ l1 * s0 < Q * Q /\ l0 * s1 < Q * Q /\ l1 * s1 < Q * Q
  /\ (l1 * Q + l0) * (s1 * Q + s0) = p * (Q * Q) + ((v % Q) * Q + (t % Q))

\* The product of the low halves, digit by digit: no sum overflows.
LEMMA Schoolbook ==
  ASSUME NEW Q \in Nat \ {0}, NEW l0 \in 0..(Q - 1), NEW l1 \in 0..(Q - 1),
         NEW s0 \in 0..(Q - 1), NEW s1 \in 0..(Q - 1),
         NEW t \in Nat, NEW u \in Nat, NEW v \in Nat, NEW p \in Nat,
         Columns(Q, l0, l1, s0, s1, t, u, v, p)
  PROVE  ColumnsFit(Q, l0, l1, s0, s1, t, u, v, p)
<1>0. /\ t = l0 * s0 /\ u = l1 * s0 + t \div Q
      /\ v = l0 * s1 + (u % Q) /\ p = l1 * s1 + (u \div Q + v \div Q)
  BY Zenon DEF Columns
<1>a. PICK t0 \in Nat, t1 \in Nat : t0 = t % Q /\ t1 = t \div Q /\ t = t1 * Q + t0 /\ t0 < Q
  BY DivMod
<1>b. PICK u0 \in Nat, u1 \in Nat : u0 = u % Q /\ u1 = u \div Q /\ u = u1 * Q + u0 /\ u0 < Q
  BY DivMod
<1>c. PICK v0 \in Nat, v1 \in Nat : v0 = v % Q /\ v1 = v \div Q /\ v = v1 * Q + v0 /\ v0 < Q
  BY DivMod
<1>1. /\ t = Q * t1 + t0 /\ t0 < Q
      /\ u = Q * u1 + u0 /\ u0 < Q
      /\ v = Q * v1 + v0 /\ v0 < Q
  <2>1. \A m, n \in Nat : m * n = n * m
    OBVIOUS
  <2> QED BY <1>a, <1>b, <1>c, <2>1
<1>2. /\ u = l1 * s0 + t1 /\ v = l0 * s1 + u0 /\ p = l1 * s1 + (u1 + v1)
  BY <1>0, <1>a, <1>b, <1>c, Zenon
<1>3. ASSUME NEW m \in 0..(Q - 1), NEW n \in 0..(Q - 1)
      PROVE  m * n <= (Q - 1) * (Q - 1)
  <2>1. m * n <= (Q - 1) * n /\ (Q - 1) * n <= (Q - 1) * (Q - 1)
    OBVIOUS
  <2> QED BY <2>1
<1>4. (Q - 1) * (Q - 1) + (Q - 1) < Q * Q /\ (Q - 1) * (Q - 1) < Q * Q
  OBVIOUS
<1>5. t < Q * Q /\ l1 * s0 < Q * Q /\ l0 * s1 < Q * Q /\ l1 * s1 < Q * Q
  BY <1>0, <1>3, <1>4
<1>6. \A m, n \in Nat : n <= Q * Q - 1 /\ Q * m <= n => m <= Q - 1
  OBVIOUS
<1>7. t1 <= Q - 1
  BY <1>a, <1>1, <1>5, <1>6
<1>8. u < Q * Q /\ v < Q * Q
  <2>1. l1 * s0 <= (Q - 1) * (Q - 1) /\ l0 * s1 <= (Q - 1) * (Q - 1)
    BY <1>3
  <2>2. \A m, n, k, g \in Nat : m <= k /\ n <= Q - 1 /\ k + (Q - 1) < g => m + n < g
    OBVIOUS
  <2>3. /\ l1 * s0 \in Nat /\ l0 * s1 \in Nat /\ t1 \in Nat /\ u0 \in Nat /\ u0 <= Q - 1
        /\ (Q - 1) * (Q - 1) \in Nat /\ Q * Q \in Nat
    BY <1>a, <1>b
  <2> QED BY <1>2, <1>4, <1>7, <2>1, <2>2, <2>3
<1>9. u1 <= Q - 1 /\ v1 <= Q - 1
  BY <1>b, <1>c, <1>1, <1>6, <1>8
<1>10. (l1 * Q + l0) * (s1 * Q + s0) = p * (Q * Q) + (v0 * Q + t0)
  <2>1. (l1 * Q + l0) * (s1 * Q + s0)
          = (l1 * s1) * (Q * Q) + (l1 * s0 + l0 * s1) * Q + l0 * s0
    OBVIOUS
  <2>2. l1 * s0 + t1 = Q * u1 + u0 /\ l0 * s1 + u0 = Q * v1 + v0
    BY <1>1, <1>2, Zenon
  <2>3. /\ Q \in Int /\ u0 \in Int /\ u1 \in Int /\ v0 \in Int /\ v1 \in Int /\ t0 \in Int /\ t1 \in Int
        /\ l1 * s0 \in Int /\ l0 * s1 \in Int /\ l1 * s1 \in Int /\ Q * u1 \in Int /\ Q * v1 \in Int
    BY <1>a, <1>b, <1>c
  <2>4. l1 * s0 = Q * u1 + u0 - t1 /\ l0 * s1 = Q * v1 + v0 - u0
    <3>1. \A k, g, m, n \in Int : k + g = m + n => k = m + n - g
      OBVIOUS
    <3> QED BY <2>2, <2>3, <3>1
  <2>5. (l1 * s1) * (Q * Q) + (l1 * s0 + l0 * s1) * Q + (Q * t1 + t0)
          = (l1 * s1 + (u1 + v1)) * (Q * Q) + (v0 * Q + t0)
    <3>1. \A m \in Int : \A h, c0, c1, d0, d1, g0, g1 \in Int :
            h * (m * m) + ((m * c1 + c0 - g1) + (m * d1 + d0 - c0)) * m + (m * g1 + g0)
               = (h + (c1 + d1)) * (m * m) + (d0 * m + g0)
      OBVIOUS
    <3>2. (l1 * s1) * (Q * Q) + ((Q * u1 + u0 - t1) + (Q * v1 + v0 - u0)) * Q + (Q * t1 + t0)
            = (l1 * s1 + (u1 + v1)) * (Q * Q) + (v0 * Q + t0)
      BY <2>3, <3>1
    <3> QED BY <2>4, <3>2, Zenon
  <2> QED BY <1>0, <1>1, <1>2, <2>1, <2>5, Zenon
<1>11. u1 + v1 < Q * Q
  <2>1. (Q - 1) + (Q - 1) < Q * Q
    OBVIOUS
  <2> QED BY <1>b, <1>c, <1>9, <2>1
<1>12. p < Q * Q
  <2>1. l1 * Q + l0 <= Q * Q - 1 /\ s1 * Q + s0 <= Q * Q - 1
    <3>1. l1 * Q <= (Q - 1) * Q /\ s1 * Q <= (Q - 1) * Q
      OBVIOUS
    <3>2. (Q - 1) * Q + (Q - 1) = Q * Q - 1
      OBVIOUS
    <3> QED BY <3>1, <3>2
  <2>2. \A m, n, h, c, j \in Nat : m <= h - 1 /\ n <= h - 1 /\ m * n = j * h + c => j < h
    <3> SUFFICES ASSUME NEW m \in Nat, NEW n \in Nat, NEW h \in Nat, NEW c \in Nat, NEW j \in Nat,
                        m <= h - 1, n <= h - 1, m * n = j * h + c, j >= h
                 PROVE  FALSE
      OBVIOUS
    <3>1. m * n <= (h - 1) * (h - 1) /\ h * h <= j * h
      OBVIOUS
    <3>2. (h - 1) * (h - 1) < h * h
      OBVIOUS
    <3> QED BY <3>1, <3>2
  <2> PICK h \in Nat : h = Q * Q
    OBVIOUS
  <2> PICK m \in Nat : m = l1 * Q + l0
    OBVIOUS
  <2> PICK n \in Nat : n = s1 * Q + s0
    OBVIOUS
  <2>4. \A j, k, d \in Nat : j * k + d \in Nat
    OBVIOUS
  <2> PICK c \in Nat : c = v0 * Q + t0
    BY <1>a, <1>c, <2>4
  <2>3. m <= h - 1 /\ n <= h - 1 /\ m * n = p * h + c
    BY <1>10, <2>1
  <2> QED BY <2>2, <2>3
<1> QED BY <1>a, <1>b, <1>c, <1>5, <1>8, <1>10, <1>11, <1>12, Zenon DEF ColumnsFit

\* The two halves of a product: the low digits c, the rest p and the mixed
\* products m and n.
Assembled(H, c, p, m, n) == (c + ((((p + ((m + n) % H)) % H) * H) % (H * H))) % (H * H)

\* What is left after the low product is reduced: the high digit and the mixed
\* products count modulo the half.
Assembles(H, l, lh, s, rh, p, c) ==
  Assembled(H, c, p, (rh * l) % H, (s * lh) % H) = ((lh * H + l) * (rh * H + s)) % (H * H)

\* They do.
LEMMA MixedProducts ==
  ASSUME NEW H \in Nat \ {0}, NEW l \in Nat, NEW lh \in Nat, NEW s \in Nat, NEW rh \in Nat,
         NEW p \in Nat, NEW c \in 0..(H - 1), l * s = p * H + c
  PROVE  Assembles(H, l, lh, s, rh, p, c)
<1> PICK N \in Nat \ {0} : N = H * H
  OBVIOUS
<1> PICK m1 \in Nat : m1 = rh * l
  OBVIOUS
<1> PICK m2 \in Nat : m2 = s * lh
  OBVIOUS
<1> DEFINE mixed == ((m1 % H) + (m2 % H)) % H
<1>1. mixed = (m1 + m2) % H
  <2> PICK c1 \in Nat : c1 = m1 % H
    OBVIOUS
  <2>0. c1 \in Int /\ m1 \in Int /\ m2 \in Int
    OBVIOUS
  <2>1. (c1 + (m2 % H)) % H = (c1 + m2) % H
    BY <2>0, ModSum, Zenon
  <2>2. (m2 + (m1 % H)) % H = (m2 + m1) % H
    BY <2>0, ModSum, Zenon
  <2>3. c1 + m2 = m2 + (m1 % H) /\ m1 + m2 = m2 + m1
    OBVIOUS
  <2> QED BY <2>1, <2>2, <2>3
<1>m. PICK m \in Nat : m = m1 + m2
  OBVIOUS
<1>2. (p + mixed) % H = (p + m) % H
  <2>1. p \in Int /\ m \in Int
    BY <1>m
  <2>2. (p + (m % H)) % H = (p + m) % H
    BY <2>1, ModSum, Zenon
  <2> QED BY <1>1, <1>m, <2>2, Zenon
<1>g. PICK g \in Nat : g = (p + m) % H
  BY <1>m
<1>k. PICK k \in Nat : k = (p + m) \div H
  BY <1>m
<1>3. p + m = H * k + g /\ g < H
  BY <1>m, <1>g, <1>k
<1>4. (lh * H + l) * (rh * H + s) = N * (lh * rh) + (H * (p + m) + c)
  <2>1. (lh * H + l) * (rh * H + s) = (lh * rh) * (H * H) + (rh * l + s * lh) * H + l * s
    OBVIOUS
  <2>2. (lh * H + l) * (rh * H + s) = (lh * rh) * N + m * H + (p * H + c)
    BY <1>m, <2>1
  <2>3. (lh * rh) * N + m * H + (p * H + c) = N * (lh * rh) + (H * (p + m) + c)
    BY <1>m
  <2> QED BY <2>2, <2>3
<1>5. H * (p + m) + c = N * k + (g * H + c)
  BY <1>m, <1>g, <1>k, <1>3
<1>d. PICK d \in Nat : d = lh * rh + k
  BY <1>k
<1>6. (lh * H + l) * (rh * H + s) = N * d + (g * H + c)
  <2>1. \A j \in Nat : N * (lh * rh) + (N * k + j) = N * d + j
    BY <1>k, <1>d
  <2>2. g * H + c \in Nat
    <3>1. \A j, n \in Nat : j * n + c \in Nat
      OBVIOUS
    <3> QED BY <1>g, <3>1
  <2>3. N * (lh * rh) + (N * k + (g * H + c)) = N * d + (g * H + c)
    BY <2>1, <2>2, Zenon
  <2> QED BY <1>4, <1>5, <2>3, Zenon
<1>h. PICK h \in Nat : h = g * H + c
  <2>1. \A j, n \in Nat : j * n + c \in Nat
    OBVIOUS
  <2> QED BY <1>g, <2>1
<1>7. (N * d + h) % N = h % N
  <2>1. d \in Int /\ h \in Int
    BY <1>d, <1>h
  <2> QED BY <2>1, ModAdd, Zenon
<1>8. (c + ((g * H) % N)) % N = (c + g * H) % N
  <2>j. PICK j \in Nat : j = g * H
    BY <1>g
  <2>1. c \in Int /\ j \in Int
    BY <2>j
  <2>2. (c + (j % N)) % N = (c + j) % N
    BY <2>1, ModSum, Zenon
  <2> QED BY <2>j, <2>2, Zenon
<1>9. c + g * H = h
  BY <1>g, <1>h
<1>10. ((lh * H + l) * (rh * H + s)) % N = (c + ((g * H) % N)) % N
  BY <1>6, <1>7, <1>8, <1>9, <1>h
<1>11. (p + mixed) % H = g
  BY <1>2, <1>g
<1> QED BY <1>10, <1>11 DEF Assembled, Assembles

\* What MulFunc makes of the six products of halves; Q, H and N are 2^quarter,
\* 2^half and 2^bits.
Combined(Q, H, N, ll, hl, lh, hh, mixed1, mixed2) ==
  LET lo(n) == n % Q
      hi(n) == n \div Q
      Add(m, n) == (m + n) % H
      u == Add(hl, hi(ll))
      v == Add(lh, lo(u))
      p == Add(hh, Add(hi(u), hi(v)))
      o_l == Add(lo(ll), (v * Q) % H)
      o_h == Add(p, Add(mixed1, mixed2))
  IN  (o_l + ((o_h * H) % N)) % N

\* The halves of a number below a square.
LEMMA Digits ==
  ASSUME NEW d \in Nat \ {0}, NEW n \in Nat, n < d * d
  PROVE  /\ n % d \in 0..(d - 1) /\ n \div d \in 0..(d - 1)
         /\ n = (n \div d) * d + (n % d)
<1>1. n \div d \in Nat /\ n % d \in Nat /\ n % d < d /\ n = (n \div d) * d + (n % d)
  BY DivMod, Zenon
<1> PICK h \in Nat : h = n \div d
  BY <1>1
<1> PICK c \in Nat : c = n % d
  BY <1>1
<1>2. n = h * d + c /\ c < d
  BY <1>1, Zenon
<1>3. h < d
  <2> SUFFICES ASSUME h >= d PROVE FALSE
    OBVIOUS
  <2>1. d * d <= h * d
    OBVIOUS
  <2> QED BY <1>2, <2>1
<1> QED BY <1>1, <1>2, <1>3

\* They combine to the product.
Combines(Q, H, l, lh, s, rh) ==
  Combined(Q, H, H * H,
           ((l % Q) * (s % Q)) % H, ((l \div Q) * (s % Q)) % H,
           ((l % Q) * (s \div Q)) % H, ((l \div Q) * (s \div Q)) % H,
           (rh * l) % H, (s * lh) % H)
    = ((lh * H + l) * (rh * H + s)) % (H * H)

\* They do, for all halves.
LEMMA ProductExact ==
  ASSUME NEW Q \in Nat \ {0}, NEW H \in Nat \ {0}, H = Q * Q,
         NEW l \in 0..(H - 1), NEW lh \in 0..(H - 1), NEW s \in 0..(H - 1), NEW rh \in 0..(H - 1)
  PROVE  Combines(Q, H, l, lh, s, rh)
<1>1. l \in Nat /\ s \in Nat /\ l < Q * Q /\ s < Q * Q
  OBVIOUS
<1>2. PICK l0 \in 0..(Q - 1) : l0 = l % Q
  BY <1>1, Digits
<1>3. PICK l1 \in 0..(Q - 1) : l1 = l \div Q
  BY <1>1, Digits
<1>4. PICK s0 \in 0..(Q - 1) : s0 = s % Q
  BY <1>1, Digits
<1>5. PICK s1 \in 0..(Q - 1) : s1 = s \div Q
  BY <1>1, Digits
<1>6. l = l1 * Q + l0 /\ s = s1 * Q + s0
  BY <1>1, <1>2, <1>3, <1>4, <1>5, Digits
<1>7. l0 \in Nat /\ l1 \in Nat /\ s0 \in Nat /\ s1 \in Nat /\ Q \in Nat
  BY <1>2, <1>3, <1>4, <1>5
<1>8. \A m, n \in Nat : m * n \in Nat /\ m + n \in Nat
  OBVIOUS
<1>9. \A n \in Nat : n \div Q \in Nat /\ n % Q \in Nat
  BY DivMod, Zenon
<1>10. PICK t \in Nat : t = l0 * s0
  BY <1>7, <1>8
<1>11. PICK u \in Nat : u = l1 * s0 + t \div Q
  <2>1. l1 * s0 \in Nat /\ t \div Q \in Nat
    BY <1>7, <1>8, <1>9, <1>10
  <2>2. l1 * s0 + t \div Q \in Nat
    BY <1>8, <2>1
  <2> QED BY <2>2
<1>12. PICK v \in Nat : v = l0 * s1 + (u % Q)
  <2>1. l0 * s1 \in Nat /\ u % Q \in Nat
    BY <1>7, <1>8, <1>9, <1>11
  <2>2. l0 * s1 + (u % Q) \in Nat
    BY <1>8, <2>1
  <2> QED BY <2>2
<1>13. PICK p \in Nat : p = l1 * s1 + (u \div Q + v \div Q)
  <2>1. l1 * s1 \in Nat /\ u \div Q \in Nat /\ v \div Q \in Nat
    BY <1>7, <1>8, <1>9, <1>11, <1>12
  <2>2. l1 * s1 + (u \div Q + v \div Q) \in Nat
    BY <1>8, <2>1
  <2> QED BY <2>2
<1>14. PICK c \in Nat : c = (v % Q) * Q + (t % Q)
  <2>1. (v % Q) * Q \in Nat /\ t % Q \in Nat
    BY <1>7, <1>8, <1>9, <1>10, <1>12
  <2>2. (v % Q) * Q + (t % Q) \in Nat
    BY <1>8, <2>1
  <2> QED BY <2>2
<1>15. ColumnsFit(Q, l0, l1, s0, s1, t, u, v, p)
  <2>1. Columns(Q, l0, l1, s0, s1, t, u, v, p)
    BY <1>2, <1>3, <1>4, <1>5, <1>10, <1>11, <1>12, <1>13 DEF Columns
  <2> QED BY <1>2, <1>3, <1>4, <1>5, <1>10, <1>11, <1>12, <1>13, <2>1, Schoolbook
<1>16. /\ t < H /\ u < H /\ v < H /\ p < H /\ u \div Q + v \div Q < H
       /\ l1 * s0 < H /\ l0 * s1 < H /\ l1 * s1 < H
  BY <1>15, Zenon DEF ColumnsFit
<1>17. l * s = p * H + c
  BY <1>6, <1>14, <1>15, Zenon DEF ColumnsFit
<1>18. \A n \in Nat : n < H => n % H = n
  OBVIOUS
<1>19. /\ (l0 * s0) % H = t /\ (l1 * s0) % H = l1 * s0
       /\ (l0 * s1) % H = l0 * s1 /\ (l1 * s1) % H = l1 * s1
  <2>1. l1 * s0 \in Nat /\ l0 * s1 \in Nat /\ l1 * s1 \in Nat
    BY <1>7, <1>8
  <2> QED BY <1>10, <1>16, <1>18, <2>1, Zenon
<1>20. (l1 * s0 + t \div Q) % H = u
  BY <1>11, <1>16, <1>18, Zenon
<1>21. (l0 * s1 + (u % Q)) % H = v
  BY <1>12, <1>16, <1>18, Zenon
<1>22. (u \div Q + v \div Q) % H = u \div Q + v \div Q
  <2>1. u \div Q + v \div Q \in Nat
    BY <1>8, <1>9, <1>11, <1>12
  <2> QED BY <1>16, <1>18, <2>1, Zenon
<1>23. (l1 * s1 + ((u \div Q + v \div Q) % H)) % H = p
  BY <1>13, <1>16, <1>18, <1>22, Zenon
<1>24. (t % Q) + ((v * Q) % H) = c /\ c < H
  <2>1. PICK v0 \in 0..(Q - 1) : v0 = v % Q
    BY <1>12, <1>15, Digits DEF ColumnsFit
  <2>2. PICK v1 \in 0..(Q - 1) : v1 = v \div Q
    BY <1>12, <1>15, Digits DEF ColumnsFit
  <2>3. PICK t0 \in 0..(Q - 1) : t0 = t % Q
    BY <1>10, <1>15, Digits DEF ColumnsFit
  <2>4. v = v1 * Q + v0
    BY <1>12, <1>15, <2>1, <2>2, Digits DEF ColumnsFit
  <2>5. v0 \in Nat /\ v1 \in Nat /\ t0 \in Nat
    BY <2>1, <2>2, <2>3
  <2>6. v * Q = H * v1 + v0 * Q
    <3>1. \A j, k, m \in Nat : (j * m + k) * m = (m * m) * j + k * m
      OBVIOUS
    <3>2. (v1 * Q + v0) * Q = (Q * Q) * v1 + v0 * Q
      BY <1>7, <2>5, <3>1
    <3> QED BY <2>4, <3>2, Zenon
  <2>7. v0 * Q + t0 < H /\ v0 * Q < H
    <3>1. v0 <= Q - 1 /\ t0 <= Q - 1
      BY <2>1, <2>3
    <3>2. \A k, m \in Nat : k <= m => k * Q <= m * Q
      OBVIOUS
    <3>3. v0 * Q <= (Q - 1) * Q
      BY <2>5, <3>1, <3>2
    <3>4. (Q - 1) * Q + (Q - 1) < Q * Q
      OBVIOUS
    <3> QED BY <2>5, <3>1, <3>3, <3>4
  <2>8. PICK g \in Nat : g = v0 * Q
    BY <1>7, <1>8, <2>5
  <2>9. (H * v1 + g) % H = g % H
    <3>1. v1 \in Int /\ g \in Int
      BY <2>5, <2>8
    <3> QED BY <3>1, ModAdd, Zenon
  <2>10. g % H = g
    BY <1>18, <2>7, <2>8
  <2>11. (v * Q) % H = g
    BY <2>6, <2>8, <2>9, <2>10, Zenon
  <2>12. c = g + t0
    BY <1>14, <2>1, <2>3, <2>8, Zenon
  <2>13. t0 + g = g + t0 /\ g + t0 < H
    BY <2>5, <2>7, <2>8
  <2> QED BY <2>3, <2>11, <2>12, <2>13, Zenon
<1>25. ((t % Q) + ((v * Q) % H)) % H = c
  BY <1>14, <1>18, <1>24
<1>26. Combined(Q, H, H * H, t, l1 * s0, l0 * s1, l1 * s1, (rh * l) % H, (s * lh) % H)
         = Assembled(H, c, p, (rh * l) % H, (s * lh) % H)
  BY <1>20, <1>21, <1>23, <1>25, Zenon DEF Combined, Assembled
<1>27. c \in 0..(H - 1)
  BY <1>14, <1>24
<1>28. Assembled(H, c, p, (rh * l) % H, (s * lh) % H) = ((lh * H + l) * (rh * H + s)) % (H * H)
  <2>1. l \in Nat /\ lh \in Nat /\ s \in Nat /\ rh \in Nat
    OBVIOUS
  <2>2. Assembles(H, l, lh, s, rh, p, c)
    BY <1>13, <1>17, <1>27, <2>1, MixedProducts
  <2> QED BY <2>2, Zenon DEF Assembles
<1> QED BY <1>2, <1>3, <1>4, <1>5, <1>19, <1>26, <1>28, Zenon DEF Combines

\* A table of products of that many bits.
Multiplies(Low, bits) == \A m, n \in Values(bits) : Low[m, n] = Wrap(m * n, bits)

\* Quarters, halves and the whole.
LEMMA QuarterPowers ==
  ASSUME NEW k \in Nat
  PROVE  /\ (4 * k) \div 2 = 2 * k /\ (4 * k) \div 4 = k
         /\ 2^(2 * k) = 2^k * 2^k /\ 2^(4 * k) = 2^(2 * k) * 2^(2 * k)
<1>1. (4 * k) \div 2 = 2 * k /\ (4 * k) \div 4 = k
  OBVIOUS
<1>2. 2^(k + k) = 2^k * 2^k
  BY PowSum
<1>3. 2^((2 * k) + (2 * k)) = 2^(2 * k) * 2^(2 * k)
  <2>1. 2 * k \in Nat
    OBVIOUS
  <2> QED BY <2>1, PowSum
<1>4. k + k = 2 * k /\ (2 * k) + (2 * k) = 4 * k
  OBVIOUS
<1> QED BY <1>1, <1>2, <1>3, <1>4, Zenon

\* A product by halves is the product, if the products of halves are.
LEMMA MulFuncExact ==
  ASSUME NEW k \in Nat, NEW Low, Multiplies(Low, 2 * k),
         NEW lhs \in Values(4 * k), NEW rhs \in Values(4 * k)
  PROVE  MulFunc(lhs, rhs, 4 * k, Low) = Wrap(lhs * rhs, 4 * k)
<1>1. PICK Q \in Nat \ {0} : Q = 2^k
  BY PowNat
<1>2. PICK H \in Nat \ {0} : H = 2^(2 * k) /\ H = Q * Q
  <2>1. 2^(2 * k) \in Nat \ {0} /\ 2^(2 * k) = Q * Q
    BY <1>1, PowNat, QuarterPowers
  <2> QED BY <2>1
<1>3. 2^(4 * k) = H * H
  BY <1>2, QuarterPowers, Zenon
<1>4. lhs \in Nat /\ lhs < H * H /\ rhs \in Nat /\ rhs < H * H
  <2>1. 4 * k \in Nat
    OBVIOUS
  <2> QED BY <1>3, <2>1, ValuesAre, Zenon
<1> DEFINE l == lhs % H
           lh == lhs \div H
           s == rhs % H
           rh == rhs \div H
<1>5. l \in 0..(H - 1) /\ lh \in 0..(H - 1) /\ s \in 0..(H - 1) /\ rh \in 0..(H - 1)
  BY <1>2, <1>4, Digits
<1>6. lhs = lh * H + l /\ rhs = rh * H + s
  BY <1>2, <1>4, Digits
<1> HIDE DEF l, lh, s, rh
<1>7. l % Q \in 0..(H - 1) /\ s % Q \in 0..(H - 1) /\ l \div Q \in 0..(H - 1) /\ s \div Q \in 0..(H - 1)
  <2>1. l \in Nat /\ s \in Nat /\ l < Q * Q /\ s < Q * Q
    BY <1>2, <1>5
  <2>2. l % Q \in 0..(Q - 1) /\ s % Q \in 0..(Q - 1) /\ l \div Q \in 0..(Q - 1) /\ s \div Q \in 0..(Q - 1)
    BY <1>1, <2>1, Digits
  <2>3. Q <= H
    BY <1>1, <1>2
  <2> QED BY <1>1, <1>2, <2>2, <2>3
<1>8. \A m, n \in 0..(H - 1) : Low[m, n] = (m * n) % H
  BY <1>2, Zenon DEF Multiplies, Values, Wrap
<1>9. MulFunc(lhs, rhs, 4 * k, Low)
        = Combined(Q, H, H * H, Low[l % Q, s % Q], Low[l \div Q, s % Q],
                   Low[l % Q, s \div Q], Low[l \div Q, s \div Q], Low[rh, l], Low[s, lh])
  <2>1. (4 * k) \div 2 = 2 * k /\ (4 * k) \div 4 = k
    BY QuarterPowers
  <2> DEFINE Q4 == 2^((4 * k) \div 4)
             H2 == 2^((4 * k) \div 2)
             lo1 == lhs % H2
             lo2 == rhs % H2
  <2>2. MulFunc(lhs, rhs, 4 * k, Low)
          = Combined(Q4, H2, 2^(4 * k), Low[lo1 % Q4, lo2 % Q4], Low[lo1 \div Q4, lo2 % Q4],
                     Low[lo1 % Q4, lo2 \div Q4], Low[lo1 \div Q4, lo2 \div Q4],
                     Low[rhs \div H2, lo1], Low[lo2, lhs \div H2])
    BY Zenon DEF MulFunc, Combined, Wrap, Carries
  <2>3. Q4 = Q /\ H2 = H
    BY <1>1, <1>2, <2>1, Zenon
  <2>4. lo1 = l /\ lo2 = s /\ lhs \div H2 = lh /\ rhs \div H2 = rh
    BY <2>3, Zenon DEF l, lh, s, rh
  <2> HIDE DEF Q4, H2, lo1, lo2
  <2> QED BY <1>3, <2>2, <2>3, <2>4, Zenon
<1>10. MulFunc(lhs, rhs, 4 * k, Low)
         = Combined(Q, H, H * H,
                    ((l % Q) * (s % Q)) % H, ((l \div Q) * (s % Q)) % H,
                    ((l % Q) * (s \div Q)) % H, ((l \div Q) * (s \div Q)) % H,
                    (rh * l) % H, (s * lh) % H)
  BY <1>5, <1>7, <1>8, <1>9, Zenon
<1>11. MulFunc(lhs, rhs, 4 * k, Low) = ((lh * H + l) * (rh * H + s)) % (H * H)
  <2>1. Combines(Q, H, l, lh, s, rh)
    BY <1>1, <1>2, <1>5, ProductExact
  <2> QED BY <1>10, <2>1, Zenon DEF Combines
<1> QED BY <1>3, <1>6, <1>11, Zenon DEF Wrap

\* The three functions of getMulFunc multiply.
LEMMA MulExact == \A m, n \in Values(W) : Mul256(m, n) = Wrap(m * n, W)
<1>1. PICK k \in Nat : W = 4 * (2 * k)
  <2>1. W = 8 * (W \div 8) /\ W \div 8 \in Nat
    BY WordAssumption, HalvesAssumption
  <2>2. W = 4 * (2 * (W \div 8))
    BY <2>1
  <2> QED BY <2>1, <2>2
<1>2. W \div 4 = 2 * k /\ W \div 2 = 4 * k /\ W \div 2 = 2 * (2 * k) /\ 2 * k \in Nat /\ 4 * k \in Nat
  BY <1>1
<1>3. Multiplies(Mul64, 2 * k)
  BY <1>2, Zenon DEF Multiplies, Mul64, Pairs
<1>4. ASSUME NEW m \in Values(4 * k), NEW n \in Values(4 * k)
      PROVE  MulFunc(m, n, 4 * k, Mul64) = Wrap(m * n, 4 * k)
  BY <1>1, <1>3, <1>4, MulFuncExact
<1>5. Multiplies(Mul128, 4 * k)
  <2>1. ASSUME NEW m \in Values(4 * k), NEW n \in Values(4 * k)
        PROVE  Mul128[m, n] = MulFunc(m, n, 4 * k, Mul64)
    BY <1>2, Zenon DEF Mul128, Pairs
  <2> QED BY <1>4, <2>1, Zenon DEF Multiplies
<1>6. Multiplies(Mul128, 2 * (2 * k))
  <2>1. 4 * k = 2 * (2 * k)
    BY <1>1
  <2> QED BY <1>5, <2>1, Zenon
<1>7. ASSUME NEW m \in Values(W), NEW n \in Values(W)
      PROVE  MulFunc(m, n, W, Mul128) = Wrap(m * n, W)
  <2>1. m \in Values(4 * (2 * k)) /\ n \in Values(4 * (2 * k))
    BY <1>1, <1>7, Zenon
  <2>2. MulFunc(m, n, 4 * (2 * k), Mul128) = Wrap(m * n, 4 * (2 * k))
    BY <1>2, <1>6, <2>1, MulFuncExact
  <2> QED BY <1>1, <2>2, Zenon
<1> QED BY <1>7, Zenon DEF Mul256

(***************************************************************************)
(* Division by zero, and the signs, on numbers.                            *)
(***************************************************************************)
\* One pass with the divisor zero: the quotient gets a bit.
LEMMA OnesStep ==
  ASSUME NEW width \in Nat \ {0}, NEW k \in Nat, NEW m \in Nat, m = Wrap(2^(k + 1) - 2, width)
  PROVE  /\ m % 2 = 0 /\ m + 1 = Wrap(2^(k + 1) - 1, width)
         /\ Wrap(2 * (m + 1), width) = Wrap(2^((k + 1) + 1) - 2, width)
<1>1. PICK h \in Nat \ {0} : h = 2^(width - 1) /\ 2^width = 2 * h
  <2>1. width - 1 \in Nat /\ (width - 1) + 1 = width
    OBVIOUS
  <2>2. 2^(width - 1) \in Nat \ {0}
    BY <2>1, PowNat
  <2>3. 2^width = 2 * 2^(width - 1)
    BY <2>1, PowNext, Zenon
  <2> QED BY <2>2, <2>3
<1>2. PICK p \in Nat \ {0} : p = 2^k /\ 2^(k + 1) = 2 * p
  BY PowNat, PowNext
<1>3. 2^((k + 1) + 1) = 2 * (2 * p)
  <2>1. k + 1 \in Nat
    OBVIOUS
  <2> QED BY <1>2, <2>1, PowNext, Zenon
<1>4. PICK N \in Nat \ {0} : N = 2 * h
  BY <1>1
<1>5. PICK g \in Nat : g = 2 * p - 2
  BY <1>2
<1>6. m = g % N
  BY <1>1, <1>2, <1>4, <1>5, Zenon DEF Wrap
<1>7. PICK d \in Nat : g = d * N + m /\ m < N
  <2>1. g \div N \in Nat /\ (g % N) < N /\ g = (g \div N) * N + (g % N)
    BY <1>4, <1>5, DivMod
  <2> QED BY <1>6, <2>1, Zenon
<1>8. m = 2 * (p - 1 - d * h)
  <2>1. d * N = 2 * (d * h)
    BY <1>1, <1>4, <1>7
  <2>2. d * h \in Int
    BY <1>1, <1>7
  <2> QED BY <1>2, <1>5, <1>7, <2>1, <2>2
<1>9. PICK c \in Int : m = 2 * c
  <2>1. p - 1 - d * h \in Int
    BY <1>1, <1>2, <1>7
  <2> QED BY <1>8, <2>1
<1>10. m % 2 = 0
  BY <1>9
<1>11. m + 1 < N
  BY <1>1, <1>4, <1>7, <1>9
<1>12. m + 1 = Wrap(2^(k + 1) - 1, width)
  <2>1. g + 1 = d * N + (m + 1) /\ g + 1 \in Nat /\ m + 1 \in Nat
    BY <1>4, <1>5, <1>7
  <2>2. (g + 1) % N = m + 1
    <3>1. PICK j \in Int : j = m + 1
      BY <2>1
    <3>2. PICK l \in Int : l = d
      BY <1>7
    <3>3. (N * l + j) % N = j % N
      BY <3>1, <3>2, ModAdd, Zenon
    <3>4. j % N = j
      BY <1>4, <1>11, <2>1, <3>1
    <3>5. g + 1 = N * l + j
      BY <1>4, <1>7, <2>1, <3>1, <3>2
    <3> QED BY <3>1, <3>3, <3>4, <3>5, Zenon
  <2>3. g + 1 = 2 * p - 1
    BY <1>2, <1>5
  <2> QED BY <1>1, <1>2, <1>4, <2>2, <2>3, Zenon DEF Wrap
<1>13. (2 * (m + 1)) % N = (2 * (2 * p) - 2) % N
  <2>1. 2 * (2 * p) - 2 = N * (2 * d) + 2 * (m + 1)
    <3>1. 2 * (d * N) = N * (2 * d)
      BY <1>4, <1>7
    <3>2. PICK D \in Int : D = d * N
      BY <1>4, <1>7
    <3>3. g = D + m
      BY <1>7, <3>2, Zenon
    <3>4. 2 * (2 * p) - 2 = 2 * D + 2 * (m + 1)
      BY <1>2, <1>5, <3>2, <3>3
    <3> QED BY <3>1, <3>2, <3>4, Zenon
  <2>2. 2 * (m + 1) \in Int /\ 2 * d \in Int
    BY <1>7
  <2>3. (N * (2 * d) + 2 * (m + 1)) % N = (2 * (m + 1)) % N
    BY <1>4, <2>2, ModAdd, Zenon
  <2> QED BY <2>1, <2>3, Zenon
<1> QED BY <1>1, <1>3, <1>4, <1>10, <1>12, <1>13, Zenon DEF Wrap

\* What the loop that halves n finds, and what the divisor zero makes of it.
LEMMA ZeroBits == \A k \in Nat : BitsOf(0, k) => k = 0
<1> SUFFICES ASSUME NEW k \in Nat, BitsOf(0, k), k # 0 PROVE FALSE
  OBVIOUS
<1>1. k - 1 \in Nat /\ 0 >= 2^(k - 1)
  BY DEF BitsOf
<1>2. PICK p \in Nat \ {0} : p = 2^(k - 1)
  BY <1>1, PowNat
<1> QED BY <1>1, <1>2

\* The shifted divisor starts as the divisor.
LEMMA BitsTop ==
  ASSUME NEW n \in Nat, NEW k \in Nat, BitsOf(n, k)
  PROVE  n < 2^k /\ (n # 0 => 2^k <= 2 * n)
<1>1. n < 2^k
  BY Zenon DEF BitsOf
<1>2. ASSUME n # 0 PROVE 2^k <= 2 * n
  <2>1. k # 0
    <3> SUFFICES ASSUME k = 0 PROVE FALSE
      OBVIOUS
    <3>1. 2^0 = 1
      OBVIOUS
    <3>2. n < 1
      BY <1>1, <3>1, Zenon
    <3> QED BY <1>2, <3>2
  <2>2. k - 1 \in Nat /\ (k - 1) + 1 = k
    BY <2>1
  <2>3. PICK p \in Nat : p = 2^(k - 1)
    BY <2>2, PowNat
  <2>4. 2^k = 2 * p
    BY <2>2, <2>3, PowNext, Zenon
  <2>5. p <= n
    BY <2>1, <2>3 DEF BitsOf
  <2>6. 2 * p <= 2 * n
    BY <2>3, <2>5
  <2> QED BY <2>4, <2>6, Zenon
<1> QED BY <1>1, <1>2

\* A word, its sign and its absolute value.
LEMMA SignFacts ==
  ASSUME NEW n \in Values(W)
  PROVE  /\ Abs(n, W) \in Values(W) /\ Abs(n, W) \in Nat /\ (Abs(n, W) = 0 => n = 0)
         /\ (n = 0 => ~IsNeg(n, W) /\ Abs(n, W) = 0)
         /\ IsNeg(n, W) => /\ Signed(n, W) = 0 - Abs(n, W) /\ Signed(n, W) < 0
                           /\ Neg(Abs(n, W), W) = n
         /\ ~IsNeg(n, W) => Signed(n, W) = Abs(n, W) /\ Abs(n, W) = n /\ ~(Signed(n, W) < 0)
<1>1. PICK h \in Nat \ {0} : h = 2^(W - 1) /\ 2^W = 2 * h
  <2>1. W - 1 \in Nat /\ (W - 1) + 1 = W
    BY WordAssumption
  <2>2. 2^(W - 1) \in Nat \ {0}
    BY <2>1, PowNat
  <2>3. 2^W = 2 * 2^(W - 1)
    BY <2>1, PowNext, Zenon
  <2> QED BY <2>2, <2>3
<1>2. PICK N \in Nat \ {0} : N = 2 * h
  BY <1>1
<1>3. /\ n \in Nat /\ n < N
      /\ \A k : k \in Values(W) <=> k \in Nat /\ k < N
  BY <1>1, <1>2, ValuesAre, WordAssumption, Zenon
<1>4. \A k \in 1..N : (0 - k) % N = N - k
  <2> SUFFICES ASSUME NEW k \in 1..N PROVE (0 - k) % N = N - k
    OBVIOUS
  <2>1. 0 - k = N * (-1) + (N - k) /\ N - k \in 0..(N - 1)
    BY <1>2
  <2>2. (N * (-1) + (N - k)) % N = (N - k) % N
    <3>1. -1 \in Int /\ N - k \in Int
      BY <1>2
    <3> QED BY <1>2, <3>1, ModAdd, Zenon
  <2>3. (N - k) % N = N - k
    BY <1>2, <2>1
  <2> QED BY <2>1, <2>2, <2>3, Zenon
<1>5. /\ IsNeg(n, W) <=> n >= h
      /\ Abs(n, W) = IF IsNeg(n, W) THEN (0 - n) % N ELSE n
      /\ Signed(n, W) = IF IsNeg(n, W) THEN n - N ELSE n
      /\ \A k : Neg(k, W) = (0 - k) % N
  BY <1>1, <1>2, Zenon DEF IsNeg, Abs, Signed, Neg, Wrap
<1>6. CASE IsNeg(n, W)
  <2>1. n >= h /\ n \in 1..N /\ N - n \in 1..N
    BY <1>1, <1>2, <1>3, <1>5, <1>6
  <2>2. Abs(n, W) = N - n
    BY <1>4, <1>5, <1>6, <2>1
  <2>3. Neg(Abs(n, W), W) = N - (N - n)
    BY <1>4, <1>5, <2>1, <2>2
  <2>4. Signed(n, W) = n - N
    BY <1>5, <1>6
  <2>5. N - (N - n) = n
    BY <1>2, <1>3
  <2> HIDE DEF Abs, Signed, Neg
  <2> QED BY <1>1, <1>2, <1>3, <1>6, <2>1, <2>2, <2>3, <2>4, <2>5
<1>7. CASE ~IsNeg(n, W)
  <2>1. Abs(n, W) = n /\ Signed(n, W) = n
    BY <1>5, <1>7
  <2> QED BY <1>3, <1>7, <2>1
<1> QED BY <1>6, <1>7

\* The quotient and the remainder with the signs of getSDivRem256Func are
\* those of the EVM.
LEMMA SDivExact ==
  ASSUME NEW m \in Values(W), NEW n \in Values(W), NEW k, NEW c,
         k = UDivOf(Abs(m, W), Abs(n, W), W), c = URemOf(Abs(m, W), Abs(n, W))
  PROVE  /\ (IF IsNeg(m, W) # IsNeg(n, W) THEN Neg(k, W) ELSE k) = SDivOf(m, n, W)
         /\ (IF IsNeg(m, W) THEN Neg(c, W) ELSE c) = SRemOf(m, n, W)
<1>1. CASE n = 0
  <2>1. Abs(n, W) = 0 /\ ~IsNeg(n, W)
    BY <1>1, SignFacts
  <2>2. k = UDivOf(Abs(m, W), 0, W) /\ c = Abs(m, W)
    BY <2>1 DEF URemOf
  <2>3. SRemOf(m, n, W) = m /\ SDivOf(m, n, W) = IF IsNeg(m, W) THEN Neg(k, W) ELSE k
    BY <1>1, <2>2, Zenon DEF SRemOf, SDivOf
  <2>4. CASE IsNeg(m, W)
    BY <2>1, <2>2, <2>3, <2>4, SignFacts
  <2>5. CASE ~IsNeg(m, W)
    <3>1. Abs(m, W) = m
      BY <2>5, SignFacts
    <3>2. IsNeg(m, W) <=> IsNeg(n, W)
      BY <2>1, <2>5
    <3> QED BY <2>2, <2>3, <2>5, <3>1, <3>2 DEF IsNeg
  <2> QED BY <2>4, <2>5
<1>2. CASE n # 0
  <2>1. PICK A0 \in Nat : A0 = Abs(m, W) /\ A0 \in Values(W)
    BY SignFacts
  <2>2. PICK B0 \in Nat \ {0} : B0 = Abs(n, W)
    BY <1>2, SignFacts
  <2>3. k = A0 \div B0 /\ c = A0 % B0
    BY <2>1, <2>2 DEF UDivOf, URemOf
  <2>4. k \in Nat /\ c \in Nat /\ A0 = k * B0 + c
    <3>1. A0 \div B0 \in Nat /\ A0 % B0 \in Nat /\ A0 = (A0 \div B0) * B0 + (A0 % B0)
      BY <2>1, <2>2, DivMod
    <3> QED BY <2>3, <3>1, Zenon
  <2>5. k \in Values(W) /\ c \in Values(W)
    <3>1. PICK N \in Nat : N = 2^W
      BY WordAssumption, PowNat
    <3>2. A0 < N
      BY <2>1, <3>1, ValuesAre, WordAssumption
    <3>3. k <= k * B0
      BY <2>2, <2>4
    <3>4. PICK j \in Nat : j = k * B0
      BY <2>2, <2>4
    <3>5. k < N /\ c < N
      BY <2>1, <2>4, <3>1, <3>2, <3>3, <3>4
    <3> QED BY <2>4, <3>1, <3>5, ValuesAre, WordAssumption
  <2>6. Wrap(k, W) = k /\ Wrap(c, W) = c
    BY <2>5, WrapFacts, WordAssumption
  <2>7. SDivOf(m, n, W) = Wrap(Quot(Signed(m, W), Signed(n, W)), W)
    BY <1>2, Zenon DEF SDivOf, EvmSdiv
  <2>8. SRemOf(m, n, W)
          = Wrap(Signed(m, W) - Signed(n, W) * Quot(Signed(m, W), Signed(n, W)), W)
    BY <1>2, Zenon DEF SRemOf, EvmSmod, Rem
  <2>9. Neg(k, W) = Wrap(0 - k, W) /\ Neg(c, W) = Wrap(0 - c, W)
    BY DEF Neg
  <2>10. PICK j \in Nat : j = k * B0 /\ j = B0 * k
    BY <2>2, <2>4
  <2>11. A0 = j + c
    BY <2>4, <2>10, Zenon
  <2>12. CASE IsNeg(m, W) /\ IsNeg(n, W)
    <3>1. Signed(m, W) = 0 - A0 /\ Signed(m, W) < 0 /\ Signed(n, W) = 0 - B0 /\ Signed(n, W) < 0
      BY <2>1, <2>2, <2>12, SignFacts
    <3>2. -(0 - A0) = A0 /\ -(0 - B0) = B0
      BY <2>1, <2>2
    <3>3. Quot(Signed(m, W), Signed(n, W)) = k
      BY <2>3, <3>1, <3>2, Zenon DEF Quot
    <3>4. (0 - A0) - (0 - B0) * k = 0 - c
      <4>1. (0 - B0) * k = 0 - j
        BY <2>2, <2>4, <2>10
      <4> QED BY <2>1, <2>4, <2>10, <2>11, <4>1
    <3> QED BY <2>6, <2>7, <2>8, <2>9, <2>12, <3>1, <3>3, <3>4, Zenon
  <2>13. CASE IsNeg(m, W) /\ ~IsNeg(n, W)
    <3>1. Signed(m, W) = 0 - A0 /\ Signed(m, W) < 0 /\ Signed(n, W) = B0 /\ ~(Signed(n, W) < 0)
      BY <2>1, <2>2, <2>13, SignFacts
    <3>2. -(0 - A0) = A0 /\ -k = 0 - k
      BY <2>1, <2>4
    <3>3. Quot(Signed(m, W), Signed(n, W)) = 0 - k
      BY <2>3, <3>1, <3>2, Zenon DEF Quot
    <3>4. (0 - A0) - B0 * (0 - k) = 0 - c
      <4>1. B0 * (0 - k) = 0 - j
        BY <2>2, <2>4, <2>10
      <4> QED BY <2>1, <2>4, <2>10, <2>11, <4>1
    <3> QED BY <2>6, <2>7, <2>8, <2>9, <2>13, <3>1, <3>3, <3>4, Zenon
  <2>14. CASE ~IsNeg(m, W) /\ IsNeg(n, W)
    <3>1. Signed(m, W) = A0 /\ ~(Signed(m, W) < 0) /\ Signed(n, W) = 0 - B0 /\ Signed(n, W) < 0
      BY <2>1, <2>2, <2>14, SignFacts
    <3>2. -(0 - B0) = B0 /\ -k = 0 - k
      BY <2>2, <2>4
    <3>3. Quot(Signed(m, W), Signed(n, W)) = 0 - k
      BY <2>3, <3>1, <3>2, Zenon DEF Quot
    <3>4. A0 - (0 - B0) * (0 - k) = c
      <4>1. (0 - B0) * (0 - k) = j
        BY <2>2, <2>4, <2>10
      <4> QED BY <2>1, <2>4, <2>10, <2>11, <4>1
    <3> QED BY <2>6, <2>7, <2>8, <2>9, <2>14, <3>1, <3>3, <3>4, Zenon
  <2>15. CASE ~IsNeg(m, W) /\ ~IsNeg(n, W)
    <3>1. Signed(m, W) = A0 /\ ~(Signed(m, W) < 0) /\ Signed(n, W) = B0 /\ ~(Signed(n, W) < 0)
      BY <2>1, <2>2, <2>15, SignFacts
    <3>2. Quot(A0, B0) = A0 \div B0
      BY <2>1, <2>2 DEF Quot
    <3>3. Quot(Signed(m, W), Signed(n, W)) = k
      BY <2>3, <3>1, <3>2, Zenon
    <3>4. A0 - B0 * k = c
      BY <2>1, <2>4, <2>10, <2>11
    <3>5. SDivOf(m, n, W) = k /\ SRemOf(m, n, W) = c
      BY <2>6, <2>7, <2>8, <3>1, <3>3, <3>4, Zenon
    <3> QED BY <2>15, <3>5 DEF IsNeg
  <2> QED BY <2>12, <2>13, <2>14, <2>15
<1> QED BY <1>1, <1>2

(***************************************************************************)
(* Powers.  A recursive function is what a CHOOSE finds, so that there is  *)
(* one is part of the proof.                                               *)
(***************************************************************************)
IsPowers(f, m, n, width) ==
  f = [k \in 0..n |-> IF k = 0 THEN Wrap(1, width) ELSE Wrap(f[k - 1] * m, width)]

\* Its values.
PowersFrom(f, m, n, width) ==
  f[0] = Wrap(1, width) /\ \A k \in 1..n : f[k] = Wrap(f[k - 1] * m, width)

\* The function has them.
LEMMA PowersAre ==
  ASSUME NEW f, NEW m, NEW n \in Nat, NEW width, IsPowers(f, m, n, width)
  PROVE  PowersFrom(f, m, n, width)
<1> DEFINE g == [k \in 0..n |-> IF k = 0 THEN Wrap(1, width) ELSE Wrap(f[k - 1] * m, width)]
<1>1. f = g
  BY DEF IsPowers
<1>2. g[0] = Wrap(1, width) /\ \A k \in 1..n : g[k] = Wrap(f[k - 1] * m, width)
  BY SMT
<1> QED BY <1>1, <1>2, Zenon DEF PowersFrom

\* There is one for every exponent.
LEMMA PowersExist ==
  ASSUME NEW m, NEW width
  PROVE  \A n \in Nat : \E f : IsPowers(f, m, n, width)
<1> DEFINE S == {n \in Nat : \E f : IsPowers(f, m, n, width)}
<1>1. 0 \in S
  <2> DEFINE f == [k \in 0..0 |-> Wrap(1, width)]
  <2>1. f = [k \in 0..0 |-> IF k = 0 THEN Wrap(1, width) ELSE Wrap(f[k - 1] * m, width)]
    BY SMT
  <2>2. IsPowers(f, m, 0, width)
    BY <2>1 DEF IsPowers
  <2> QED BY <2>2
<1>2. ASSUME NEW n \in S PROVE n + 1 \in S
  <2>1. n \in Nat /\ n + 1 \in Nat
    OBVIOUS
  <2>2. PICK f : IsPowers(f, m, n, width)
    OBVIOUS
  <2> DEFINE g == [k \in 0..(n + 1) |-> IF k = n + 1 THEN Wrap(f[n] * m, width) ELSE f[k]]
             h == [k \in 0..(n + 1) |-> IF k = 0 THEN Wrap(1, width) ELSE Wrap(g[k - 1] * m, width)]
  <2>3. f[0] = Wrap(1, width) /\ \A k \in 1..n : f[k] = Wrap(f[k - 1] * m, width)
    <3>1. PowersFrom(f, m, n, width)
      BY <2>1, <2>2, PowersAre
    <3> QED BY <3>1, Zenon DEF PowersFrom
  <2>4. ASSUME NEW k \in 0..(n + 1) PROVE g[k] = h[k]
    <3>1. CASE k = 0
      BY <2>1, <2>3, <3>1
    <3>2. CASE k \in 1..n
      <4>1. k - 1 \in 0..(n + 1) /\ k - 1 # n + 1 /\ k # n + 1 /\ k # 0
        BY <2>1, <3>2
      <4>2. g[k] = f[k] /\ g[k - 1] = f[k - 1] /\ h[k] = Wrap(g[k - 1] * m, width)
        BY <4>1
      <4> QED BY <2>3, <3>2, <4>2, Zenon
    <3>3. CASE k = n + 1
      <4>1. n \in 0..(n + 1) /\ n # n + 1 /\ k # 0 /\ k - 1 = n
        BY <2>1, <3>3
      <4>2. g[k] = Wrap(f[n] * m, width) /\ g[n] = f[n]
        BY <3>3, <4>1
      <4>3. h[k] = Wrap(g[k - 1] * m, width)
        BY <4>1
      <4> QED BY <4>1, <4>2, <4>3, Zenon
    <3> QED BY <2>1, <3>1, <3>2, <3>3
  <2>5. g = h
    BY <2>4
  <2>6. IsPowers(g, m, n + 1, width)
    BY <2>5, Zenon DEF IsPowers
  <2> QED BY <2>1, <2>6
<1>3. S = Nat
  <2>1. S \in SUBSET Nat
    OBVIOUS
  <2> HIDE DEF S
  <2> QED BY <1>1, <1>2, <2>1, Induct
<1> QED BY <1>3

\* Two agree as far as both go.
LEMMA PowersAgree ==
  ASSUME NEW f, NEW g, NEW m, NEW width, NEW n \in Nat, NEW l \in Nat,
         IsPowers(f, m, n, width), IsPowers(g, m, l, width)
  PROVE  \A k \in Nat : k <= n /\ k <= l => f[k] = g[k]
<1> DEFINE S == {k \in Nat : k <= n /\ k <= l => f[k] = g[k]}
<1>1. /\ f[0] = Wrap(1, width) /\ \A k \in 1..n : f[k] = Wrap(f[k - 1] * m, width)
      /\ g[0] = Wrap(1, width) /\ \A k \in 1..l : g[k] = Wrap(g[k - 1] * m, width)
  BY PowersAre DEF PowersFrom
<1>2. 0 \in S
  BY <1>1
<1>3. ASSUME NEW k \in S PROVE k + 1 \in S
  <2> SUFFICES ASSUME k + 1 <= n, k + 1 <= l PROVE f[k + 1] = g[k + 1]
    OBVIOUS
  <2>1. k \in Nat /\ f[k] = g[k]
    OBVIOUS
  <2>2. k + 1 \in 1..n /\ k + 1 \in 1..l /\ (k + 1) - 1 = k
    BY <2>1
  <2> QED BY <1>1, <2>1, <2>2, Zenon
<1>4. S = Nat
  <2>1. S \in SUBSET Nat
    OBVIOUS
  <2> HIDE DEF S
  <2> QED BY <1>2, <1>3, <2>1, Induct
<1> QED BY <1>4

\* The power of the EVM is the last value of any of them.
LEMMA ExpIs ==
  ASSUME NEW f, NEW m, NEW n \in Nat, NEW width, IsPowers(f, m, n, width)
  PROVE  EvmExp(m, n, width) = f[n]
<1> DEFINE g == CHOOSE h : IsPowers(h, m, n, width)
<1>1. IsPowers(g, m, n, width)
  OBVIOUS
<1>2. EvmExp(m, n, width) = g[n]
  BY DEF EvmExp, IsPowers
<1> HIDE DEF g
<1>3. n <= n
  OBVIOUS
<1>4. f[n] = g[n]
  BY <1>1, <1>3, PowersAgree
<1> QED BY <1>2, <1>4

\* One factor more.
LEMMA ExpNext ==
  ASSUME NEW m, NEW width
  PROVE  /\ EvmExp(m, 0, width) = Wrap(1, width)
         /\ \A n \in Nat : EvmExp(m, n + 1, width) = Wrap(EvmExp(m, n, width) * m, width)
<1>1. EvmExp(m, 0, width) = Wrap(1, width)
  <2>1. PICK f : IsPowers(f, m, 0, width)
    BY PowersExist
  <2>2. 0 \in Nat
    OBVIOUS
  <2>3. EvmExp(m, 0, width) = f[0]
    BY <2>1, <2>2, ExpIs, Zenon
  <2>4. f[0] = Wrap(1, width)
    <3>1. PowersFrom(f, m, 0, width)
      BY <2>1, <2>2, PowersAre
    <3> QED BY <3>1, Zenon DEF PowersFrom
  <2> QED BY <2>3, <2>4, Zenon
<1>2. ASSUME NEW n \in Nat
      PROVE  EvmExp(m, n + 1, width) = Wrap(EvmExp(m, n, width) * m, width)
  <2>1. n + 1 \in Nat /\ n <= n + 1 /\ n <= n /\ n + 1 \in 1..(n + 1) /\ (n + 1) - 1 = n
    OBVIOUS
  <2>2. PICK f : IsPowers(f, m, n, width)
    BY PowersExist
  <2>3. PICK g : IsPowers(g, m, n + 1, width)
    BY <2>1, PowersExist
  <2>4. EvmExp(m, n, width) = f[n] /\ EvmExp(m, n + 1, width) = g[n + 1]
    BY <2>1, <2>2, <2>3, ExpIs
  <2>5. f[n] = g[n]
    BY <2>1, <2>2, <2>3, PowersAgree
  <2>6. g[n + 1] = Wrap(g[(n + 1) - 1] * m, width)
    <3>1. PowersFrom(g, m, n + 1, width)
      BY <2>1, <2>3, PowersAre
    <3> QED BY <2>1, <3>1, Zenon DEF PowersFrom
  <2> QED BY <2>1, <2>4, <2>5, <2>6, Zenon
<1> QED BY <1>1, <1>2

\* A factor may be reduced before the product is.
LEMMA WrapProduct ==
  ASSUME NEW m \in Nat, NEW n \in Nat, NEW width \in Nat
  PROVE  /\ Wrap(m * Wrap(n, width), width) = Wrap(m * n, width)
         /\ Wrap(Wrap(m, width) * n, width) = Wrap(m * n, width)
         /\ Wrap(m, width) \in Nat
<1>1. PICK N \in Nat \ {0} : N = 2^width
  BY PowNat
<1>2. ASSUME NEW j \in Nat, NEW k \in Nat
      PROVE  (j * (k % N)) % N = (j * k) % N /\ k % N \in Nat
  <2>1. PICK d \in Nat, c \in Nat : d = k \div N /\ c = k % N /\ k = d * N + c
    BY <1>1, DivMod
  <2>2. j * k = N * (j * d) + j * c
    <3>1. \A o, p, s, t \in Nat : o * (p * s + t) = s * (o * p) + o * t
      OBVIOUS
    <3>2. N \in Nat /\ d \in Nat /\ c \in Nat
      BY <1>1, <2>1
    <3>3. \A t \in Nat : j * (d * N + t) = N * (j * d) + j * t
      BY <3>1, <3>2
    <3> QED BY <2>1, <3>2, <3>3
  <2>3. j * d \in Int /\ j * c \in Int
    BY <2>1
  <2>4. (N * (j * d) + j * c) % N = (j * c) % N
    BY <1>1, <2>3, ModAdd, Zenon
  <2> QED BY <2>1, <2>2, <2>4, Zenon
<1>3. \A j, k \in Nat : j * k = k * j
  OBVIOUS
<1>4. (m * (n % N)) % N = (m * n) % N /\ (n * (m % N)) % N = (n * m) % N /\ m % N \in Nat
  BY <1>2
<1>5. n * m = m * n /\ n * (m % N) = (m % N) * n
  BY <1>3, <1>4
<1> QED BY <1>1, <1>4, <1>5, Zenon DEF Wrap

\* A power is a word.
LEMMA ExpType ==
  ASSUME NEW m \in Nat, NEW width \in Nat
  PROVE  \A n \in Nat : EvmExp(m, n, width) \in Nat
<1> DEFINE S == {n \in Nat : EvmExp(m, n, width) \in Nat}
<1>1. \A j \in Nat : Wrap(j, width) \in Nat
  BY WrapProduct
<1>2. 0 \in S
  <2>1. EvmExp(m, 0, width) = Wrap(1, width)
    BY ExpNext
  <2> QED BY <1>1, <2>1
<1>3. ASSUME NEW n \in S PROVE n + 1 \in S
  <2>1. n \in Nat /\ EvmExp(m, n, width) \in Nat
    OBVIOUS
  <2>2. EvmExp(m, n + 1, width) = Wrap(EvmExp(m, n, width) * m, width)
    BY <2>1, ExpNext
  <2>3. EvmExp(m, n, width) * m \in Nat
    BY <2>1
  <2> QED BY <1>1, <2>1, <2>2, <2>3
<1>4. S = Nat
  <2>1. S \in SUBSET Nat
    OBVIOUS
  <2> HIDE DEF S
  <2> QED BY <1>2, <1>3, <2>1, Induct
<1> QED BY <1>4

\* Powers of a square.
LEMMA ExpSquare ==
  ASSUME NEW m \in Nat, NEW width \in Nat
  PROVE  \A n \in Nat : EvmExp(Wrap(m * m, width), n, width) = EvmExp(m, 2 * n, width)
<1> DEFINE s == Wrap(m * m, width)
           S == {n \in Nat : EvmExp(s, n, width) = EvmExp(m, 2 * n, width)}
<1>1. m * m \in Nat /\ s \in Nat
  <2>1. m * m \in Nat
    OBVIOUS
  <2> QED BY <2>1, WrapProduct
<1> HIDE DEF s
<1>2. 0 \in S
  <2>1. 2 * 0 = 0
    OBVIOUS
  <2>2. EvmExp(s, 0, width) = Wrap(1, width) /\ EvmExp(m, 0, width) = Wrap(1, width)
    BY ExpNext
  <2>3. EvmExp(s, 0, width) = EvmExp(m, 2 * 0, width)
    BY <2>1, <2>2, Zenon
  <2> QED BY <2>3
<1>3. ASSUME NEW n \in S PROVE n + 1 \in S
  <2>1. n \in Nat /\ 2 * n \in Nat /\ 2 * n + 1 \in Nat /\ (2 * n + 1) + 1 = 2 * (n + 1)
    OBVIOUS
  <2>2. PICK E \in Nat : E = EvmExp(m, 2 * n, width)
    BY <2>1, ExpType
  <2>3. EvmExp(s, n, width) = E
    BY <2>2
  <2>4. EvmExp(s, n + 1, width) = Wrap(E * s, width)
    <3>1. EvmExp(s, n + 1, width) = Wrap(EvmExp(s, n, width) * s, width)
      BY <2>1, ExpNext
    <3> QED BY <2>3, <3>1, Zenon
  <2>5. EvmExp(m, 2 * n + 1, width) = Wrap(E * m, width)
    <3>1. EvmExp(m, 2 * n + 1, width) = Wrap(EvmExp(m, 2 * n, width) * m, width)
      BY <2>1, ExpNext
    <3> QED BY <2>2, <3>1, Zenon
  <2>6. EvmExp(m, (2 * n + 1) + 1, width) = Wrap(Wrap(E * m, width) * m, width)
    <3>1. EvmExp(m, (2 * n + 1) + 1, width) = Wrap(EvmExp(m, 2 * n + 1, width) * m, width)
      BY <2>1, ExpNext
    <3> QED BY <2>5, <3>1, Zenon
  <2>7. E * m \in Nat /\ (E * m) * m = E * (m * m)
    BY <2>2
  <2>8. Wrap(Wrap(E * m, width) * m, width) = Wrap((E * m) * m, width)
    BY <2>7, WrapProduct
  <2>9. Wrap(E * s, width) = Wrap(E * (m * m), width)
    BY <1>1, <2>2, WrapProduct DEF s
  <2>10. EvmExp(s, n + 1, width) = EvmExp(m, 2 * (n + 1), width)
    BY <2>1, <2>4, <2>6, <2>7, <2>8, <2>9, Zenon
  <2> QED BY <2>1, <2>10
<1>4. S = Nat
  <2>1. S \in SUBSET Nat
    OBVIOUS
  <2> HIDE DEF S
  <2> QED BY <1>2, <1>3, <2>1, Induct
<1> QED BY <1>4 DEF s

\* One pass of the loop of getExpFunc: the result so far times the power that
\* is left stays the power asked for.
LEMMA ExpStep ==
  ASSUME NEW m \in Nat, NEW k \in Nat \ {0}, NEW c \in Nat, NEW width \in Nat
  PROVE  Wrap((IF k % 2 = 1 THEN Wrap(c * m, width) ELSE c)
                * EvmExp(Wrap(m * m, width), k \div 2, width), width)
           = Wrap(c * EvmExp(m, k, width), width)
<1>1. PICK n \in Nat : n = k \div 2 /\ ((k % 2 = 1 /\ k = 2 * n + 1) \/ (k % 2 # 1 /\ k = 2 * n))
  <2>1. /\ k \div 2 \in Nat
        /\ (k % 2 = 1 /\ k = 2 * (k \div 2) + 1) \/ (k % 2 # 1 /\ k = 2 * (k \div 2))
    OBVIOUS
  <2> QED BY <2>1, Zenon
<1>2. PICK E \in Nat : E = EvmExp(m, 2 * n, width) /\ E = EvmExp(Wrap(m * m, width), n, width)
  <2>1. 2 * n \in Nat
    BY <1>1
  <2>2. EvmExp(m, 2 * n, width) \in Nat
    BY <2>1, ExpType
  <2>3. EvmExp(Wrap(m * m, width), n, width) = EvmExp(m, 2 * n, width)
    BY <1>1, ExpSquare
  <2> QED BY <2>2, <2>3, Zenon
<1>3. CASE k % 2 = 1 /\ k = 2 * n + 1
  <2>1. EvmExp(m, k, width) = Wrap(E * m, width)
    <3>1. 2 * n \in Nat
      BY <1>1
    <3>2. EvmExp(m, 2 * n + 1, width) = Wrap(EvmExp(m, 2 * n, width) * m, width)
      BY <3>1, ExpNext
    <3> QED BY <1>2, <1>3, <3>2, Zenon
  <2>2. E * m \in Nat /\ c * m \in Nat /\ c * (E * m) = (c * m) * E
    BY <1>2
  <2>3. Wrap(c * Wrap(E * m, width), width) = Wrap(c * (E * m), width)
    BY <2>2, WrapProduct
  <2>4. Wrap(Wrap(c * m, width) * E, width) = Wrap((c * m) * E, width)
    BY <1>2, <2>2, WrapProduct
  <2> QED BY <1>1, <1>2, <1>3, <2>1, <2>2, <2>3, <2>4, Zenon
<1>4. CASE k % 2 # 1 /\ k = 2 * n
  BY <1>1, <1>2, <1>4, Zenon
<1> QED BY <1>1, <1>3, <1>4

(***************************************************************************)
(* What is known of the division loops, as a relation between numbers: n   *)
(* divides m, both of width bits, n has lz leading zeros and is to be      *)
(* shifted by k0 bits, of which k are left; v is n shifted so far.         *)
(***************************************************************************)
\* No bit of n is lost, and its highest bit is where it should be.
ShiftedBy(n, width, lz, k0, k, v) == ShiftedTo(n, k0 - k, (width - lz) + (k0 - k), v)

\* A division by n, and by zero.
Subtracted(m, n, width, k0, k, v, quot, rest) ==
  /\ n # 0 => v = n * 2^k /\ m = quot * v + rest /\ rest < 2 * v /\ quot % 2 = 0
  /\ n = 0 => v = 0 /\ rest = m /\ quot = Wrap(2^((k0 - k) + 1) - 2, width)

\* The difference of the leading zeros does not wrap, and brings the highest
\* bit of n below that of m, which has c bits.
StartsShift(n, width, lz, c, k0) ==
  k0 \in 0..lz /\ (width - lz) + k0 = c /\ ShiftedBy(n, width, lz, k0, k0, n)

\* It does, since n is not greater than m.
LEMMA ShiftFirst ==
  ASSUME NEW width \in Nat, NEW n \in Nat, NEW m \in Nat, n <= m, m \in Values(width),
         NEW lz \in 0..width, BitsOf(n, width - lz), NEW c \in Nat, BitsOf(m, c),
         NEW k0, k0 = Wrap(lz - (width - c), width)
  PROVE  StartsShift(n, width, lz, c, k0)
<1>1. width - lz \in Nat /\ m < 2^width
  BY ValuesAre
<1>2. width - lz <= c /\ c <= width
  BY <1>1, BitsGrow, BitsBelow
<1>3. PICK d \in 0..width : d = lz - (width - c)
  BY <1>2
<1>4. PICK N \in Nat : N = 2^width /\ width < N
  BY PowNat, PowAbove
<1>5. d \in Nat /\ d < 2^width
  BY <1>3, <1>4
<1>6. d \in Values(width)
  BY <1>5, ValuesAre
<1>7. k0 = d
  BY <1>3, <1>6, WrapFacts
<1>8. k0 \in 0..lz /\ (width - lz) + k0 = c /\ k0 - k0 = 0
  BY <1>2, <1>3, <1>7
<1>9. n < 2^(width - lz) /\ (n # 0 => 2^(width - lz) <= 2 * n)
  BY <1>1, BitsTop
<1>10. (width - lz) + 0 = width - lz /\ 2^0 = 1 /\ n = n * 1
  BY <1>1
<1>11. ShiftedBy(n, width, lz, k0, k0, n)
  BY <1>8, <1>9, <1>10, Zenon DEF ShiftedBy, ShiftedTo
<1> QED BY <1>8, <1>11 DEF StartsShift

\* One bit more.
LEMMA ShiftNext ==
  ASSUME NEW width \in Nat, NEW n \in Nat, NEW lz \in 0..width, NEW k0 \in 0..lz,
         NEW k \in 1..k0, NEW v \in Nat, ShiftedBy(n, width, lz, k0, k, v)
  PROVE  /\ Wrap(2 * v, width) \in Values(width)
         /\ ShiftedBy(n, width, lz, k0, k - 1, Wrap(2 * v, width))
<1>1. PICK j \in Nat : j = k0 - k
  OBVIOUS
<1>2. PICK t \in Nat : t = (width - lz) + j
  BY <1>1
<1>3. t + 1 <= width /\ k0 - (k - 1) = j + 1 /\ (width - lz) + (j + 1) = t + 1
  BY <1>1, <1>2
<1>4. ShiftedTo(n, j, t, v)
  BY <1>1, <1>2, Zenon DEF ShiftedBy
<1>5. /\ Wrap(2 * v, width) = 2 * v /\ 2 * v \in Values(width)
      /\ ShiftedTo(n, j + 1, t + 1, 2 * v)
  BY <1>1, <1>2, <1>3, <1>4, ShiftStep
<1>6. ShiftedBy(n, width, lz, k0, k - 1, 2 * v)
  BY <1>3, <1>5, Zenon DEF ShiftedBy
<1> QED BY <1>5, <1>6, Zenon

\* The loop that subtracts starts with the whole dividend.
LEMMA SubtractFirst ==
  ASSUME NEW width \in Nat, NEW n \in Nat, NEW m \in Nat, NEW lz \in 0..width, NEW k0 \in 0..lz,
         NEW v \in Nat, ShiftedBy(n, width, lz, k0, 0, v), BitsOf(m, (width - lz) + k0)
  PROVE  Subtracted(m, n, width, k0, k0, v, 0, m)
<1>1. k0 - 0 = k0 /\ k0 - k0 = 0 /\ 0 + 1 = 1
  OBVIOUS
<1>2. PICK p \in Nat : p = 2^k0
  BY PowNat
<1>3. PICK g \in Nat : g = 2^((width - lz) + k0)
  <2>1. (width - lz) + k0 \in Nat
    OBVIOUS
  <2> QED BY <2>1, PowNat
<1>4. v = n * p /\ (n # 0 => g <= 2 * v)
  BY <1>1, <1>2, <1>3, Zenon DEF ShiftedBy, ShiftedTo
<1>5. m < g
  BY <1>3, Zenon DEF BitsOf
<1>6. n # 0 => m < 2 * v
  BY <1>3, <1>4, <1>5
<1>7. m = 0 * v + m /\ 0 % 2 = 0
  OBVIOUS
<1>8. n = 0 => v = 0
  BY <1>2, <1>4
<1>9. Wrap(2^1 - 2, width) = 0
  <2>1. 2^1 - 2 = 0
    OBVIOUS
  <2>2. PICK N \in Nat \ {0} : N = 2^width
    BY PowNat
  <2>3. 0 % N = 0
    BY <2>2
  <2> QED BY <2>1, <2>2, <2>3, Zenon DEF Wrap
<1> QED BY <1>1, <1>2, <1>4, <1>6, <1>7, <1>8, <1>9, Zenon DEF Subtracted

\* One pass that goes on.
LEMMA SubtractNext ==
  ASSUME NEW width \in Nat \ {0}, NEW n \in Nat, NEW m \in Values(width),
         NEW k0 \in Nat, NEW k \in 1..k0, NEW v \in Values(width),
         NEW quot \in Values(width), NEW rest \in Values(width),
         Subtracted(m, n, width, k0, k, v, quot, rest)
  PROVE  /\ v \div 2 \in Values(width) /\ Rest(v, rest) \in Values(width)
         /\ Wrap(2 * Quotient(v, quot, rest), width) \in Values(width)
         /\ Subtracted(m, n, width, k0, k - 1, v \div 2,
                       Wrap(2 * Quotient(v, quot, rest), width), Rest(v, rest))
<1>1. PICK N \in Nat : N = 2^width
  BY PowNat
<1>2. /\ m \in Nat /\ m < N /\ v \in Nat /\ v < N /\ quot \in Nat /\ rest \in Nat /\ rest < N
      /\ \A g : g \in Nat /\ g < N => g \in Values(width)
  BY <1>1, ValuesAre
<1>3. v \div 2 \in Values(width) /\ Rest(v, rest) \in Values(width)
  <2>1. v \div 2 \in Nat /\ v \div 2 < N /\ Rest(v, rest) \in Nat /\ Rest(v, rest) < N
    BY <1>1, <1>2 DEF Rest
  <2> QED BY <1>2, <2>1
<1>4. CASE n # 0
  <2>1. v = n * 2^k /\ m = quot * v + rest /\ rest < 2 * v /\ quot % 2 = 0
    BY <1>4 DEF Subtracted
  <2>0. /\ Rest(v, rest) \in Nat /\ Quotient(v, quot, rest) \in Nat
        /\ m = Quotient(v, quot, rest) * v + Rest(v, rest) /\ Rest(v, rest) < v
    <3>1. RestBelow(m, v, quot, rest)
      BY <1>2, <2>1, SubtractStep
    <3> QED BY <3>1, Zenon DEF RestBelow
  <2>2. PICK g \in Nat : g = Quotient(v, quot, rest)
    BY <2>0, Zenon
  <2>3. PICK c \in Nat : c = Rest(v, rest)
    BY <2>0, Zenon
  <2>4. m = g * v + c /\ c < v
    BY <2>0, <2>2, <2>3, Zenon
  <2>5. /\ v \div 2 = n * 2^(k - 1) /\ v \div 2 \in Nat
        /\ Wrap(2 * g, width) = 2 * g /\ 2 * g \in Values(width)
        /\ m = (2 * g) * (v \div 2) + c /\ c < 2 * (v \div 2)
        /\ (2 * g) % 2 = 0
    <3>1. n \in Nat \ {0} /\ k \in Nat \ {0}
      BY <1>4
    <3>2. DividedTo(m, n, k, v, g, c)
      BY <2>1, <2>4, Zenon DEF DividedTo
    <3>3. Continues(m, n, k, v, g, c, width)
      BY <1>2, <2>2, <2>3, <3>1, <3>2, HalveStep
    <3> QED BY <3>3, Zenon DEF Continues
  <2>6. Subtracted(m, n, width, k0, k - 1, v \div 2, 2 * g, c)
    BY <1>4, <2>5, Zenon DEF Subtracted
  <2> QED BY <1>3, <2>2, <2>3, <2>5, <2>6, Zenon
<1>5. CASE n = 0
  <2>1. v = 0 /\ rest = m /\ quot = Wrap(2^((k0 - k) + 1) - 2, width)
    BY <1>5 DEF Subtracted
  <2>2. PICK j \in Nat : j = k0 - k
    OBVIOUS
  <2>3. /\ quot % 2 = 0
        /\ Wrap(2 * (quot + 1), width) = Wrap(2^((j + 1) + 1) - 2, width)
    <3>1. quot = Wrap(2^(j + 1) - 2, width)
      BY <2>1, <2>2, Zenon
    <3> QED BY <1>2, <2>2, <3>1, OnesStep
  <2>4. Quotient(v, quot, rest) = quot + 1 /\ Rest(v, rest) = m
    BY <1>2, <2>1, <2>3 DEF Quotient, Rest
  <2>5. k0 - (k - 1) = j + 1
    BY <2>2
  <2>6. v \div 2 = 0
    BY <2>1
  <2>7. Wrap(2 * (quot + 1), width) \in Values(width)
    BY <1>2, WrapFacts
  <2> QED BY <1>3, <1>5, <2>3, <2>4, <2>5, <2>6, <2>7, Zenon DEF Subtracted
<1> QED BY <1>4, <1>5

\* The last pass yields quotient and remainder.
DivisionEnds(m, n, width, v, quot, rest) ==
  /\ Quotient(v, quot, rest) \in Values(width) /\ Rest(v, rest) \in Values(width)
  /\ Quotient(v, quot, rest) = UDivOf(m, n, width)
  /\ Rest(v, rest) = URemOf(m, n)

\* For the divisor zero, the bits of the dividend say how often it passed.
LEMMA SubtractLast ==
  ASSUME NEW width \in Nat \ {0}, NEW n \in Nat, NEW m \in Values(width),
         NEW lz \in 0..width, NEW k0 \in 0..lz, NEW v \in Values(width),
         NEW quot \in Values(width), NEW rest \in Values(width),
         BitsOf(n, width - lz), BitsOf(m, (width - lz) + k0),
         Subtracted(m, n, width, k0, 0, v, quot, rest)
  PROVE  DivisionEnds(m, n, width, v, quot, rest)
<1> USE DEF DivisionEnds
<1>1. PICK N \in Nat : N = 2^width
  BY PowNat
<1>2. /\ m \in Nat /\ m < N /\ v \in Nat /\ v < N /\ quot \in Nat /\ rest \in Nat /\ rest < N
      /\ \A g : g \in Nat /\ g < N => g \in Values(width)
  BY <1>1, ValuesAre
<1>3. CASE n # 0
  <2>1. v = n * 2^0 /\ m = quot * v + rest /\ rest < 2 * v /\ quot % 2 = 0
    BY <1>3 DEF Subtracted
  <2>0. /\ Rest(v, rest) \in Nat /\ Quotient(v, quot, rest) \in Nat
        /\ m = Quotient(v, quot, rest) * v + Rest(v, rest) /\ Rest(v, rest) < v
    <3>1. RestBelow(m, v, quot, rest)
      BY <1>2, <2>1, SubtractStep
    <3> QED BY <3>1, Zenon DEF RestBelow
  <2>2. PICK g \in Nat : g = Quotient(v, quot, rest)
    BY <2>0, Zenon
  <2>3. PICK c \in Nat : c = Rest(v, rest)
    BY <2>0, Zenon
  <2>4. m = g * v + c /\ c < v
    BY <2>0, <2>2, <2>3, Zenon
  <2>5. v = n
    BY <2>1
  <2>6. m \div n = g /\ m % n = c
    <3>1. n \in Nat \ {0} /\ m = g * n + c /\ c < n
      BY <1>3, <2>4, <2>5
    <3> QED BY <1>2, <2>2, <2>3, <3>1, DivUnique
  <2>7. g < N /\ c < N
    <3>1. g <= g * v
      BY <1>2, <1>3, <2>2, <2>5
    <3>2. PICK j \in Nat : j = g * v
      BY <1>2, <2>2
    <3> QED BY <1>1, <1>2, <2>2, <2>3, <2>4, <3>1, <3>2
  <2> QED BY <1>2, <1>3, <2>2, <2>3, <2>6, <2>7 DEF UDivOf, URemOf
<1>4. CASE n = 0
  <2>1. v = 0 /\ rest = m /\ quot = Wrap(2^((k0 - 0) + 1) - 2, width)
    BY <1>4 DEF Subtracted
  <2>2. k0 \in Nat /\ k0 - 0 = k0 /\ width - lz \in Nat
    OBVIOUS
  <2>3. quot % 2 = 0 /\ quot + 1 = Wrap(2^(k0 + 1) - 1, width)
    <3>1. quot = Wrap(2^(k0 + 1) - 2, width)
      BY <2>1, <2>2, Zenon
    <3> QED BY <1>2, <2>2, <3>1, OnesStep
  <2>4. width - lz = 0
    BY <1>4, <2>2, ZeroBits
  <2>5. BitsOf(m, k0)
    <3>1. (width - lz) + k0 = k0
      BY <2>4
    <3> QED BY <3>1, Zenon
  <2>6. BitLength(m, width) = k0
    BY <1>2, <2>2, <2>5, BitLengthIs
  <2>7. Quotient(v, quot, rest) = quot + 1 /\ Rest(v, rest) = m
    BY <1>2, <2>1, <2>3 DEF Quotient, Rest
  <2>8. UDivOf(m, n, width) = quot + 1 /\ URemOf(m, n) = m
    BY <1>4, <2>3, <2>6, Zenon DEF UDivOf, URemOf
  <2>9. quot + 1 \in Values(width)
    <3>1. PICK g \in Nat : g = 2^(k0 + 1)
      BY <2>2, PowNat
    <3>2. g - 1 \in Int
      BY <3>1
    <3> QED BY <2>3, <3>1, <3>2, WrapFacts
  <2> QED BY <2>7, <2>8, <2>9
<1> QED BY <1>3, <1>4

\* The test of getSafeMathMulFunc: the product divided by a factor is the other
\* one exactly when it did not wrap.
LEMMA SafeMulTest ==
  ASSUME NEW m \in Values(W), m # 0, NEW n \in Values(W)
  PROVE  Wrap(m * n, W) \div m = n <=> m * n \in Values(W)
<1>1. PICK N \in Nat \ {0} : N = 2^W
  BY WordAssumption, PowNat
<1>2. /\ m \in Nat \ {0} /\ n \in Nat
      /\ \A k : k \in Values(W) <=> k \in Nat /\ k < N
  BY <1>1, ValuesAre, WordAssumption
<1>3. PICK p \in Nat : p = m * n /\ p = n * m
  BY <1>2
<1>4. PICK g \in Nat : g = p % N
  BY <1>1, <1>3, DivMod
<1>5. Wrap(m * n, W) = g /\ g < N
  <2>1. Wrap(m * n, W) = g
    BY <1>1, <1>3, <1>4, Zenon DEF Wrap
  <2>2. p % N < N
    BY <1>1, <1>3, DivMod
  <2> QED BY <1>4, <2>1, <2>2, Zenon
<1>6. ASSUME p < N PROVE g \div m = n
  <2>1. g = p
    BY <1>1, <1>3, <1>4, <1>6
  <2>2. g = n * m + 0 /\ 0 < m
    BY <1>2, <1>3, <2>1
  <2> QED BY <1>2, <1>4, <2>2, DivUnique
<1>7. ASSUME g \div m = n PROVE p < N
  <2>1. PICK c \in Nat : g = p + c
    <3>1. g % m \in Nat /\ g = (g \div m) * m + (g % m)
      BY <1>2, <1>4, DivMod
    <3> QED BY <1>3, <1>7, <3>1, Zenon
  <2> QED BY <1>1, <1>3, <1>4, <1>5, <2>1
<1>8. g \div m = n <=> p < N
  BY <1>6, <1>7
<1>9. m * n \in Values(W) <=> p < N
  BY <1>2, <1>3
<1> QED BY <1>5, <1>8, <1>9, Zenon

(***************************************************************************)
(* The functions: what is known at each block.                             *)
(***************************************************************************)
DividingFns == DivFns \union {"safeMul", "safeUDiv"}
DivisionPcs == {"Entry", "ctlz y", "ctlz r", "beforeloopY", "Loop", "Return"}
ReturnPcs == {"Return", "sdivrem.signs", "safeMul.compare"}

\* Operands and width belong to the function, and so does the block.
CallInv ==
  /\ fn \in AllFns /\ w = (IF fn = "urem512" THEN 2 * W ELSE W)
  /\ a \in Values(w) /\ b \in Values(W)
  /\ pc \in DivisionPcs => fn \in DividingFns
  /\ pc \in SafeFns \union {"sdivrem", "mul", "exp"} => fn = pc
  /\ pc = "sdivrem.signs" => fn = "sdivrem"
  /\ pc = "safeMul.compare" => fn = "safeMul"
  /\ pc = "exp.LoopHeader" => fn = "exp"

\* What is divided by what.
Divided ==
  /\ fn \in {"udivrem", "urem512", "safeUDiv"} => x = a /\ y = b
  /\ fn = "safeUDiv" => b # 0
  /\ fn = "sdivrem" => x = Abs(a, W) /\ y = Abs(b, W)
  /\ fn = "safeMul" => x = Wrap(a * b, W) /\ y = a /\ a # 0

\* The bits of y, and those of x from how far y is shifted.
Counted == BitsOf(y, w - yLz)
Spans == i0 <= yLz /\ i <= i0 /\ BitsOf(x, (w - yLz) + i0)

\* The division, from block to block.
DivInv ==
  /\ pc \in DivisionPcs \union ReturnPcs => Divided
  /\ pc \in DivisionPcs \ {"Entry", "Return"} => y <= x
  /\ pc = "ctlz y" => Halving(y, tmp, cnt)
  /\ pc = "ctlz r" => Halving(x, tmp, cnt) /\ Counted
  /\ pc \in {"beforeloopY", "Loop"} => Counted /\ Spans
  /\ pc = "beforeloopY" => ShiftedBy(y, w, yLz, i0, i, yp)
  /\ pc = "Loop" => Subtracted(x, y, w, i0, i, yp, q, r)
  /\ pc \in ReturnPcs => q = UDivOf(x, y, w) /\ r = URemOf(x, y)

\* The power: what is multiplied and what is left make up the result.
ExpInv ==
  pc = "exp.LoopHeader" => r \in Values(W) /\ Wrap(r * EvmExp(base, e, W), W) = EvmExp(a, b, W)

ArithInv ==
  ArithTypeOK /\ CallInv /\ DivInv /\ ExpInv /\ ResultsExact /\ SafeMathExact

\* The registers, as numbers.
LEMMA Registers ==
  ASSUME ArithInv
  PROVE  /\ w \in Nat \ {0} /\ W \in Nat \ {0} /\ W <= w
         /\ x \in Values(w) /\ y \in Values(w) /\ tmp \in Values(w) /\ cnt \in Values(w)
         /\ yp \in Values(w) /\ r \in Values(w) /\ q \in Values(w)
         /\ x \in Nat /\ y \in Nat /\ tmp \in Nat /\ cnt \in Nat /\ yp \in Nat /\ r \in Nat /\ q \in Nat
         /\ yLz \in 0..w /\ i0 \in 0..w /\ i \in 0..w
         /\ base \in Values(W) /\ e \in Values(W) /\ base \in Nat /\ e \in Nat
         /\ a \in Values(w) /\ b \in Values(W) /\ a \in Nat /\ b \in Nat
<1>1. w \in Nat \ {0} /\ W \in Nat \ {0} /\ W <= w
  BY WordAssumption DEF ArithInv, CallInv
<1>2. /\ x \in Values(w) /\ y \in Values(w) /\ tmp \in Values(w) /\ cnt \in Values(w)
      /\ yp \in Values(w) /\ r \in Values(w) /\ q \in Values(w)
      /\ yLz \in 0..w /\ i0 \in 0..w /\ i \in 0..w
      /\ base \in Values(W) /\ e \in Values(W)
      /\ a \in Values(w) /\ b \in Values(W)
  BY Zenon DEF ArithInv, ArithTypeOK, CallInv
<1>3. \A n : (n \in Values(w) => n \in Nat) /\ (n \in Values(W) => n \in Nat)
  BY <1>1, ValuesAre
<1> QED BY <1>1, <1>2, <1>3

\* A value fits a wider type, and zero and one fit every type.
LEMMA Widen ==
  ASSUME NEW k \in Nat, NEW l \in Nat, k <= l
  PROVE  /\ \A n \in Values(k) : n \in Values(l)
         /\ \A n \in 0..k : n \in Values(l)
         /\ k # 0 => 1 \in Values(k)
<1>1. PICK p \in Nat \ {0} : p = 2^k
  BY PowNat
<1>2. PICK s \in Nat \ {0} : s = 2^l
  BY PowNat
<1>3. p <= s /\ k < p
  BY <1>1, <1>2, PowMono, PowAbove
<1>4. \A n : (n \in Values(k) <=> n \in Nat /\ n < p) /\ (n \in Values(l) <=> n \in Nat /\ n < s)
  BY <1>1, <1>2, ValuesAre, Zenon
<1> QED BY <1>1, <1>2, <1>3, <1>4

\* Nothing is said of results before there are any.
LEMMA NotOver ==
  ASSUME pc' \notin {"done", "reverted"}
  PROVE  ResultsExact' /\ SafeMathExact'
  BY DEF ResultsExact, SafeMathExact

\* The comparison of the operands.
LEMMA EntryStep ==
  ASSUME ArithInv, UDivRemEntry
  PROVE  ArithInv'
<1>1. /\ pc = "Entry" /\ UNCHANGED <<fn, a, b, x, y, w, yLz, i0, i, yp, base, e, res>>
      /\ \/ y <= x /\ pc' = "ctlz y" /\ tmp' = y /\ cnt' = 0 /\ UNCHANGED <<q, r>>
         \/ ~(y <= x) /\ pc' = "Return" /\ q' = 0 /\ r' = x /\ UNCHANGED <<tmp, cnt>>
  BY DEF UDivRemEntry
<1>2. 0 \in Values(w)
  BY Registers, Widen
<1>3. ArithTypeOK'
  BY <1>1, <1>2 DEF ArithInv, ArithTypeOK
<1>4. CallInv' /\ ExpInv'
  BY <1>1 DEF ArithInv, CallInv, ExpInv, DivisionPcs, SafeFns
<1>5. ResultsExact' /\ SafeMathExact'
  BY <1>1, NotOver
<1>6. Divided'
  <2>1. Divided
    BY <1>1 DEF ArithInv, DivInv, DivisionPcs
  <2> QED BY <1>1, <2>1 DEF Divided
<1>7. DivInv'
  <2>1. CASE y <= x /\ pc' = "ctlz y" /\ tmp' = y /\ cnt' = 0
    <3>1. Halving(y, y, 0)
      <4>1. 2^0 = 1
        OBVIOUS
      <4>2. y * 1 <= y /\ y < (y + 1) * 1
        BY Registers
      <4> QED BY <4>1, <4>2, Zenon DEF Halving
    <3>2. Halving(y, tmp, cnt)'
      BY <1>1, <2>1, <3>1 DEF Halving
    <3> QED BY <1>1, <1>6, <2>1, <3>2 DEF DivInv, DivisionPcs, ReturnPcs
  <2>2. CASE ~(y <= x) /\ pc' = "Return" /\ q' = 0 /\ r' = x
    <3>1. y # 0 /\ x = 0 * y + x /\ x < y
      BY <2>2, Registers
    <3>2. x \div y = 0 /\ x % y = x
      BY <3>1, Registers, DivUnique
    <3>3. UDivOf(x, y, w) = 0 /\ URemOf(x, y) = x
      BY <3>1, <3>2 DEF UDivOf, URemOf
    <3>4. q' = UDivOf(x, y, w)' /\ r' = URemOf(x, y)'
      BY <1>1, <2>2, <3>3 DEF UDivOf, URemOf
    <3> QED BY <1>1, <1>6, <2>2, <3>4 DEF DivInv, DivisionPcs, ReturnPcs
  <2> QED BY <1>1, <2>1, <2>2
<1> QED BY <1>3, <1>4, <1>5, <1>7 DEF ArithInv

\* The loop that counts bits.
LEMMA CtlzStep ==
  ASSUME ArithInv, Ctlz
  PROVE  ArithInv'
<1>1. pc \in {"ctlz y", "ctlz r"} /\ UNCHANGED <<fn, a, b, x, y, w, q, r, base, e, res>>
  BY DEF Ctlz
<1>2. /\ Divided /\ y <= x
      /\ pc = "ctlz y" => Halving(y, tmp, cnt)
      /\ pc = "ctlz r" => Halving(x, tmp, cnt) /\ BitsOf(y, w - yLz)
  BY <1>1 DEF ArithInv, DivInv, DivisionPcs, Counted
<1>3. Divided'
  BY <1>1, <1>2 DEF Divided
<1>4. pc' \in {"ctlz y", "ctlz r", "beforeloopY"}
  BY <1>1 DEF Ctlz
<1>5. CallInv' /\ ExpInv' /\ ResultsExact' /\ SafeMathExact'
  <2>1. CallInv' /\ ExpInv'
    BY <1>1, <1>4 DEF ArithInv, CallInv, ExpInv, DivisionPcs, SafeFns
  <2> QED BY <1>4, <2>1, NotOver
<1>6. ASSUME NEW n \in Values(w), Halving(n, tmp, cnt), tmp # 0
      PROVE  /\ tmp \div 2 \in Values(w) /\ cnt + 1 \in Values(w)
             /\ Halving(n, tmp \div 2, cnt + 1)
  <2>1. w \in Nat /\ n \in Nat /\ tmp \in Nat \ {0} /\ cnt \in Nat
    BY <1>6, Registers, ValuesAre
  <2>2. Halving(n, tmp \div 2, cnt + 1)
    BY <1>6, <2>1, HalvingStep
  <2>3. PICK N \in Nat : N = 2^w
    BY <2>1, PowNat
  <2>4. n < N /\ tmp < N /\ \A k : k \in Nat /\ k < N => k \in Values(w)
    BY <1>6, <2>1, <2>3, ValuesAre, Registers
  <2>5. tmp \div 2 \in Values(w)
    <3>1. tmp \div 2 \in Nat /\ tmp \div 2 <= tmp
      BY <2>1
    <3> QED BY <2>1, <2>3, <2>4, <3>1
  <2>6. cnt + 1 <= w
    <3> SUFFICES ASSUME w < cnt + 1 PROVE FALSE
      BY <2>1
    <3>1. (cnt + 1) - 1 = cnt /\ cnt + 1 # 0 /\ w <= cnt
      BY <2>1
    <3>2. 2^cnt <= n
      BY <2>2, <3>1, Zenon DEF Halving
    <3>3. 2^w <= 2^cnt
      BY <2>1, <3>1, PowMono
    <3>4. PICK p \in Nat : p = 2^cnt
      BY <2>1, PowNat
    <3> QED BY <2>1, <2>3, <2>4, <3>2, <3>3, <3>4
  <2>7. cnt + 1 \in Values(w)
    BY <2>1, <2>6, Widen
  <2> QED BY <2>2, <2>5, <2>7
<1>7. ASSUME NEW n \in Values(w), Halving(n, tmp, cnt), tmp = 0
      PROVE  BitsOf(n, cnt) /\ cnt <= w
  <2>1. w \in Nat /\ n \in Nat /\ cnt \in Nat /\ n < 2^w
    BY <1>7, Registers, ValuesAre
  <2>2. BitsOf(n, cnt)
    BY <1>7, <2>1, HalvingEnd
  <2> QED BY <2>1, <2>2, BitsBelow
<1>8. x \in Values(w) /\ y \in Values(w) /\ x \in Nat /\ y \in Nat /\ w \in Nat \ {0} /\ cnt \in Nat
  BY Registers
<1>9. CASE tmp # 0
  <2>1. tmp' = tmp \div 2 /\ cnt' = cnt + 1 /\ UNCHANGED <<pc, yLz, i0, i, yp>>
    BY <1>9 DEF Ctlz
  <2>2. /\ tmp \div 2 \in Values(w) /\ cnt + 1 \in Values(w)
        /\ pc = "ctlz y" => Halving(y, tmp \div 2, cnt + 1)
        /\ pc = "ctlz r" => Halving(x, tmp \div 2, cnt + 1)
    BY <1>1, <1>2, <1>6, <1>8, <1>9
  <2>3. ArithTypeOK'
    BY <1>1, <2>1, <2>2 DEF ArithInv, ArithTypeOK
  <2>4. /\ pc' = "ctlz y" => Halving(y, tmp, cnt)'
        /\ pc' = "ctlz r" => Halving(x, tmp, cnt)' /\ Counted'
    BY <1>1, <1>2, <2>1, <2>2 DEF Counted
  <2>5. DivInv'
    BY <1>1, <1>2, <1>3, <2>1, <2>4 DEF DivInv, DivisionPcs, ReturnPcs
  <2> QED BY <1>5, <2>3, <2>5 DEF ArithInv
<1>10. CASE tmp = 0 /\ pc = "ctlz y"
  <2>1. /\ pc' = "ctlz r" /\ yLz' = w - cnt /\ tmp' = x /\ cnt' = 0
        /\ UNCHANGED <<i0, i, yp>>
    BY <1>10 DEF Ctlz, Lz
  <2>2. BitsOf(y, cnt) /\ cnt <= w
    BY <1>2, <1>7, <1>8, <1>10
  <2>3. w - cnt \in 0..w /\ w - (w - cnt) = cnt
    BY <1>8, <2>2
  <2>4. 0 \in Values(w)
    BY <1>8, Widen
  <2>5. ArithTypeOK'
    BY <1>1, <1>8, <2>1, <2>3, <2>4 DEF ArithInv, ArithTypeOK
  <2>6. Counted'
    BY <1>1, <2>1, <2>2, <2>3, Zenon DEF Counted
  <2>7. Halving(x, x, 0)
    <3>1. 2^0 = 1
      OBVIOUS
    <3>2. x * 1 <= x /\ x < (x + 1) * 1
      BY <1>8
    <3> QED BY <3>1, <3>2, Zenon DEF Halving
  <2>8. Halving(x, tmp, cnt)'
    BY <1>1, <2>1, <2>7 DEF Halving
  <2>9. DivInv'
    BY <1>1, <1>2, <1>3, <2>1, <2>6, <2>8 DEF DivInv, DivisionPcs, ReturnPcs
  <2> QED BY <1>5, <2>5, <2>9 DEF ArithInv
<1>11. CASE tmp = 0 /\ pc = "ctlz r"
  <2>1. /\ pc' = "beforeloopY" /\ i0' = Wrap(yLz - (w - cnt), w) /\ i' = i0' /\ yp' = y
        /\ UNCHANGED <<tmp, cnt, yLz>>
    BY <1>11 DEF Ctlz, Lz, ShiftBy
  <2>2. BitsOf(x, cnt) /\ cnt <= w /\ BitsOf(y, w - yLz)
    BY <1>2, <1>7, <1>8, <1>11
  <2>3. yLz \in 0..w
    BY Registers
  <2>4. PICK k0 : k0 = Wrap(yLz - (w - cnt), w)
    OBVIOUS
  <2>5. /\ k0 \in 0..yLz /\ (w - yLz) + k0 = cnt
        /\ ShiftedBy(y, w, yLz, k0, k0, y)
    <3>1. StartsShift(y, w, yLz, cnt, k0)
      BY <1>2, <1>8, <2>2, <2>3, <2>4, ShiftFirst
    <3> QED BY <3>1, Zenon DEF StartsShift
  <2>6. i0' = k0 /\ i' = k0 /\ k0 \in 0..w
    BY <1>8, <2>1, <2>3, <2>4, <2>5
  <2>7. ArithTypeOK'
    BY <1>1, <1>8, <2>1, <2>6 DEF ArithInv, ArithTypeOK
  <2>8. Counted'
    BY <1>1, <2>1, <2>2, Zenon DEF Counted
  <2>9. BitsOf(x, (w - yLz) + k0)
    BY <2>2, <2>5, Zenon
  <2>10. Spans'
    <3>1. k0 <= yLz /\ k0 <= k0
      BY <2>3, <2>5
    <3> QED BY <1>1, <2>1, <2>6, <2>9, <3>1, Zenon DEF Spans
  <2>11. ShiftedBy(y, w, yLz, i0, i, yp)'
    BY <1>1, <2>1, <2>5, <2>6, Zenon
  <2>12. DivInv'
    BY <1>1, <1>2, <1>3, <2>1, <2>8, <2>10, <2>11 DEF DivInv, DivisionPcs, ReturnPcs
  <2> QED BY <1>5, <2>7, <2>12 DEF ArithInv
<1> QED BY <1>1, <1>9, <1>10, <1>11

\* The loop that shifts the divisor.
LEMMA LoopYStep ==
  ASSUME ArithInv, LoopY
  PROVE  ArithInv'
<1>1. pc = "beforeloopY" /\ UNCHANGED <<fn, a, b, x, y, w, tmp, cnt, yLz, i0, base, e, res>>
  BY DEF LoopY
<1>2. Divided /\ y <= x /\ Counted /\ Spans /\ ShiftedBy(y, w, yLz, i0, i, yp)
  BY <1>1 DEF ArithInv, DivInv, DivisionPcs
<1>3. Divided' /\ Counted'
  BY <1>1, <1>2 DEF Divided, Counted
<1>4. CallInv' /\ ExpInv' /\ ResultsExact' /\ SafeMathExact'
  <2>1. pc' \in {"beforeloopY", "Loop"}
    BY <1>1 DEF LoopY
  <2>2. CallInv' /\ ExpInv'
    BY <1>1, <2>1 DEF ArithInv, CallInv, ExpInv, DivisionPcs, SafeFns
  <2> QED BY <2>1, <2>2, NotOver
<1>5. /\ w \in Nat \ {0} /\ x \in Nat /\ y \in Nat /\ yp \in Nat /\ x \in Values(w)
      /\ yLz \in 0..w /\ i0 \in 0..yLz /\ i \in 0..i0 /\ BitsOf(x, (w - yLz) + i0)
  BY <1>2, Registers DEF Spans
<1>6. CASE i # 0
  <2>1. pc' = pc /\ yp' = Wrap(2 * yp, w) /\ i' = i - 1 /\ UNCHANGED <<r, q>>
    BY <1>6 DEF LoopY
  <2>2. i \in 1..i0 /\ i - 1 \in 0..w /\ i - 1 <= i0
    BY <1>5, <1>6
  <2>3. /\ Wrap(2 * yp, w) \in Values(w)
        /\ ShiftedBy(y, w, yLz, i0, i - 1, Wrap(2 * yp, w))
    BY <1>2, <1>5, <2>2, ShiftNext
  <2>4. ArithTypeOK'
    BY <1>1, <2>1, <2>2, <2>3 DEF ArithInv, ArithTypeOK
  <2>5. Spans'
    BY <1>1, <1>2, <2>1, <2>2 DEF Spans
  <2>6. ShiftedBy(y, w, yLz, i0, i, yp)'
    BY <1>1, <2>1, <2>3, Zenon
  <2>7. DivInv'
    BY <1>1, <1>2, <1>3, <2>1, <2>5, <2>6 DEF DivInv, DivisionPcs, ReturnPcs
  <2> QED BY <1>4, <2>4, <2>7 DEF ArithInv
<1>7. CASE i = 0
  <2>1. pc' = "Loop" /\ i' = i0 /\ r' = x /\ q' = 0 /\ yp' = yp
    BY <1>7 DEF LoopY
  <2>2. Subtracted(x, y, w, i0, i0, yp, 0, x)
    <3>1. ShiftedBy(y, w, yLz, i0, 0, yp)
      BY <1>2, <1>7
    <3> QED BY <1>5, <3>1, SubtractFirst
  <2>3. Subtracted(x, y, w, i0, i, yp, q, r)'
    BY <1>1, <2>1, <2>2, Zenon
  <2>4. Spans'
    <3>1. i0 <= i0
      BY <1>5
    <3> QED BY <1>1, <1>2, <2>1, <3>1 DEF Spans
  <2>5. ArithTypeOK'
    <3>1. 0 \in Values(w) /\ i0 \in 0..w
      BY <1>5, Widen
    <3> QED BY <1>1, <1>5, <2>1, <3>1 DEF ArithInv, ArithTypeOK
  <2>6. DivInv'
    BY <1>1, <1>2, <1>3, <2>1, <2>3, <2>4 DEF DivInv, DivisionPcs, ReturnPcs
  <2> QED BY <1>4, <2>5, <2>6 DEF ArithInv
<1> QED BY <1>6, <1>7

\* The loop that subtracts.
LEMMA LoopStep ==
  ASSUME ArithInv, Loop
  PROVE  ArithInv'
<1>1. pc = "Loop" /\ UNCHANGED <<fn, a, b, x, y, w, tmp, cnt, yLz, i0, base, e, res>>
  BY DEF Loop
<1>2. Divided /\ y <= x /\ Counted /\ Spans /\ Subtracted(x, y, w, i0, i, yp, q, r)
  BY <1>1 DEF ArithInv, DivInv, DivisionPcs
<1>3. Divided' /\ Counted'
  BY <1>1, <1>2 DEF Divided, Counted
<1>4. CallInv' /\ ExpInv' /\ ResultsExact' /\ SafeMathExact'
  <2>1. pc' \in {"Return", "Loop"}
    BY <1>1 DEF Loop
  <2>2. CallInv' /\ ExpInv'
    BY <1>1, <2>1 DEF ArithInv, CallInv, ExpInv, DivisionPcs, SafeFns
  <2> QED BY <2>1, <2>2, NotOver
<1>5. /\ w \in Nat \ {0} /\ y \in Nat /\ x \in Values(w)
      /\ yp \in Values(w) /\ q \in Values(w) /\ r \in Values(w)
      /\ yLz \in 0..w /\ i0 \in 0..yLz /\ i \in 0..i0
      /\ BitsOf(x, (w - yLz) + i0) /\ BitsOf(y, w - yLz)
  BY <1>2, Registers DEF Spans, Counted
<1>6. /\ i = 0 => /\ pc' = "Return" /\ r' = Rest(yp, r) /\ q' = Quotient(yp, q, r)
                  /\ UNCHANGED <<i, yp>>
      /\ i # 0 => /\ pc' = pc /\ i' = i - 1 /\ r' = Rest(yp, r)
                  /\ q' = Wrap(2 * Quotient(yp, q, r), w) /\ yp' = yp \div 2
  BY DEF Loop, Rest, Quotient, Subtracts, NextDivisor
<1>7. CASE i # 0
  <2>1. i \in 1..i0 /\ i - 1 \in 0..w /\ i - 1 <= i0 /\ i0 \in Nat
    BY <1>5, <1>7
  <2>2. /\ yp \div 2 \in Values(w) /\ Rest(yp, r) \in Values(w)
        /\ Wrap(2 * Quotient(yp, q, r), w) \in Values(w)
        /\ Subtracted(x, y, w, i0, i - 1, yp \div 2, Wrap(2 * Quotient(yp, q, r), w), Rest(yp, r))
    BY <1>2, <1>5, <2>1, SubtractNext
  <2>3. ArithTypeOK'
    BY <1>1, <1>6, <1>7, <2>1, <2>2 DEF ArithInv, ArithTypeOK
  <2>4. Spans'
    BY <1>1, <1>2, <1>6, <1>7, <2>1 DEF Spans
  <2>5. Subtracted(x, y, w, i0, i, yp, q, r)'
    BY <1>1, <1>6, <1>7, <2>2, Zenon
  <2>6. DivInv'
    BY <1>1, <1>2, <1>3, <1>6, <1>7, <2>4, <2>5 DEF DivInv, DivisionPcs, ReturnPcs
  <2> QED BY <1>4, <2>3, <2>6 DEF ArithInv
<1>8. CASE i = 0
  <2>1. /\ Quotient(yp, q, r) \in Values(w) /\ Rest(yp, r) \in Values(w)
        /\ Quotient(yp, q, r) = UDivOf(x, y, w)
        /\ Rest(yp, r) = URemOf(x, y)
    <3>1. Subtracted(x, y, w, i0, 0, yp, q, r)
      BY <1>2, <1>8
    <3>2. DivisionEnds(x, y, w, yp, q, r)
      BY <1>5, <3>1, SubtractLast
    <3> QED BY <3>2, Zenon DEF DivisionEnds
  <2>2. ArithTypeOK'
    BY <1>1, <1>6, <1>8, <2>1 DEF ArithInv, ArithTypeOK
  <2>3. q' = UDivOf(x, y, w)' /\ r' = URemOf(x, y)'
    BY <1>1, <1>6, <1>8, <2>1, Zenon
  <2>4. DivInv'
    BY <1>1, <1>3, <1>6, <1>8, <2>3 DEF DivInv, DivisionPcs, ReturnPcs
  <2> QED BY <1>4, <2>2, <2>4 DEF ArithInv
<1> QED BY <1>7, <1>8

\* What a step that ends the function owes.
LEMMA Ends ==
  ASSUME ArithInv, UNCHANGED <<fn, a, b, divVars, r, base, e>>,
         pc' \in {"done", "reverted"}, ResultsExact', SafeMathExact'
  PROVE  ArithInv'
<1>1. ArithTypeOK'
  BY DEF ArithInv, ArithTypeOK, divVars
<1>2. CallInv' /\ DivInv' /\ ExpInv'
  BY DEF ArithInv, CallInv, DivInv, ExpInv, DivisionPcs, ReturnPcs, SafeFns, divVars
<1> QED BY <1>1, <1>2 DEF ArithInv

\* The block that follows the division.
LEMMA ReturnStep ==
  ASSUME ArithInv, Return
  PROVE  ArithInv'
<1>1. pc = "Return" /\ UNCHANGED <<fn, a, b, divVars, r, base, e>>
  BY DEF Return
<1>2. Divided /\ q = UDivOf(x, y, w) /\ r = URemOf(x, y) /\ q \in Values(w)
  BY <1>1, Registers DEF ArithInv, DivInv, DivisionPcs, ReturnPcs
<1>3. CASE fn \in {"udivrem", "urem512", "safeUDiv"} /\ Finish(<<q, r>>)
  <2>1. pc' = "done" /\ res' = <<q, r>> /\ fn' = fn /\ a' = a /\ b' = b
    BY <1>1, <1>3 DEF Finish
  <2>2. x = a /\ y = b
    BY <1>2, <1>3 DEF Divided
  <2>3. fn # "urem512" => w = W
    BY DEF ArithInv, CallInv
  <2>4. res' = <<UDivOf(a, b, w), URemOf(a, b)>> /\ res'[1] = q /\ res'[2] = URemOf(a, b)
    BY <1>2, <2>1, <2>2
  <2>5. ResultsExact'
    BY <1>3, <2>1, <2>3, <2>4 DEF ResultsExact
  <2>6. SafeMathExact'
    <3>1. CASE fn = "safeUDiv"
      <4>1. w = W /\ b # 0
        BY <1>2, <2>3, <3>1 DEF Divided
      <4>2. q = a \div b
        BY <1>2, <2>2, <4>1 DEF UDivOf
      <4> QED BY <1>2, <2>1, <2>4, <3>1, <4>1, <4>2 DEF SafeMathExact
    <3>2. CASE fn # "safeUDiv"
      BY <1>3, <2>1, <3>2 DEF SafeMathExact, SafeFns
    <3> QED BY <3>1, <3>2
  <2> QED BY <1>1, <2>1, <2>5, <2>6, Ends
<1>4. CASE \/ fn = "sdivrem" /\ pc' = "sdivrem.signs" /\ UNCHANGED res
           \/ fn = "safeMul" /\ pc' = "safeMul.compare" /\ UNCHANGED res
  <2>1. UNCHANGED <<fn, a, b, x, y, w, tmp, cnt, yLz, i0, i, yp, q, r, base, e>>
    BY <1>1 DEF divVars
  <2>2. ArithTypeOK' /\ CallInv' /\ ExpInv'
    BY <1>4, <2>1 DEF ArithInv, ArithTypeOK, CallInv, ExpInv, DivisionPcs, SafeFns
  <2>3. Divided'
    BY <1>2, <2>1 DEF Divided
  <2>4. q' = UDivOf(x, y, w)' /\ r' = URemOf(x, y)'
    BY <1>2, <2>1, Zenon
  <2>5. DivInv'
    BY <1>4, <2>3, <2>4 DEF DivInv, DivisionPcs, ReturnPcs
  <2>6. ResultsExact' /\ SafeMathExact'
    BY <1>4, NotOver
  <2> QED BY <2>2, <2>5, <2>6 DEF ArithInv
<1> QED BY <1>3, <1>4 DEF Return

\* A step that calls the division with the operands of the function.
LEMMA CallStep ==
  ASSUME ArithInv, pc' = "Entry", fn \in DividingFns,
         x' \in Values(w), y' \in Values(w), Divided',
         UNCHANGED <<fn, a, b, w, tmp, cnt, yLz, i0, i, yp, q, r, base, e>>
  PROVE  ArithInv'
<1>1. ArithTypeOK'
  BY DEF ArithInv, ArithTypeOK
<1>2. CallInv' /\ ExpInv'
  BY DEF ArithInv, CallInv, ExpInv, DivisionPcs, SafeFns
<1>3. DivInv'
  BY DEF DivInv, DivisionPcs, ReturnPcs
<1>4. ResultsExact' /\ SafeMathExact'
  BY NotOver
<1> QED BY <1>1, <1>2, <1>3, <1>4 DEF ArithInv

\* The signed division, before and after the unsigned one.
LEMMA SignedSteps ==
  ASSUME ArithInv, SDivRem \/ SDivRemSigns
  PROVE  ArithInv'
<1>1. fn = "sdivrem" /\ w = W /\ a \in Values(W) /\ b \in Values(W)
  <2>1. fn = "sdivrem"
    BY DEF ArithInv, CallInv, SDivRem, SDivRemSigns
  <2> QED BY <2>1, Zenon DEF ArithInv, CallInv
<1>2. CASE SDivRem
  <2>1. /\ pc' = "Entry" /\ x' = Abs(a, w) /\ y' = Abs(b, w)
        /\ UNCHANGED <<fn, a, b, w, tmp, cnt, yLz, i0, i, yp, q, r, base, e>>
    BY <1>2 DEF SDivRem
  <2>2. Abs(a, W) \in Values(W) /\ Abs(b, W) \in Values(W)
    BY <1>1, SignFacts
  <2>3. x' \in Values(w) /\ y' \in Values(w)
    BY <1>1, <2>1, <2>2, Zenon
  <2>4. x' = Abs(a, W)' /\ y' = Abs(b, W)'
    BY <1>1, <2>1, Zenon
  <2>5. Divided'
    BY <1>1, <2>1, <2>4 DEF Divided
  <2>6. fn \in DividingFns
    BY <1>1 DEF DividingFns, DivFns
  <2> QED BY <2>1, <2>3, <2>5, <2>6, CallStep
<1>3. CASE SDivRemSigns
  <2>1. /\ pc' = "done" /\ UNCHANGED <<fn, a, b, divVars, r, base, e>>
        /\ res' = <<IF IsNeg(a, W) # IsNeg(b, W) THEN Neg(q, W) ELSE q,
                    IF IsNeg(a, W) THEN Neg(r, W) ELSE r>>
    BY <1>3 DEF SDivRemSigns, Finish, RemSign
  <2>2. x = Abs(a, W) /\ y = Abs(b, W) /\ q = UDivOf(x, y, w) /\ r = URemOf(x, y)
    BY <1>1, <1>3 DEF SDivRemSigns, ArithInv, DivInv, Divided, ReturnPcs
  <2>3. q = UDivOf(Abs(a, W), Abs(b, W), W) /\ r = URemOf(Abs(a, W), Abs(b, W))
    BY <1>1, <2>2, Zenon
  <2>4. /\ (IF IsNeg(a, W) # IsNeg(b, W) THEN Neg(q, W) ELSE q) = SDivOf(a, b, W)
        /\ (IF IsNeg(a, W) THEN Neg(r, W) ELSE r) = SRemOf(a, b, W)
    BY <1>1, <2>3, SDivExact
  <2>5. res' = <<SDivOf(a, b, W), SRemOf(a, b, W)>>
    BY <2>1, <2>4, Zenon
  <2>6. res' = <<SDivOf(a, b, W)', SRemOf(a, b, W)'>>
    BY <2>1, <2>5, Zenon
  <2>7. ResultsExact' /\ SafeMathExact'
    BY <1>1, <2>1, <2>6 DEF ResultsExact, SafeMathExact, SafeFns
  <2> QED BY <2>1, <2>7, Ends
<1> QED BY <1>2, <1>3

\* The product.
LEMMA MulStep ==
  ASSUME ArithInv, Mul
  PROVE  ArithInv'
<1>1. /\ fn = "mul" /\ pc' = "done" /\ res' = <<Mul256(a, b)>>
      /\ UNCHANGED <<fn, a, b, divVars, r, base, e>>
  BY DEF Mul, Finish, ArithInv, CallInv
<1>2. a \in Values(W) /\ b \in Values(W)
  BY <1>1, Zenon DEF ArithInv, CallInv
<1>3. res' = <<Wrap(a * b, W)>>
  BY <1>1, <1>2, MulExact, Zenon
<1>4. ResultsExact' /\ SafeMathExact'
  <2>1. res' = <<Wrap(a' * b', W)>>
    BY <1>1, <1>3, Zenon
  <2> QED BY <1>1, <2>1 DEF ResultsExact, SafeMathExact, SafeFns
<1> QED BY <1>1, <1>4, Ends

\* The powers.
LEMMA ExpSteps ==
  ASSUME ArithInv, ExpEntry \/ ExpLoop
  PROVE  ArithInv'
<1>1. fn = "exp" /\ w = W /\ a \in Values(W) /\ b \in Values(W)
  <2>1. fn = "exp"
    BY DEF ArithInv, CallInv, ExpEntry, ExpLoop
  <2> QED BY <2>1, Zenon DEF ArithInv, CallInv
<1>2. /\ W \in Nat \ {0} /\ a \in Nat /\ b \in Nat
      /\ base \in Values(W) /\ e \in Values(W) /\ base \in Nat /\ e \in Nat
  BY Registers
<1>3. ASSUME NEW n \in Nat
      PROVE  Wrap(n, W) \in Values(W)
  BY <1>2, WrapFacts
<1>4. 1 \in Values(W) /\ 0 \in Values(W)
  BY <1>2, Widen
<1>5. ASSUME UNCHANGED <<fn, a, b, divVars>>, pc' = "exp.LoopHeader",
             r' \in Values(W), base' \in Values(W), e' \in Values(W),
             Wrap(r' * EvmExp(base', e', W), W) = EvmExp(a, b, W)
      PROVE  ArithInv'
  <2>1. ArithTypeOK'
    BY <1>1, <1>5 DEF ArithInv, ArithTypeOK, divVars
  <2>2. CallInv' /\ DivInv'
    BY <1>1, <1>5 DEF ArithInv, CallInv, DivInv, DivisionPcs, ReturnPcs, SafeFns, divVars
  <2>3. a' = a /\ b' = b
    BY <1>5
  <2>4. ExpInv'
    BY <1>5, <2>3, Zenon DEF ExpInv
  <2>5. ResultsExact' /\ SafeMathExact'
    BY <1>5, NotOver
  <2> QED BY <2>1, <2>2, <2>4, <2>5 DEF ArithInv
<1>6. \A n \in Values(W) : n \in Nat /\ Wrap(1 * n, W) = n /\ Wrap(n * 1, W) = n
  <2>1. \A n \in Values(W) : n \in Nat /\ Wrap(n, W) = n
    BY <1>2, WrapFacts, ValuesAre
  <2>2. \A n \in Nat : 1 * n = n /\ n * 1 = n
    OBVIOUS
  <2> QED BY <2>1, <2>2
<1>7. \A m \in Nat : \A n \in Nat : EvmExp(m, n, W) \in Values(W) /\ EvmExp(m, 0, W) = 1
  <2> SUFFICES ASSUME NEW m \in Nat, NEW n \in Nat
               PROVE  EvmExp(m, n, W) \in Values(W) /\ EvmExp(m, 0, W) = 1
    OBVIOUS
  <2>1. EvmExp(m, 0, W) = 1
    <3>1. EvmExp(m, 0, W) = Wrap(1, W)
      BY ExpNext
    <3>2. Wrap(1, W) = 1
      BY <1>2, <1>4, WrapFacts
    <3> QED BY <3>1, <3>2, Zenon
  <2>2. CASE n # 0
    <3>1. n - 1 \in Nat /\ (n - 1) + 1 = n
      BY <2>2
    <3>2. EvmExp(m, (n - 1) + 1, W) = Wrap(EvmExp(m, n - 1, W) * m, W)
      BY <3>1, ExpNext
    <3>3. EvmExp(m, n - 1, W) \in Nat
      BY <1>2, <3>1, ExpType
    <3>4. EvmExp(m, n - 1, W) * m \in Nat
      BY <3>3
    <3>5. Wrap(EvmExp(m, n - 1, W) * m, W) \in Values(W)
      BY <1>3, <3>4
    <3> QED BY <2>1, <3>1, <3>2, <3>5, Zenon
  <2> QED BY <1>4, <2>1, <2>2
<1>8. CASE ExpEntry
  <2>1. /\ pc' = "exp.LoopHeader" /\ r' = 1 /\ base' = a /\ e' = b
        /\ UNCHANGED <<fn, a, b, divVars>>
    BY <1>8 DEF ExpEntry
  <2>2. Wrap(1 * EvmExp(a, b, W), W) = EvmExp(a, b, W)
    BY <1>2, <1>6, <1>7
  <2>3. Wrap(r' * EvmExp(base', e', W), W) = EvmExp(a, b, W)
    BY <2>1, <2>2, Zenon
  <2> QED BY <1>1, <1>4, <1>5, <2>1, <2>3
<1>9. CASE ExpLoop /\ e # 0
  <2>1. /\ pc = "exp.LoopHeader" /\ pc' = pc
        /\ r' = (IF e % 2 = 1 THEN Mul256(r, base) ELSE r)
        /\ base' = Mul256(base, base) /\ e' = e \div 2
        /\ UNCHANGED <<fn, a, b, divVars>>
    BY <1>9 DEF ExpLoop, Halved
  <2>2. r \in Values(W) /\ r \in Nat /\ Wrap(r * EvmExp(base, e, W), W) = EvmExp(a, b, W)
    BY <1>6, <2>1 DEF ArithInv, ExpInv
  <2>3. /\ r' = (IF e % 2 = 1 THEN Wrap(r * base, W) ELSE r)
        /\ base' = Wrap(base * base, W)
    BY <1>2, <2>1, <2>2, MulExact
  <2>4. r * base \in Nat /\ base * base \in Nat
    BY <1>2, <2>2
  <2>5. Wrap(r * base, W) \in Values(W) /\ Wrap(base * base, W) \in Values(W)
    BY <1>3, <2>4
  <2>6. e \div 2 \in Values(W)
    <3>1. PICK N \in Nat : N = 2^W
      BY <1>2, PowNat
    <3>2. e < N
      BY <1>2, <3>1, ValuesAre
    <3>3. e \div 2 \in Nat /\ e \div 2 < N
      BY <1>2, <3>1, <3>2
    <3> QED BY <1>2, <3>1, <3>3, ValuesAre
  <2>7. Wrap((IF e % 2 = 1 THEN Wrap(r * base, W) ELSE r)
               * EvmExp(Wrap(base * base, W), e \div 2, W), W)
          = Wrap(r * EvmExp(base, e, W), W)
    <3>1. e \in Nat \ {0} /\ W \in Nat
      BY <1>2, <1>9
    <3> QED BY <1>2, <2>2, <3>1, ExpStep
  <2>8. Wrap(r' * EvmExp(base', e', W), W) = EvmExp(a, b, W)
    BY <2>1, <2>2, <2>3, <2>7, Zenon
  <2>9. r' \in Values(W) /\ base' \in Values(W) /\ e' \in Values(W)
    BY <2>1, <2>2, <2>3, <2>5, <2>6
  <2> QED BY <1>5, <2>1, <2>8, <2>9
<1>10. CASE ExpLoop /\ e = 0
  <2>1. /\ pc = "exp.LoopHeader" /\ pc' = "done" /\ res' = <<r>>
        /\ UNCHANGED <<fn, a, b, divVars, r, base, e>>
    BY <1>10 DEF ExpLoop, Finish
  <2>2. r \in Values(W) /\ Wrap(r * EvmExp(base, e, W), W) = EvmExp(a, b, W)
    BY <2>1 DEF ArithInv, ExpInv
  <2>3. EvmExp(base, e, W) = 1
    BY <1>2, <1>7, <1>10
  <2>4. Wrap(r * 1, W) = r
    BY <1>6, <2>2
  <2>5. res' = <<EvmExp(a, b, W)>>
    BY <2>1, <2>2, <2>3, <2>4, Zenon
  <2>6. res' = <<EvmExp(a, b, W)'>>
    BY <2>1, <2>5, Zenon
  <2>7. ResultsExact' /\ SafeMathExact'
    BY <1>1, <2>1, <2>6 DEF ResultsExact, SafeMathExact, SafeFns
  <2> QED BY <2>1, <2>7, Ends
<1> QED BY <1>8, <1>9, <1>10

\* The checked sum and difference.
LEMMA SafeSumSteps ==
  ASSUME ArithInv, SafeAdd \/ SafeSub
  PROVE  ArithInv'
<1>1. UNCHANGED <<fn, a, b, divVars, r, base, e>> /\ UNCHANGED <<a, b, fn>>
  BY DEF SafeAdd, SafeSub, Stay
<1>2. fn = pc /\ a \in Values(W) /\ b \in Values(W)
  <2>1. fn = pc /\ pc \in {"safeAdd", "safeSub"}
    BY DEF ArithInv, CallInv, SafeAdd, SafeSub, SafeFns
  <2>2. w = W
    BY <2>1 DEF ArithInv, CallInv
  <2> QED BY <2>1, <2>2, Zenon DEF ArithInv, CallInv
<1>3. PICK N \in Nat \ {0} : N = 2^W
  BY WordAssumption, PowNat
<1>4. /\ a \in Nat /\ a < N /\ b \in Nat /\ b < N
      /\ \A n : n \in Values(W) <=> n \in Nat /\ n < N
  BY <1>2, <1>3, ValuesAre, WordAssumption
<1>5. \A n : Wrap(n, W) = n % N
  BY <1>3, Zenon DEF Wrap
<1>6. CASE SafeAdd
  <2>1. pc = "safeAdd" /\ fn = "safeAdd"
    BY <1>2, <1>6 DEF SafeAdd
  <2>2. \/ (a + b) % N < a /\ pc' = "reverted"
        \/ ~((a + b) % N < a) /\ pc' = "done" /\ res' = <<(a + b) % N>>
    BY <1>5, <1>6, Zenon DEF SafeAdd, AddOverflows, Revert, Finish
  <2>3. CASE a + b < N
    <3>1. (a + b) % N = a + b
      BY <1>3, <1>4, <2>3
    <3>2. pc' = "done" /\ res' = <<a + b>>
      BY <1>4, <2>2, <3>1
    <3>3. a + b \in Values(W) /\ res'[1] = a + b
      BY <1>4, <2>3, <3>2
    <3>4. ResultsExact' /\ SafeMathExact'
      BY <1>1, <2>1, <3>2, <3>3 DEF ResultsExact, SafeMathExact
    <3> QED BY <1>1, <3>2, <3>4, Ends
  <2>4. CASE ~(a + b < N)
    <3>1. a + b = N * 1 + (a + b - N) /\ a + b - N \in 0..(N - 1)
      BY <1>3, <1>4, <2>4
    <3>2. (N * 1 + (a + b - N)) % N = (a + b - N) % N
      <4>1. 1 \in Int /\ a + b - N \in Int
        BY <3>1
      <4> QED BY <1>3, <4>1, ModAdd, Zenon
    <3>3. (a + b - N) % N = a + b - N
      BY <1>3, <3>1
    <3>4. (a + b) % N = a + b - N
      BY <3>1, <3>2, <3>3, Zenon
    <3>5. pc' = "reverted"
      BY <1>3, <1>4, <2>2, <3>4
    <3>6. a + b \notin Values(W)
      BY <1>4, <2>4
    <3>7. ResultsExact' /\ SafeMathExact'
      BY <1>1, <2>1, <3>5, <3>6 DEF ResultsExact, SafeMathExact
    <3> QED BY <1>1, <3>5, <3>7, Ends
  <2> QED BY <2>3, <2>4
<1>7. CASE SafeSub
  <2>1. pc = "safeSub" /\ fn = "safeSub"
    BY <1>2, <1>7 DEF SafeSub
  <2>2. \/ b > a /\ pc' = "reverted"
        \/ ~(b > a) /\ pc' = "done" /\ res' = <<(a - b) % N>>
    BY <1>5, <1>7, Zenon DEF SafeSub, Revert, Finish
  <2>3. CASE b > a
    <3>1. a - b \notin Values(W) /\ pc' = "reverted"
      BY <1>4, <2>2, <2>3
    <3>2. ResultsExact' /\ SafeMathExact'
      BY <1>1, <2>1, <3>1 DEF ResultsExact, SafeMathExact
    <3> QED BY <1>1, <3>1, <3>2, Ends
  <2>4. CASE ~(b > a)
    <3>1. (a - b) % N = a - b /\ a - b \in Nat /\ a - b < N
      BY <1>3, <1>4, <2>4
    <3>2. pc' = "done" /\ res' = <<a - b>>
      BY <2>2, <2>4, <3>1
    <3>3. a - b \in Values(W) /\ res'[1] = a - b
      BY <1>4, <3>1, <3>2
    <3>4. ResultsExact' /\ SafeMathExact'
      BY <1>1, <2>1, <3>2, <3>3 DEF ResultsExact, SafeMathExact
    <3> QED BY <1>1, <3>2, <3>4, Ends
  <2> QED BY <2>3, <2>4
<1> QED BY <1>6, <1>7

\* The checked product, before and after the division that checks it.
LEMMA SafeMulSteps ==
  ASSUME ArithInv, SafeMul \/ SafeMulCompare
  PROVE  ArithInv'
<1>1. fn = "safeMul" /\ w = W /\ a \in Values(W) /\ b \in Values(W)
  <2>1. fn = "safeMul"
    BY DEF ArithInv, CallInv, SafeMul, SafeMulCompare, SafeFns
  <2> QED BY <2>1, Zenon DEF ArithInv, CallInv
<1>2. a \in Nat /\ b \in Nat /\ 0 \in Values(W) /\ W \in Nat
  BY Registers, Widen
<1>3. Mul256(a, b) = Wrap(a * b, W) /\ Wrap(a * b, W) \in Values(W)
  <2>1. a * b \in Int
    BY <1>2
  <2>2. Wrap(a * b, W) \in Values(W)
    BY <1>2, <2>1, WrapFacts
  <2> QED BY <1>1, <2>2, MulExact
<1>4. CASE SafeMul /\ a = 0
  <2>1. pc' = "done" /\ res' = <<0>> /\ UNCHANGED <<fn, a, b, divVars, r, base, e>>
    BY <1>4 DEF SafeMul, Finish, Stay
  <2>2. a' * b' = 0 /\ res'[1] = 0
    BY <1>2, <1>4, <2>1
  <2>3. ResultsExact' /\ SafeMathExact'
    BY <1>1, <1>2, <2>1, <2>2 DEF ResultsExact, SafeMathExact
  <2> QED BY <2>1, <2>3, Ends
<1>5. CASE SafeMul /\ a # 0
  <2>1. /\ pc' = "Entry" /\ x' = Mul256(a, b) /\ y' = a
        /\ UNCHANGED <<fn, a, b, w, tmp, cnt, yLz, i0, i, yp, q, r, base, e>>
    BY <1>5 DEF SafeMul, Divide, Stay
  <2>2. x' = Wrap(a * b, W)' /\ y' = a'
    BY <1>3, <2>1, Zenon
  <2>3. Divided'
    BY <1>1, <1>5, <2>1, <2>2 DEF Divided
  <2>4. x' \in Values(w) /\ y' \in Values(w)
    BY <1>1, <1>3, <2>1, Zenon
  <2>5. fn \in DividingFns
    BY <1>1 DEF DividingFns
  <2> QED BY <2>1, <2>3, <2>4, <2>5, CallStep
<1>6. CASE SafeMulCompare
  <2>1. /\ pc = "safeMul.compare" /\ UNCHANGED <<fn, a, b, divVars, r, base, e>>
        /\ \/ q # b /\ pc' = "reverted"
           \/ q = b /\ pc' = "done" /\ res' = <<Mul256(a, b)>>
    BY <1>6 DEF SafeMulCompare, Revert, Finish, Stay
  <2>2. q = UDivOf(x, y, w) /\ x = Wrap(a * b, W) /\ y = a /\ a # 0
    BY <1>1, <2>1 DEF ArithInv, DivInv, Divided, ReturnPcs
  <2>3. q = Wrap(a * b, W) \div a
    BY <2>2 DEF UDivOf
  <2>4. q = b <=> a * b \in Values(W)
    BY <1>1, <2>2, <2>3, SafeMulTest
  <2>5. CASE q # b
    <3>1. a' * b' \notin Values(W) /\ pc' = "reverted"
      BY <2>1, <2>4, <2>5
    <3>2. ResultsExact' /\ SafeMathExact'
      BY <1>1, <2>1, <3>1 DEF ResultsExact, SafeMathExact
    <3> QED BY <2>1, <3>1, <3>2, Ends
  <2>6. CASE q = b
    <3>1. a * b \in Values(W) /\ pc' = "done"
      BY <2>1, <2>4, <2>6
    <3>2. Wrap(a * b, W) = a * b
      BY <1>2, <3>1, WrapFacts
    <3>3. res' = <<a' * b'>> /\ a' * b' \in Values(W)
      BY <1>3, <2>1, <2>6, <3>1, <3>2, Zenon
    <3>4. ResultsExact' /\ SafeMathExact'
      BY <1>1, <2>1, <3>1, <3>3 DEF ResultsExact, SafeMathExact
    <3> QED BY <2>1, <3>1, <3>4, Ends
  <2> QED BY <2>5, <2>6
<1> QED BY <1>4, <1>5, <1>6

\* The checked quotient.
LEMMA SafeUDivStep ==
  ASSUME ArithInv, SafeUDiv
  PROVE  ArithInv'
<1>1. fn = "safeUDiv" /\ w = W /\ a \in Values(W) /\ b \in Values(W)
  <2>1. fn = "safeUDiv"
    BY DEF ArithInv, CallInv, SafeUDiv, SafeFns
  <2> QED BY <2>1, Zenon DEF ArithInv, CallInv
<1>2. CASE b = 0
  <2>1. pc' = "reverted" /\ UNCHANGED <<fn, a, b, divVars, r, base, e>>
    BY <1>2 DEF SafeUDiv, Revert, Stay
  <2>2. 2^W \notin Values(W)
    <3>1. PICK N \in Nat : N = 2^W
      BY WordAssumption, PowNat
    <3>2. ~(N < N)
      BY <3>1
    <3> QED BY <3>1, <3>2, ValuesAre, WordAssumption
  <2>3. ResultsExact' /\ SafeMathExact'
    BY <1>1, <1>2, <2>1, <2>2 DEF ResultsExact, SafeMathExact
  <2> QED BY <2>1, <2>3, Ends
<1>3. CASE b # 0
  <2>1. /\ pc' = "Entry" /\ x' = a /\ y' = b
        /\ UNCHANGED <<fn, a, b, w, tmp, cnt, yLz, i0, i, yp, q, r, base, e>>
    BY <1>3 DEF SafeUDiv, Divide, Stay
  <2>2. Divided'
    BY <1>1, <1>3, <2>1 DEF Divided
  <2>3. x' \in Values(w) /\ y' \in Values(w)
    BY <1>1, <2>1, Zenon
  <2>4. fn \in DividingFns
    BY <1>1 DEF DividingFns
  <2> QED BY <2>1, <2>2, <2>3, <2>4, CallStep
<1> QED BY <1>2, <1>3

\* A function that is over, and a step of no function.
LEMMA StutterStep ==
  ASSUME ArithInv, UNCHANGED arithVars
  PROVE  ArithInv'
<1>1. UNCHANGED <<fn, a, b, pc, x, y, w, tmp, cnt, yLz, i0, i, yp, q, r, base, e, res>>
  BY DEF arithVars, divVars
<1>2. ArithTypeOK' /\ CallInv' /\ DivInv' /\ ExpInv'
  <2>1. ArithTypeOK'
    BY <1>1 DEF ArithInv, ArithTypeOK
  <2>2. CallInv'
    BY <1>1 DEF ArithInv, CallInv
  <2>3. ExpInv'
    BY <1>1 DEF ArithInv, ExpInv
  <2>4. (Divided => Divided') /\ (Counted => Counted') /\ (Spans => Spans')
    BY <1>1 DEF Divided, Counted, Spans
  <2>5. DivInv'
    BY <1>1, <2>4 DEF ArithInv, DivInv
  <2> QED BY <2>1, <2>2, <2>3, <2>5
<1>3. ResultsExact' /\ SafeMathExact'
  BY <1>1 DEF ArithInv, ResultsExact, SafeMathExact
<1> QED BY <1>2, <1>3 DEF ArithInv

\* Every call of a function starts with the invariant.
LEMMA ArithStarts == ArithInit => ArithInv
<1> SUFFICES ASSUME ArithInit PROVE ArithInv
  OBVIOUS
<1>1. fn \in AllFns /\ Operands[fn] \subseteq Values(W) /\ b \in Values(W)
  BY OperandsAssumption DEF ArithInit
<1>2. w = (IF fn = "urem512" THEN 2 * W ELSE W) /\ W \in Nat \ {0} /\ w \in Nat /\ W <= w
  BY WordAssumption DEF ArithInit
<1>3. a \in Values(w)
  <2>1. CASE fn = "urem512"
    <3>1. PICK m \in Values(W), n \in Values(W) : a = m * n
      BY <1>1, <2>1 DEF ArithInit
    <3>2. PICK N \in Nat \ {0} : N = 2^W /\ 2^(W + W) = N * N
      BY <1>2, PowNat, PowSum
    <3>3. m \in Nat /\ m < N /\ n \in Nat /\ n < N
      BY <1>2, <3>1, <3>2, ValuesAre
    <3>4. m * n < N * N /\ m * n \in Nat
      <4>1. m * n <= m * N /\ m * N < N * N
        BY <3>2, <3>3
      <4> QED BY <3>2, <3>3, <4>1
    <3>5. W + W = w
      BY <1>2, <2>1
    <3>6. a \in Nat /\ a < 2^w
      BY <3>1, <3>2, <3>4, <3>5, Zenon
    <3> QED BY <1>2, <3>6, ValuesAre
  <2>2. CASE fn # "urem512"
    BY <1>1, <1>2, <2>2 DEF ArithInit
  <2> QED BY <2>1, <2>2
<1>4. 0 \in Values(w) /\ 0 \in Values(W) /\ b \in Values(w)
  BY <1>1, <1>2, Widen
<1>5. ArithTypeOK
  BY <1>1, <1>2, <1>3, <1>4 DEF ArithInit, ArithTypeOK
<1>6. pc = First(fn) /\ x = a /\ y = b
  BY DEF ArithInit
<1>7. /\ pc = "Entry" \/ pc = fn
      /\ pc = "Entry" => fn \in {"udivrem", "urem512"}
  BY <1>1, <1>6 DEF First, AllFns, DivFns, SafeFns
<1>8. CallInv /\ ExpInv
  BY <1>1, <1>2, <1>3, <1>7 DEF CallInv, ExpInv, AllFns, DivFns, SafeFns, DividingFns, DivisionPcs
<1>9. DivInv
  BY <1>1, <1>6, <1>7 DEF DivInv, Divided, AllFns, DivFns, SafeFns, DivisionPcs, ReturnPcs
<1>10. ResultsExact /\ SafeMathExact
  BY <1>1, <1>7 DEF ResultsExact, SafeMathExact, AllFns, DivFns, SafeFns
<1> QED BY <1>5, <1>8, <1>9, <1>10 DEF ArithInv

\* The division invariant the runs check is part of it.
LEMMA InvDivides == ArithInv => DivisionInvariant
  BY DEF ArithInv, DivInv, DivisionInvariant, Subtracted

\* Every block keeps the invariant.
LEMMA ArithStep == ArithInv /\ [ArithNext]_arithVars => ArithInv'
BY EntryStep, CtlzStep, LoopYStep, LoopStep, ReturnStep, SignedSteps, MulStep, ExpSteps,
   SafeSumSteps, SafeMulSteps, SafeUDivStep, StutterStep DEF ArithNext, Over

\* For words of every width that has halves and quarters twice over, the emitted
\* functions return what the EVM defines on all operands but the divisor zero:
\* the division by shifting and subtracting, of one and of two words, its signed
\* form, the product by halves, the power by squaring, and the checked
\* operations, which revert exactly when the integer result is no word.  For the
\* divisor zero it states what the loops leave, a quotient of ones and the
\* dividend as remainder, against the EVM and Arith256.cpp:97, which say zero.
THEOREM FunctionsCorrect == ArithSpec => []FunctionsExact
<1>1. ArithInv => FunctionsExact
  BY InvDivides DEF ArithInv, FunctionsExact
<1> QED BY <1>1, ArithStarts, ArithStep, PTL DEF ArithSpec

(***************************************************************************)
(* The safe math pass.                                                     *)
(***************************************************************************)
SafeOps == {"ADD", "SUB", "MUL", "DIV"}

\* An instruction that fails yields no value.
LEMMA FailFacts ==
  ASSUME NEW op, NEW n, NEW kind, kind # "value", Fail(op, n, kind)
  PROVE  last'.kind # "value"
  BY DEF Fail, Report

\* Neither do the instructions that push an operand count as arithmetic.
LEMMA OtherSafe ==
  ASSUME last'.kind # "value" \/ last'.op \notin SafeOps
  PROVE  SafeResultsExact'
  BY DEF SafeResultsExact, Did, SafeOps

\* The checked instruction yields the integer result of its operands.
LEMMA ArithmeticSafe ==
  ASSUME NEW op \in SafeOps, NEW checked \in BOOLEAN, Arithmetic(op, checked)
  PROVE  SafeResultsExact'
<1> DEFINE width == Common
           n == Rhs(op)
           folded == Arg(1).const /\ RhsConst(op)
           zero == op = "DIV" /\ n = 0 /\ (width < W \/ folded)
           fits == Exact(op, V(1), n) \in Values(W)
           value(v) == Result(op, 2, Item(v, width, MixedLeaves, folded), Evm(op, V(1), V(2)))
<1>1. /\ checked \in IF folded THEN {FALSE} ELSE Checked
      /\ \/ Fail(op, 2, "cast") \/ Fail(op, 2, "ill-typed")
         \/ Fail(op, 2, "reverted") \/ Fail(op, 2, "undefined")
         \/ checked /\ value(Exact(op, V(1), n))
         \/ ~checked /\ value(Plain(op, V(1), n, width))
  BY DEF Arithmetic
<1>2. CASE \/ Fail(op, 2, "cast") \/ Fail(op, 2, "ill-typed")
           \/ Fail(op, 2, "reverted") \/ Fail(op, 2, "undefined")
  BY <1>2, FailFacts, OtherSafe
<1>3. CASE checked /\ value(Exact(op, V(1), n))
  <2>1. Report(op, 2, "value", Exact(op, V(1), n), Evm(op, V(1), V(2)))
    BY <1>3 DEF Result, Item
  <2>2. /\ last'.op = op /\ last'.got = Exact(op, V(1), n)
        /\ last'.args = [k \in 1..2 |-> Arg(k)]
    BY <2>1 DEF Report
  <2>3. last'.args[1] = Arg(1) /\ last'.args[2] = Arg(2)
    <3>1. [k \in 1..2 |-> Arg(k)][1] = Arg(1) /\ [k \in 1..2 |-> Arg(k)][2] = Arg(2)
      OBVIOUS
    <3> QED BY <2>2, <3>1
  <2>4. n = IF op = "MUL" /\ ~(Arg(1).w = Arg(2).w) THEN Arg(1).v ELSE Arg(2).v
    BY DEF Rhs, Same, V
  <2> HIDE DEF n
  <2>5. last'.got = Exact(last'.op, last'.args[1].v,
          IF last'.op = "MUL" /\ ~(last'.args[1].w = last'.args[2].w)
            THEN last'.args[1].v ELSE last'.args[2].v)
    BY <2>2, <2>3, <2>4 DEF V
  <2>6. (IF last'.op = "MUL" /\ ~(last'.args[1].w = last'.args[2].w)
           THEN last'.args[1].v ELSE last'.args[2].v) = Second.v'
    BY DEF Second, A, B, SameType
  <2> QED BY <2>5, <2>6 DEF SafeResultsExact, A, Exact
<1>4. CASE ~checked /\ value(Plain(op, V(1), n, width))
  <2>1. CASE ~folded
    <3>1. ~(safe /\ reaches)
      BY <1>1, <1>4, <2>1 DEF Checked, detectBug
    <3>2. safe' = safe /\ reaches' = reaches
      BY <1>4 DEF Result, Report
    <3> QED BY <3>1, <3>2 DEF SafeResultsExact
  <2>2. CASE folded
    <3>1. last'.op = op /\ last'.args = [k \in 1..2 |-> Arg(k)]
      BY <1>4 DEF Result, Report
    <3>2. last'.args[1] = Arg(1) /\ last'.args[2] = Arg(2)
      <4>1. [k \in 1..2 |-> Arg(k)][1] = Arg(1) /\ [k \in 1..2 |-> Arg(k)][2] = Arg(2)
        OBVIOUS
      <4> QED BY <3>1, <4>1
    <3>3. Folded'
      BY <2>2, <3>1, <3>2 DEF RhsConst, Same, Folded, Second, A, B, SameType
    <3> QED BY <3>3 DEF SafeResultsExact
  <2> QED BY <2>1, <2>2
<1> QED BY <1>1, <1>2, <1>3, <1>4

\* So does every other step keep it, since it reports no checked instruction.
LEMMA StepSafe == SafeResultsExact /\ [Next]_vars => SafeResultsExact'
<1> SUFFICES ASSUME SafeResultsExact, [Next]_vars PROVE SafeResultsExact'
  OBVIOUS
<1>1. ASSUME NEW it, Push(it) PROVE SafeResultsExact'
  <2>1. last'.op = "none"
    BY <1>1 DEF Push, Idle
  <2> QED BY <2>1, OtherSafe DEF SafeOps
<1>2. CASE \E n \in Inputs : PUSH(n) \/ CALLDATALOAD(n) \/ CALLVALUE(n) \/ SIZE(n)
  BY <1>1, <1>2 DEF PUSH, CALLDATALOAD, CALLVALUE, SIZE
<1>14. CASE CODESIZE
  BY <1>1, <1>14 DEF CODESIZE
<1>3. CASE \E op \in {"ADD", "SUB", "MUL", "DIV"}, checked \in BOOLEAN : Arithmetic(op, checked)
  BY <1>3, ArithmeticSafe DEF SafeOps
<1>4. ASSUME NEW op, op \notin SafeOps, NEW n, NEW kind, Fail(op, n, kind)
      PROVE  SafeResultsExact'
  <2>1. last'.op = op
    BY <1>4 DEF Fail, Report
  <2> QED BY <1>4, <2>1, OtherSafe
<1>5. ASSUME NEW op, op \notin SafeOps, NEW n, NEW it, NEW want, Result(op, n, it, want)
      PROVE  SafeResultsExact'
  <2>1. last'.op = op
    BY <1>5 DEF Result, Report
  <2> QED BY <1>5, <2>1, OtherSafe
<1>6. CASE \E op \in {"MOD", "SDIV", "SMOD"} : Division(op)
  BY <1>4, <1>5, <1>6 DEF Division, SafeOps
<1>7. CASE \E op \in {"ADDMOD", "MULMOD"} : Modular(op)
  BY <1>4, <1>5, <1>7 DEF Modular, SafeOps
<1>8. CASE EXP
  BY <1>4, <1>5, <1>8 DEF EXP, SafeOps
<1>9. CASE \E op \in {"LT", "GT", "SLT", "SGT", "EQ"} : Compare(op)
  BY <1>4, <1>5, <1>9 DEF Compare, SafeOps
<1>10. CASE \E op \in {"AND", "OR", "XOR"} : BitwiseOp(op)
  BY <1>4, <1>5, <1>10 DEF BitwiseOp, SafeOps
<1>11. CASE ISZERO \/ NOT \/ BYTE \/ SIGNEXTEND
  BY <1>4, <1>5, <1>11 DEF ISZERO, NOT, BYTE, SIGNEXTEND, SafeOps
<1>12. CASE \E op \in {"SHL", "SHR", "SAR"} : Shift(op)
  BY <1>4, <1>5, <1>12 DEF Shift, SafeOps
<1>13. CASE UNCHANGED vars
  BY <1>13 DEF vars, SafeResultsExact, Folded, Second, Did, A, B, SameType, Exact
<1> QED BY <1>2, <1>3, <1>6, <1>7, <1>8, <1>9, <1>10, <1>11, <1>12, <1>13, <1>14 DEF Next

\* With the safe math pass, a contract that stores or calls never goes on with
\* a wrapped result, whatever the widths of its operands and of a word, except
\* where the translator computes with constants before the pass runs.
THEOREM SafeMath == Spec => []SafeResultsExact
<1>1. Init => SafeResultsExact
  BY DEF Init, Idle, SafeResultsExact, Did
<1> QED BY <1>1, StepSafe, PTL DEF Spec

(***************************************************************************)
(* Narrow values.                                                          *)
(***************************************************************************)
\* The type of a value is one of the three, and a narrow one is the type of
\* everything the value is computed from.
ItemOK(it) == it.w \in Widths /\ (it.w < W => it.leaves = {it.w})

NarrowInv ==
  /\ \E S : stack \in Seq(S)
  /\ \A k \in 1..Len(stack) : ItemOK(stack[k])
  /\ last.kind = "ill-typed" => \E k \in DOMAIN last.args : last.args[k].w < W

\* No type is wider than a word.
LEMMA WidthBound == \A t \in Widths : t \in Nat /\ t <= W
  BY WidthAssumption DEF Widths

\* The operands of an instruction, and what is left below them.
LEMMA ArgFacts ==
  ASSUME NarrowInv, NEW n \in Nat, n <= Len(stack)
  PROVE  /\ \A k \in 1..n : ItemOK(Arg(k))
         /\ \E S : Below(n) \in Seq(S)
         /\ \A k \in 1..Len(Below(n)) : ItemOK(Below(n)[k])
<1> PICK S : stack \in Seq(S)
  BY DEF NarrowInv
<1> DEFINE len == Len(stack)
<1>1. len \in Nat /\ \A k \in 1..len : ItemOK(stack[k])
  BY DEF NarrowInv
<1>2. \A k \in 1..n : len + 1 - k \in 1..len
  BY <1>1
<1>3. \A k \in 1..n : ItemOK(Arg(k))
  BY <1>1, <1>2 DEF Arg
<1>4. ASSUME NEW s \in Seq(S), NEW m \in 0..Len(s)
      PROVE  /\ SubSeq(s, 1, m) \in Seq(S) /\ Len(SubSeq(s, 1, m)) = m
             /\ \A k \in 1..m : SubSeq(s, 1, m)[k] = s[k]
  OBVIOUS
<1>5. len - n \in 0..len
  BY <1>1
<1>6. /\ Below(n) \in Seq(S) /\ Len(Below(n)) = len - n
      /\ \A k \in 1..(len - n) : Below(n)[k] = stack[k]
  BY <1>4, <1>5 DEF Below
<1>7. \A k \in 1..(len - n) : k \in 1..len
  BY <1>1
<1> QED BY <1>1, <1>3, <1>6, <1>7

\* Pushing a value.
LEMMA AppendFacts ==
  ASSUME NEW s, \E S : s \in Seq(S), \A k \in 1..Len(s) : ItemOK(s[k]),
         NEW it, ItemOK(it)
  PROVE  /\ \E S : Append(s, it) \in Seq(S)
         /\ \A k \in 1..Len(Append(s, it)) : ItemOK(Append(s, it)[k])
<1> PICK S : s \in Seq(S)
  OBVIOUS
<1> DEFINE T == S \union {it}
<1>1. s \in Seq(T) /\ it \in T
  OBVIOUS
<1> HIDE DEF T
<1>2. /\ Append(s, it) \in Seq(T) /\ Len(Append(s, it)) = Len(s) + 1
      /\ Append(s, it)[Len(s) + 1] = it
      /\ \A k \in 1..Len(s) : Append(s, it)[k] = s[k]
  BY <1>1
<1>3. Len(s) \in Nat
  BY <1>1
<1>4. \A k \in 1..(Len(s) + 1) : k \in 1..Len(s) \/ k = Len(s) + 1
  BY <1>3
<1> QED BY <1>2, <1>4

\* An instruction that yields a value of a sound type.
LEMMA ResultNarrow ==
  ASSUME NarrowInv, NEW op, NEW n \in Nat, n <= Len(stack), NEW it, ItemOK(it), NEW want,
         Result(op, n, it, want)
  PROVE  NarrowInv'
<1>1. stack' = Append(Below(n), it) /\ last'.kind = "value"
  BY DEF Result, Report
<1> DEFINE s == Below(n)
<1>2. (\E S : s \in Seq(S)) /\ \A k \in 1..Len(s) : ItemOK(s[k])
  BY ArgFacts
<1> HIDE DEF s
<1>3. /\ \E S : Append(s, it) \in Seq(S)
      /\ \A k \in 1..Len(Append(s, it)) : ItemOK(Append(s, it)[k])
  BY <1>2, AppendFacts
<1>4. stack' = Append(s, it)
  BY <1>1 DEF s
<1>5. (\E S : stack' \in Seq(S)) /\ \A k \in 1..Len(stack') : ItemOK(stack'[k])
  BY <1>3, <1>4
<1> QED BY <1>1, <1>5 DEF NarrowInv, ItemOK

\* An instruction that fails, and is ill-typed only with a narrow operand.
LEMMA FailNarrow ==
  ASSUME NarrowInv, NEW op, NEW n \in Nat, n <= Len(stack), NEW kind, Fail(op, n, kind),
         kind = "ill-typed" => \E k \in 1..n : Arg(k).w < W
  PROVE  NarrowInv'
<1>1. /\ stack' = Below(n) /\ last'.kind = kind
      /\ last'.args = [k \in 1..n |-> Arg(k)]
  BY DEF Fail, Report
<1>2. (\E S : stack' \in Seq(S)) /\ \A k \in 1..Len(stack') : ItemOK(stack'[k])
  BY <1>1, ArgFacts
<1>3. last'.kind = "ill-typed" => \E k \in DOMAIN last'.args : last'.args[k].w < W
  BY <1>1
<1> QED BY <1>2, <1>3 DEF NarrowInv, ItemOK

\* The type two operands are extended to is sound for their common leaves.
LEMMA MixedOK ==
  ASSUME NarrowInv, 2 <= Len(stack)
  PROVE  /\ \A val, const : ItemOK(Item(val, Common, MixedLeaves, const))
         /\ Common < W => \E k \in 1..2 : Arg(k).w < W
         /\ ~Same => \E k \in 1..2 : Arg(k).w < W
         /\ Arg(1).w \in Widths /\ Arg(2).w \in Widths
<1>1. ItemOK(Arg(1)) /\ ItemOK(Arg(2))
  BY ArgFacts
<1>2. /\ Arg(1).w \in Nat /\ Arg(1).w <= W /\ Arg(2).w \in Nat /\ Arg(2).w <= W
      /\ W \in Widths /\ W \in Nat
  BY <1>1, WidthBound DEF ItemOK, Widths
<1>3. Leaves(2) = Arg(1).leaves \union Arg(2).leaves
  <2>1. 1..2 = {1, 2}
    OBVIOUS
  <2> QED BY <2>1 DEF Leaves
<1>4. Common \in Widths /\ (Common < W => MixedLeaves = {Common})
  <2>1. CASE Same
    BY <1>1, <1>2, <1>3, <2>1 DEF Common, Same, MixedLeaves, ItemOK
  <2>2. CASE ~Same
    BY <1>2, <2>2 DEF Common
  <2> QED BY <2>1, <2>2
<1>5. 1 \in 1..2 /\ 2 \in 1..2
  OBVIOUS
<1>6. Common < W => Arg(1).w < W
  BY <1>2 DEF Common
<1>7. ~Same => Arg(1).w < W \/ Arg(2).w < W
  BY <1>2 DEF Same
<1> QED BY <1>1, <1>4, <1>5, <1>6, <1>7 DEF Item, ItemOK

\* A word is a sound type for anything.
LEMMA WordOK == \A val, leaves, const : ItemOK(Item(val, W, leaves, const))
<1>1. W \in Widths /\ ~(W < W)
  BY WidthAssumption DEF Widths
<1> QED BY <1>1 DEF ItemOK, Item

\* The arithmetic instructions, by the type their operands are extended to.
LEMMA ArithmeticNarrow ==
  ASSUME NarrowInv, NEW op, NEW checked, Arithmetic(op, checked)
  PROVE  NarrowInv'
<1> DEFINE folded == Arg(1).const /\ RhsConst(op)
           value(val) == Result(op, 2, Item(val, Common, MixedLeaves, folded), Evm(op, V(1), V(2)))
<1>1. /\ 2 <= Len(stack)
      /\ \/ Fail(op, 2, "cast") \/ (Common < W /\ Fail(op, 2, "ill-typed"))
         \/ Fail(op, 2, "reverted") \/ Fail(op, 2, "undefined")
         \/ value(Exact(op, V(1), Rhs(op)))
         \/ value(Plain(op, V(1), Rhs(op), Common))
  <2>1. Len(stack) \in Nat
    BY DEF NarrowInv
  <2>2. 2 <= Len(stack)
    BY <2>1 DEF Arithmetic
  <2> QED BY <2>2, Zenon DEF Arithmetic
<1>2. \A val : ItemOK(Item(val, Common, MixedLeaves, folded))
  BY <1>1, MixedOK
<1>3. Common < W => \E k \in 1..2 : Arg(k).w < W
  BY <1>1, MixedOK
<1>4. ASSUME NEW val, value(val) PROVE NarrowInv'
  BY <1>1, <1>2, <1>4, ResultNarrow
<1>5. CASE \/ Fail(op, 2, "cast") \/ (Common < W /\ Fail(op, 2, "ill-typed"))
           \/ Fail(op, 2, "reverted") \/ Fail(op, 2, "undefined")
  BY <1>1, <1>3, <1>5, FailNarrow
<1> QED BY <1>1, <1>4, <1>5

\* The divisions and the modular instructions.
LEMMA DivisionNarrow ==
  ASSUME NarrowInv, NEW op, Division(op) \/ Modular(op)
  PROVE  NarrowInv'
<1>0. Len(stack) \in Nat
  BY DEF NarrowInv
<1>1. CASE Division(op)
  <2> DEFINE value(val) == Result(op, 2, Item(val, Common, MixedLeaves, Constants(2)),
                                  DivideEvm(op, V(1), V(2)))
  <2>1. /\ 2 <= Len(stack)
        /\ \/ Fail(op, 2, "cast") \/ Fail(op, 2, "undefined")
           \/ value(DivideNarrow(op, V(1), V(2), Common))
           \/ value(DivideWord(op, V(1), V(2)))
    BY <1>0, <1>1 DEF Division
  <2>2. \A val : ItemOK(Item(val, Common, MixedLeaves, Constants(2)))
    BY <2>1, MixedOK
  <2>3. ASSUME NEW val, value(val) PROVE NarrowInv'
    BY <2>1, <2>2, <2>3, ResultNarrow
  <2>4. CASE Fail(op, 2, "cast") \/ Fail(op, 2, "undefined")
    BY <2>1, <2>4, FailNarrow
  <2> QED BY <2>1, <2>3, <2>4
<1>2. CASE Modular(op)
  <2>1. /\ 3 <= Len(stack)
        /\ \/ Fail(op, 3, "cast") \/ (Arg(3).w < W /\ Fail(op, 3, "ill-typed"))
           \/ \E val, want : Result(op, 3, Item(val, W, {W}, Constants(3)), want)
    <3>1. 3 <= Len(stack)
      BY <1>0, <1>2 DEF Modular
    <3> QED BY <1>2, <3>1, Zenon DEF Modular
  <2>2. 3 \in 1..3
    OBVIOUS
  <2>3. CASE Fail(op, 3, "cast") \/ (Arg(3).w < W /\ Fail(op, 3, "ill-typed"))
    BY <2>1, <2>2, <2>3, FailNarrow
  <2>4. CASE \E val, want : Result(op, 3, Item(val, W, {W}, Constants(3)), want)
    BY <2>1, <2>4, ResultNarrow, WordOK
  <2> QED BY <2>1, <2>3, <2>4
<1> QED BY <1>1, <1>2

\* The instructions that pop two values and yield a word, or are ill-typed.
LEMMA PairNarrow ==
  ASSUME NarrowInv, NEW op,
         EXP \/ Compare(op) \/ BitwiseOp(op) \/ BYTE \/ SIGNEXTEND \/ Shift(op)
  PROVE  NarrowInv'
<1>0. Len(stack) \in Nat
  BY DEF NarrowInv
<1>1. 2 <= Len(stack)
  BY <1>0 DEF EXP, Compare, BitwiseOp, BYTE, SIGNEXTEND, Shift
<1>2. /\ Common < W => \E k \in 1..2 : Arg(k).w < W
      /\ ~Same => \E k \in 1..2 : Arg(k).w < W
      /\ Arg(1).w < W \/ Arg(2).w < W => \E k \in 1..2 : Arg(k).w < W
      /\ \A val, const : ItemOK(Item(val, Common, MixedLeaves, const))
      /\ Arg(1).w # W \/ Arg(2).w # W => Arg(1).w < W \/ Arg(2).w < W
  <2>1. 1 \in 1..2 /\ 2 \in 1..2
    OBVIOUS
  <2>2. Arg(1).w \in Nat /\ Arg(1).w <= W /\ Arg(2).w \in Nat /\ Arg(2).w <= W /\ W \in Nat
    BY <1>1, MixedOK, WidthBound DEF Widths
  <2>3. Arg(1).w # W \/ Arg(2).w # W => Arg(1).w < W \/ Arg(2).w < W
    BY <2>2
  <2> QED BY <1>1, <2>1, <2>3, MixedOK
<1>3. ASSUME NEW o, NEW kind, Fail(o, 2, kind),
             kind = "ill-typed" => Common < W \/ ~Same \/ Arg(1).w < W \/ Arg(2).w < W
      PROVE  NarrowInv'
  BY <1>1, <1>2, <1>3, FailNarrow
<1>4. ASSUME NEW o, NEW it, ItemOK(it), NEW want, Result(o, 2, it, want)
      PROVE  NarrowInv'
  BY <1>1, <1>4, ResultNarrow
<1>5. CASE EXP
  BY <1>2, <1>3, <1>4, <1>5, WordOK DEF EXP, Words2
<1>6. CASE Compare(op)
  BY <1>3, <1>4, <1>6, WordOK DEF Compare, FlagWidth
<1>7. CASE BitwiseOp(op)
  BY <1>2, <1>3, <1>4, <1>7 DEF BitwiseOp
<1>8. CASE BYTE \/ SIGNEXTEND
  BY <1>2, <1>3, <1>4, <1>8, WordOK DEF BYTE, SIGNEXTEND, Words2
<1>9. CASE Shift(op)
  <2>1. Same => Arg(2).w = Common /\ Leaves(2) = MixedLeaves
    BY DEF Same, Common, MixedLeaves
  <2> QED BY <1>2, <1>3, <1>4, <1>9, <2>1 DEF Shift
<1> QED BY <1>5, <1>6, <1>7, <1>8, <1>9

\* The instructions that pop one value.
LEMMA SingleNarrow ==
  ASSUME NarrowInv, ISZERO \/ NOT
  PROVE  NarrowInv'
<1>0. Len(stack) \in Nat
  BY DEF NarrowInv
<1>1. 1 <= Len(stack)
  BY <1>0 DEF ISZERO, NOT
<1>2. ItemOK(Arg(1))
  BY <1>1, ArgFacts
<1>3. Leaves(1) = Arg(1).leaves
  <2>1. 1..1 = {1}
    OBVIOUS
  <2> QED BY <2>1 DEF Leaves
<1>4. \A val, const : ItemOK(Item(val, Arg(1).w, Leaves(1), const))
  BY <1>2, <1>3 DEF ItemOK, Item
<1>5. ASSUME NEW o, Fail(o, 1, "cast") PROVE NarrowInv'
  BY <1>1, <1>5, FailNarrow
<1>6. ASSUME NEW o, NEW it, ItemOK(it), NEW want, Result(o, 1, it, want)
      PROVE  NarrowInv'
  BY <1>1, <1>6, ResultNarrow
<1> QED BY <1>4, <1>5, <1>6, WordOK DEF ISZERO, NOT

\* Every step keeps the types sound.
LEMMA StepNarrow == NarrowInv /\ [Next]_vars => NarrowInv'
<1> SUFFICES ASSUME NarrowInv, [Next]_vars PROVE NarrowInv'
  OBVIOUS
<1>1. ASSUME NEW it, ItemOK(it), Push(it) PROVE NarrowInv'
  <2>1. stack' = Append(stack, it) /\ last'.kind = "value"
    BY <1>1 DEF Push, Idle
  <2>2. (\E S : stack \in Seq(S)) /\ \A k \in 1..Len(stack) : ItemOK(stack[k])
    BY DEF NarrowInv
  <2>3. /\ \E S : Append(stack, it) \in Seq(S)
        /\ \A k \in 1..Len(Append(stack, it)) : ItemOK(Append(stack, it)[k])
    BY <1>1, <2>2, AppendFacts
  <2>4. (\E S : stack' \in Seq(S)) /\ \A k \in 1..Len(stack') : ItemOK(stack'[k])
    BY <2>1, <2>3
  <2> QED BY <2>1, <2>4 DEF NarrowInv, ItemOK
<1>8. \A val, const : /\ ItemOK(Item(val, Half, {Half}, const))
                        /\ ItemOK(Item(val, Small, {Small}, const))
  BY DEF ItemOK, Item, Widths
<1>2. CASE \E n \in Inputs : PUSH(n) \/ CALLDATALOAD(n) \/ CALLVALUE(n) \/ SIZE(n)
  BY <1>1, <1>2, <1>8, WordOK DEF PUSH, CALLDATALOAD, CALLVALUE, SIZE, Literal
<1>9. CASE CODESIZE
  BY <1>1, <1>8, <1>9 DEF CODESIZE, Literal
<1>3. CASE \E op \in {"ADD", "SUB", "MUL", "DIV"}, checked \in BOOLEAN : Arithmetic(op, checked)
  BY <1>3, ArithmeticNarrow
<1>4. CASE (\E op \in {"MOD", "SDIV", "SMOD"} : Division(op))
           \/ \E op \in {"ADDMOD", "MULMOD"} : Modular(op)
  BY <1>4, DivisionNarrow
<1>5. CASE \/ EXP \/ \E op \in {"LT", "GT", "SLT", "SGT", "EQ"} : Compare(op)
           \/ \E op \in {"AND", "OR", "XOR"} : BitwiseOp(op)
           \/ BYTE \/ SIGNEXTEND \/ \E op \in {"SHL", "SHR", "SAR"} : Shift(op)
  BY <1>5, PairNarrow
<1>6. CASE ISZERO \/ NOT
  BY <1>6, SingleNarrow
<1>7. CASE UNCHANGED vars
  BY <1>7 DEF vars, NarrowInv, ItemOK
<1> QED BY <1>2, <1>3, <1>4, <1>5, <1>6, <1>7, <1>9 DEF Next

\* Along every history of instructions a value is narrower than a word only if
\* everything it is computed from has its type, and a translation that LLVM
\* would refuse has an operand that never met a word.
THEOREM NarrowTypes == Spec => []NarrowHistory
<1>1. Init => NarrowInv
  <2> SUFFICES ASSUME Init PROVE NarrowInv
    OBVIOUS
  <2>1. stack = << >> /\ last.kind = "value"
    BY DEF Init, Idle
  <2>2. stack \in Seq({})
    BY <2>1
  <2> QED BY <2>1, <2>2 DEF NarrowInv
<1>2. NarrowInv => NarrowHistory
  <2> SUFFICES ASSUME NarrowInv PROVE NarrowHistory
    OBVIOUS
  <2> PICK S : stack \in Seq(S)
    BY DEF NarrowInv
  <2>1. DOMAIN stack = 1..Len(stack)
    OBVIOUS
  <2> QED BY <2>1 DEF NarrowInv, NarrowHistory, ItemOK
<1> QED BY <1>1, <1>2, StepNarrow, PTL DEF Spec

(***************************************************************************)
(* Sums of bits.  As for powers, that the recursive function exists is     *)
(* part of the proof.                                                      *)
(***************************************************************************)
\* The function FromBits picks, up to n.
IsSum(f, bits, n) ==
  f = [k \in 0..n |-> IF k = 0 THEN 0 ELSE f[k - 1] + 2^(k - 1) * bits[k - 1]]

\* Its values.
SumFrom(f, bits, n) ==
  f[0] = 0 /\ \A k \in 1..n : f[k] = f[k - 1] + 2^(k - 1) * bits[k - 1]

\* The function has them.
LEMMA SumsAre ==
  ASSUME NEW f, NEW bits, NEW n \in Nat, IsSum(f, bits, n)
  PROVE  SumFrom(f, bits, n)
<1> DEFINE g == [k \in 0..n |-> IF k = 0 THEN 0 ELSE f[k - 1] + 2^(k - 1) * bits[k - 1]]
<1>1. f = g
  BY DEF IsSum
<1>2. g[0] = 0 /\ \A k \in 1..n : g[k] = f[k - 1] + 2^(k - 1) * bits[k - 1]
  BY SMT
<1> QED BY <1>1, <1>2, Zenon DEF SumFrom

\* There is one for every number of bits.
LEMMA SumsExist ==
  ASSUME NEW bits
  PROVE  \A n \in Nat : \E f : IsSum(f, bits, n)
<1> DEFINE S == {n \in Nat : \E f : IsSum(f, bits, n)}
<1>1. 0 \in S
  <2> DEFINE f == [k \in 0..0 |-> 0]
  <2>1. f = [k \in 0..0 |-> IF k = 0 THEN 0 ELSE f[k - 1] + 2^(k - 1) * bits[k - 1]]
    BY SMT
  <2>2. IsSum(f, bits, 0)
    BY <2>1 DEF IsSum
  <2> QED BY <2>2
<1>2. ASSUME NEW n \in S PROVE n + 1 \in S
  <2>1. n \in Nat /\ n + 1 \in Nat
    OBVIOUS
  <2>2. PICK f : IsSum(f, bits, n)
    OBVIOUS
  <2> DEFINE term(c, k) == c + 2^k * bits[k]
             g == [k \in 0..(n + 1) |-> IF k = n + 1 THEN term(f[n], n) ELSE f[k]]
             h == [k \in 0..(n + 1) |-> IF k = 0 THEN 0 ELSE term(g[k - 1], k - 1)]
  <2>3. f[0] = 0 /\ \A k \in 1..n : f[k] = term(f[k - 1], k - 1)
    <3>1. SumFrom(f, bits, n)
      BY <2>1, <2>2, SumsAre
    <3> QED BY <3>1, Zenon DEF SumFrom
  <2>4. ASSUME NEW k \in 0..(n + 1) PROVE g[k] = h[k]
    <3> HIDE DEF term
    <3>1. CASE k = 0
      BY <2>1, <2>3, <3>1
    <3>2. CASE k \in 1..n
      <4>1. k - 1 \in 0..(n + 1) /\ k - 1 # n + 1 /\ k # n + 1 /\ k # 0
        BY <2>1, <3>2
      <4>2. g[k] = f[k] /\ g[k - 1] = f[k - 1] /\ h[k] = term(g[k - 1], k - 1)
        BY <4>1
      <4> QED BY <2>3, <3>2, <4>2, Zenon
    <3>3. CASE k = n + 1
      <4>1. n \in 0..(n + 1) /\ n # n + 1 /\ k # 0 /\ k - 1 = n
        BY <2>1, <3>3
      <4>2. g[k] = term(f[n], n) /\ g[n] = f[n]
        BY <3>3, <4>1
      <4>3. h[k] = term(g[k - 1], k - 1)
        BY <4>1
      <4> QED BY <4>1, <4>2, <4>3, Zenon
    <3> QED BY <2>1, <3>1, <3>2, <3>3
  <2>5. g = h
    BY <2>4
  <2>6. IsSum(g, bits, n + 1)
    BY <2>5, Zenon DEF IsSum
  <2> QED BY <2>1, <2>6
<1>3. S = Nat
  <2>1. S \in SUBSET Nat
    OBVIOUS
  <2> HIDE DEF S
  <2> QED BY <1>1, <1>2, <2>1, Induct
<1> QED BY <1>3

\* The lowest k bits are the same.
SameBits(c, d, k) == \A j \in 0..(k - 1) : c[j] = d[j]

\* Two agree as far as both go, if their bits do.
LEMMA SumsAgree ==
  ASSUME NEW f, NEW g, NEW c, NEW d, NEW n \in Nat, NEW l \in Nat,
         IsSum(f, c, n), IsSum(g, d, l)
  PROVE  \A k \in Nat : k <= n /\ k <= l /\ SameBits(c, d, k) => f[k] = g[k]
<1> DEFINE S == {k \in Nat : k <= n /\ k <= l /\ SameBits(c, d, k) => f[k] = g[k]}
<1>1. /\ f[0] = 0 /\ \A k \in 1..n : f[k] = f[k - 1] + 2^(k - 1) * c[k - 1]
      /\ g[0] = 0 /\ \A k \in 1..l : g[k] = g[k - 1] + 2^(k - 1) * d[k - 1]
  BY SumsAre DEF SumFrom
<1>2. 0 \in S
  BY <1>1
<1>3. ASSUME NEW k \in S PROVE k + 1 \in S
  <2> SUFFICES ASSUME k + 1 <= n, k + 1 <= l, SameBits(c, d, k + 1)
               PROVE  f[k + 1] = g[k + 1]
    OBVIOUS
  <2>1. k \in Nat /\ c[k] = d[k] /\ SameBits(c, d, k)
    BY DEF SameBits
  <2>2. f[k] = g[k]
    BY <2>1
  <2>3. k + 1 \in 1..n /\ k + 1 \in 1..l /\ (k + 1) - 1 = k
    BY <2>1
  <2> QED BY <1>1, <2>1, <2>2, <2>3, Zenon
<1>4. S = Nat
  <2>1. S \in SUBSET Nat
    OBVIOUS
  <2> HIDE DEF S
  <2> QED BY <1>2, <1>3, <2>1, Induct
<1> QED BY <1>4

\* FromBits is the last value of any of them.
LEMMA FromBitsIs ==
  ASSUME NEW f, NEW bits, NEW n \in Nat, IsSum(f, bits, n)
  PROVE  FromBits(n, bits) = f[n]
<1> DEFINE g == CHOOSE h : IsSum(h, bits, n)
<1>1. IsSum(g, bits, n)
  OBVIOUS
<1>2. FromBits(n, bits) = g[n]
  BY DEF FromBits, IsSum
<1> HIDE DEF g
<1>3. n <= n /\ SameBits(bits, bits, n)
  BY DEF SameBits
<1>4. f[n] = g[n]
  BY <1>1, <1>3, SumsAgree
<1> QED BY <1>2, <1>4

\* One bit more, and the bits it depends on.
LEMMA FromBitsNext ==
  /\ \A bits : FromBits(0, bits) = 0
  /\ \A bits : \A n \in Nat : FromBits(n + 1, bits) = FromBits(n, bits) + 2^n * bits[n]
  /\ \A c, d : \A n \in Nat :
       SameBits(c, d, n) => FromBits(n, c) = FromBits(n, d)
<1>1. ASSUME NEW c, NEW d, NEW n \in Nat, SameBits(c, d, n)
      PROVE  FromBits(n, c) = FromBits(n, d)
  <2>1. PICK f : IsSum(f, c, n)
    BY SumsExist
  <2>2. PICK g : IsSum(g, d, n)
    BY SumsExist
  <2>3. n <= n
    OBVIOUS
  <2>4. f[n] = g[n]
    BY <1>1, <2>1, <2>2, <2>3, SumsAgree
  <2> QED BY <2>1, <2>2, <2>4, FromBitsIs
<1>2. ASSUME NEW bits PROVE FromBits(0, bits) = 0
  <2>1. 0 \in Nat
    OBVIOUS
  <2>2. PICK f : IsSum(f, bits, 0)
    BY <2>1, SumsExist
  <2>3. SumFrom(f, bits, 0)
    BY <2>1, <2>2, SumsAre
  <2>4. f[0] = 0
    BY <2>3, Zenon DEF SumFrom
  <2> QED BY <2>1, <2>2, <2>4, FromBitsIs, Zenon
<1>3. ASSUME NEW bits, NEW n \in Nat
      PROVE  FromBits(n + 1, bits) = FromBits(n, bits) + 2^n * bits[n]
  <2>1. n + 1 \in Nat /\ n <= n /\ n <= n + 1 /\ n + 1 \in 1..(n + 1) /\ (n + 1) - 1 = n
        /\ SameBits(bits, bits, n)
    BY DEF SameBits
  <2>2. PICK f : IsSum(f, bits, n + 1)
    BY <2>1, SumsExist
  <2>3. PICK g : IsSum(g, bits, n)
    BY SumsExist
  <2>4. SumFrom(f, bits, n + 1)
    BY <2>1, <2>2, SumsAre, Zenon
  <2>5. f[n + 1] = f[n] + 2^n * bits[n]
    BY <2>1, <2>4, Zenon DEF SumFrom
  <2>6. f[n] = g[n]
    BY <2>1, <2>2, <2>3, SumsAgree
  <2>7. FromBits(n + 1, bits) = f[n + 1] /\ FromBits(n, bits) = g[n]
    BY <2>1, <2>2, <2>3, FromBitsIs, Zenon
  <2> QED BY <2>5, <2>6, <2>7, Zenon
<1> QED BY <1>1, <1>2, <1>3

\* Quotient and remainder of any integer.
LEMMA IntDivMod ==
  ASSUME NEW n \in Int, NEW d \in Nat \ {0}
  PROVE  /\ n \div d \in Int /\ n % d \in Nat /\ n % d < d
         /\ n = d * (n \div d) + (n % d)
  OBVIOUS

(***************************************************************************)
(* Types of different widths.                                              *)
(***************************************************************************)
\* A wider type has at least twice the values.
LEMMA PowTwice == \A m, n \in Nat : m < n => 2 * 2^m <= 2^n
<1> SUFFICES ASSUME NEW m \in Nat, NEW n \in Nat, m < n PROVE 2 * 2^m <= 2^n
  OBVIOUS
<1>1. m + 1 \in Nat /\ m + 1 <= n
  OBVIOUS
<1>2. 2^(m + 1) <= 2^n
  BY <1>1, PowMono
<1>3. 2^(m + 1) = 2 * 2^m
  BY PowNext
<1> QED BY <1>2, <1>3, Zenon

\* The values of a type are values of every wider one.
LEMMA ValuesGrow == \A m, n \in Nat : m <= n => Values(m) \subseteq Values(n)
<1> SUFFICES ASSUME NEW m \in Nat, NEW n \in Nat, m <= n, NEW val \in Values(m)
             PROVE  val \in Values(n)
  OBVIOUS
<1>1. PICK p \in Nat : p = 2^m
  BY PowNat
<1>2. PICK g \in Nat : g = 2^n
  BY PowNat
<1>3. val \in Nat /\ val < p
  BY <1>1, ValuesAre
<1>4. p <= g
  BY <1>1, <1>2, PowMono
<1>5. val < g
  BY <1>3, <1>4
<1> QED BY <1>2, <1>3, <1>5, ValuesAre

\* A type and the powers of two that bound its values.
LEMMA TypePowers ==
  ASSUME NEW t \in Widths
  PROVE  /\ t \in Nat /\ t # 0 /\ t - 1 \in Nat /\ t <= W /\ W \in Nat
         /\ \E h \in Nat \ {0}, N \in Nat \ {0} :
              /\ h = 2^(t - 1) /\ 2^t = 2 * h /\ N = 2^W
              /\ t < W => 2 * (2 * h) <= N
              /\ 2 * h <= N
<1>1. t \in Nat /\ t # 0 /\ t - 1 \in Nat /\ t <= W /\ W \in Nat /\ (t - 1) + 1 = t
  BY WidthAssumption, WidthBound DEF Widths
<1>2. PICK h \in Nat \ {0} : h = 2^(t - 1)
  BY <1>1, PowNat
<1>3. PICK N \in Nat \ {0} : N = 2^W
  BY <1>1, PowNat
<1>4. 2^t = 2 * h
  BY <1>1, <1>2, PowNext, Zenon
<1>5. t < W => 2 * (2 * h) <= N
  BY <1>1, <1>3, <1>4, PowTwice, Zenon
<1>6. 2 * h <= N
  BY <1>1, <1>3, <1>4, PowMono, Zenon
<1> QED BY <1>1, <1>2, <1>3, <1>4, <1>5, <1>6

\* A result computed in t bits is the one computed in more, exactly if that
\* one fits t bits.
LEMMA NarrowWrap ==
  ASSUME NEW t \in Nat, NEW k \in Nat, t <= k, NEW z \in Int
  PROVE  Wrap(z, t) = Wrap(z, k) <=> Wrap(z, k) \in Values(t)
<1>1. PICK p \in Nat \ {0} : p = 2^t
  BY PowNat
<1>2. PICK N \in Nat \ {0} : N = 2^k
  BY PowNat
<1>3. PICK g \in Nat : N = p * g
  <2>1. PICK h \in Nat : k = t + h
    <3>1. k - t \in Nat /\ k = t + (k - t)
      OBVIOUS
    <3> QED BY <3>1
  <2>2. 2^(t + h) = 2^t * 2^h
    BY PowSum, Zenon
  <2>3. PICK g \in Nat : g = 2^h
    BY PowNat, Zenon
  <2> QED BY <1>1, <1>2, <2>1, <2>2, <2>3, Zenon
<1>4. PICK d \in Int, c \in Nat : z = N * d + c /\ c = z % N
  BY <1>2
<1>5. z = p * (g * d) + c
  <2>1. \A o, s \in Nat, u \in Int : (o * s) * u = o * (s * u)
    OBVIOUS
  <2>2. N * d = p * (g * d)
    BY <1>1, <1>3, <2>1
  <2> QED BY <1>4, <2>2
<1>6. z % p = c % p
  <2>1. g * d \in Int /\ c \in Int
    BY <1>3
  <2>2. (p * (g * d) + c) % p = c % p
    BY <1>1, <2>1, ModAdd, Zenon
  <2> QED BY <1>5, <2>2
<1>7. c % p = c <=> c < p
  BY <1>1, <1>4
<1>8. Wrap(z, t) = c % p /\ Wrap(z, k) = c
  BY <1>1, <1>2, <1>4, <1>6 DEF Wrap
<1>9. c \in Values(t) <=> c < p
  BY <1>1, <1>4, ValuesAre
<1> QED BY <1>7, <1>8, <1>9, Zenon

\* Two results agree exactly if their difference wraps to zero.
LEMMA WrapEqual ==
  ASSUME NEW k \in Nat, NEW m \in Int, NEW n \in Int
  PROVE  Wrap(m, k) = Wrap(n, k) <=> Wrap(m - n, k) = 0
<1>1. PICK N \in Nat \ {0} : N = 2^k
  BY PowNat
<1>2. PICK d1 \in Int, c1 \in 0..(N - 1) : m = N * d1 + c1 /\ c1 = m % N
  BY <1>1
<1>3. PICK d2 \in Int, c2 \in 0..(N - 1) : n = N * d2 + c2 /\ c2 = n % N
  BY <1>1
<1>4. m - n = N * (d1 - d2) + (c1 - c2)
  <2>1. \A o \in Nat, s, u \in Int : o * s - o * u = o * (s - u)
    OBVIOUS
  <2>2. PICK j1 \in Int, j2 \in Int : j1 = N * d1 /\ j2 = N * d2
    OBVIOUS
  <2>3. j1 - j2 = N * (d1 - d2)
    BY <2>1, <2>2
  <2> QED BY <1>2, <1>3, <2>2, <2>3
<1>5. (m - n) % N = (c1 - c2) % N
  <2>1. PICK d \in Int, c \in Int : d = d1 - d2 /\ c = c1 - c2
    OBVIOUS
  <2>2. (N * d + c) % N = c % N
    BY <1>1, <2>1, ModAdd
  <2> QED BY <1>4, <2>1, <2>2, Zenon
<1>6. (c1 - c2) % N = 0 <=> c1 = c2
  <2>1. CASE c1 >= c2
    BY <1>1, <2>1
  <2>2. CASE c1 < c2
    <3>1. PICK j \in 1..(N - 1) : j = N + (c1 - c2)
      BY <2>2
    <3>2. c1 - c2 = N * (-1) + j
      BY <3>1
    <3>3. (N * (-1) + j) % N = j % N
      <4>1. -1 \in Int /\ j \in Int
        OBVIOUS
      <4> QED BY <1>1, <4>1, ModAdd, Zenon
    <3>4. j % N = j
      BY <1>1, <3>1
    <3>5. (c1 - c2) % N = j
      BY <3>2, <3>3, <3>4, Zenon
    <3> QED BY <2>2, <3>1, <3>5
  <2> QED BY <2>1, <2>2
<1> QED BY <1>1, <1>2, <1>3, <1>5, <1>6, Zenon DEF Wrap

\* Every value has a bit length.
LEMMA BitLengthType ==
  ASSUME NEW k \in Nat, NEW n \in Values(k)
  PROVE  BitLength(n, k) \in Nat
<1>1. n \in Nat /\ n < 2^k
  BY ValuesAre
<1> DEFINE S == {j \in Nat : n < 2^j}
<1>2. PICK m \in S : \A j \in S : m <= j
  <2>1. k \in S /\ S \in SUBSET Nat
    BY <1>1
  <2> HIDE DEF S
  <2> QED BY <2>1, Least
<1>3. m \in Nat /\ n < 2^m /\ m <= k
  BY <1>1, <1>2
<1>4. m = 0 \/ n >= 2^(m - 1)
  <2> SUFFICES ASSUME m # 0 PROVE n >= 2^(m - 1)
    OBVIOUS
  <2>1. m - 1 \in Nat /\ ~(m <= m - 1)
    BY <1>3
  <2>2. ~(n < 2^(m - 1))
    BY <1>2, <2>1
  <2>3. PICK p \in Nat : p = 2^(m - 1)
    BY <2>1, PowNat
  <2>4. n >= p
    BY <1>1, <2>2, <2>3
  <2> QED BY <2>3, <2>4
<1>5. BitLength(n, k) = m
  BY <1>1, <1>3, <1>4, BitLengthIs DEF BitsOf
<1> QED BY <1>3, <1>5

\* The quotient of the division functions is a word, and for a divisor of zero
\* not zero.
LEMMA UDivFacts ==
  ASSUME NEW m \in Values(W), NEW n \in Nat
  PROVE  UDivOf(m, n, W) \in Values(W) /\ (n = 0 => UDivOf(m, n, W) # 0)
<1>0. W \in Nat /\ W # 0
  BY WordAssumption
<1>1. CASE n = 0
  <2>1. PICK k \in Nat : k = BitLength(m, W)
    BY <1>0, BitLengthType
  <2>2. k + 1 \in Nat
    OBVIOUS
  <2>3. PICK p \in Nat \ {0} : p = 2^k /\ 2^(k + 1) = 2 * p
    BY PowNat, PowNext
  <2>4. 2 * p - 1 \in Int
    OBVIOUS
  <2>5. UDivOf(m, n, W) = Wrap(2 * p - 1, W)
    BY <1>1, <2>1, <2>3, Zenon DEF UDivOf
  <2>6. Wrap(2 * p - 1, W) \in Values(W)
    BY <1>0, <2>4, WrapFacts
  <2>7. Wrap(2 * p - 1, W) # 0
    <3>1. W - 1 \in Nat /\ (W - 1) + 1 = W
      BY <1>0
    <3>2. PICK h \in Nat \ {0} : h = 2^(W - 1) /\ 2^W = 2 * h
      BY <3>1, PowNat, PowNext, Zenon
    <3>3. PICK d \in Int, c \in Nat : 2 * p - 1 = (2 * h) * d + c /\ c = (2 * p - 1) % (2 * h)
      <4>1. PICK N \in Nat \ {0} : N = 2 * h
        BY <3>2
      <4>2. PICK z \in Int : z = 2 * p - 1
        BY <2>4
      <4>3. z = N * (z \div N) + (z % N) /\ z \div N \in Int /\ z % N \in Nat
        BY <4>1, <4>2, IntDivMod, Zenon
      <4> QED BY <4>1, <4>2, <4>3, Zenon
    <3>4. PICK j \in Int : j = h * d
      OBVIOUS
    <3>5. (2 * h) * d = 2 * j
      BY <3>2, <3>4
    <3>6. c # 0
      BY <3>3, <3>5
    <3> QED BY <3>2, <3>3, <3>6 DEF Wrap
  <2> QED BY <2>5, <2>6, <2>7, Zenon
<1>2. CASE n # 0
  <2>1. PICK N \in Nat : N = 2^W
    BY <1>0, PowNat
  <2>2. m \in Nat /\ m < N
    BY <1>0, <2>1, ValuesAre
  <2>3. m \div n \in Nat /\ m \div n <= m
    <3>1. PICK d \in Nat, c \in Nat : d = m \div n /\ m = d * n + c
      BY <1>2, <2>2, DivMod
    <3>2. d <= d * n
      BY <1>2, <3>1
    <3>3. PICK j \in Nat : j = d * n
      BY <3>1
    <3> QED BY <3>1, <3>2, <3>3
  <2>4. m \div n \in Values(W)
    BY <1>0, <2>1, <2>2, <2>3, ValuesAre
  <2> QED BY <1>2, <2>4 DEF UDivOf
<1> QED BY <1>1, <1>2

(***************************************************************************)
(* Arithmetic on values of two types.                                      *)
(***************************************************************************)
\* The type two operands are extended to has the values of both.
CommonType(t1, t2) == IF t1 = t2 THEN t1 ELSE W

\* A value of either operand is one of their common type.
LEMMA CommonFacts ==
  ASSUME NEW t1 \in Widths, NEW t2 \in Widths, NEW m \in Values(t1), NEW n \in Values(t2)
  PROVE  /\ CommonType(t1, t2) \in Widths /\ CommonType(t1, t2) \in Nat
         /\ CommonType(t1, t2) <= W /\ W \in Nat
         /\ m \in Values(CommonType(t1, t2)) /\ n \in Values(CommonType(t1, t2))
         /\ m \in Values(W) /\ n \in Values(W) /\ m \in Nat /\ n \in Nat
<1>1. t1 \in Nat /\ t2 \in Nat /\ t1 <= W /\ t2 <= W /\ W \in Nat /\ W \in Widths
  BY WidthBound DEF Widths
<1>2. m \in Values(W) /\ n \in Values(W)
  BY <1>1, ValuesGrow
<1>3. m \in Nat /\ n \in Nat
  BY <1>1, <1>2, ValuesAre
<1> QED BY <1>1, <1>2, <1>3 DEF CommonType

\* Sums, differences and products are integers.
LEMMA ExactType ==
  ASSUME NEW op \in {"ADD", "SUB", "MUL"}, NEW m \in Nat, NEW n \in Nat
  PROVE  Exact(op, m, n) \in Int /\ Evm(op, m, n) = Wrap(Exact(op, m, n), W)
<1>1. m + n \in Int /\ m - n \in Int /\ m * n \in Int
  OBVIOUS
<1> QED BY <1>1 DEF Exact, Evm

\* A quotient is no larger than the dividend.
LEMMA QuotientFits ==
  ASSUME NEW k \in Nat, NEW m \in Values(k), NEW n \in Nat \ {0}
  PROVE  m \div n \in Values(k) /\ m % n \in Values(k) /\ m \in Nat
<1>1. PICK N \in Nat : N = 2^k
  BY PowNat
<1>2. m \in Nat /\ m < N
  BY <1>1, ValuesAre
<1>3. PICK d \in Nat, c \in Nat : d = m \div n /\ c = m % n /\ m = d * n + c
  BY <1>2, DivMod
<1>4. d <= d * n
  BY <1>3
<1>5. PICK j \in Nat : j = d * n
  BY <1>3
<1>6. d < N /\ c < N
  BY <1>2, <1>3, <1>4, <1>5
<1> QED BY <1>1, <1>2, <1>3, <1>6, ValuesAre

\* The square of the first operand is the product exactly if their difference
\* does not show.
LEMMA SquareAgrees ==
  ASSUME NEW k \in Nat, NEW m \in Nat, NEW n \in Nat
  PROVE  Wrap(m * m, k) = Wrap(m * n, k) <=> Wrap(m * (m - n), k) = 0
<1>1. m * m \in Int /\ m * n \in Int
  OBVIOUS
<1>2. m * m - m * n = m * (m - n)
  OBVIOUS
<1>3. Wrap(m * m, k) = Wrap(m * n, k) <=> Wrap(m * m - m * n, k) = 0
  BY <1>1, WrapEqual
<1> QED BY <1>2, <1>3, Zenon

\* What the arithmetic instructions yield for operands of types t1 and t2: a
\* value of their common type, the EVM's except as ArithmeticAgrees says.
ArithmeticRule(op, t1, t2, m, n, got) ==
  got = Evm(op, m, n) <=>
    IF op = "DIV" THEN n # 0
    ELSE IF t1 = t2 THEN Evm(op, m, n) \in Values(t1)
    ELSE op # "MUL" \/ Wrap(m * (m - n), W) = 0

\* Unchecked.
LEMMA PlainAgrees ==
  ASSUME NEW t1 \in Widths, NEW t2 \in Widths, NEW m \in Values(t1), NEW n \in Values(t2),
         NEW op \in SafeOps, NEW t, NEW l, t = CommonType(t1, t2),
         l = (IF op = "MUL" /\ ~(t1 = t2) THEN m ELSE n),
         ~(op = "DIV" /\ t < W /\ l = 0)
  PROVE  /\ Plain(op, m, l, t) \in Values(t)
         /\ ArithmeticRule(op, t1, t2, m, n, Plain(op, m, l, t))
<1>1. /\ t \in Nat /\ t <= W /\ W \in Nat /\ m \in Values(t) /\ n \in Values(t)
      /\ m \in Values(W) /\ n \in Values(W) /\ m \in Nat /\ n \in Nat
  BY CommonFacts
<1>2. CASE op = "DIV"
  <2>1. l = n
    BY <1>2
  <2>2. Evm(op, m, n) = EvmDiv(m, n)
    BY <1>2 DEF Evm
  <2>3. CASE t = W
    <3>1. Plain(op, m, l, t) = UDivOf(m, n, W)
      BY <1>2, <2>1, <2>3 DEF Plain
    <3>2. UDivOf(m, n, W) \in Values(W) /\ (n = 0 => UDivOf(m, n, W) # 0)
      BY <1>1, UDivFacts
    <3>3. n # 0 => UDivOf(m, n, W) = EvmDiv(m, n)
      BY DEF UDivOf, EvmDiv
    <3>4. n = 0 => EvmDiv(m, n) = 0
      BY DEF EvmDiv
    <3> QED BY <1>2, <2>2, <2>3, <3>1, <3>2, <3>3, <3>4 DEF ArithmeticRule
  <2>4. CASE t # W
    <3>1. n # 0
      BY <1>1, <1>2, <2>1, <2>4
    <3>2. Plain(op, m, l, t) = m \div n
      BY <1>2, <2>1, <2>4 DEF Plain
    <3>3. EvmDiv(m, n) = m \div n
      BY <3>1 DEF EvmDiv
    <3>4. m \div n \in Values(t)
      BY <1>1, <3>1, QuotientFits
    <3> QED BY <1>2, <2>2, <3>1, <3>2, <3>3, <3>4 DEF ArithmeticRule
  <2> QED BY <2>3, <2>4
<1>3. CASE op # "DIV"
  <2>1. op \in {"ADD", "SUB", "MUL"}
    BY <1>3 DEF SafeOps
  <2>2. l \in Nat
    BY <1>1
  <2>3. PICK z \in Int : z = Exact(op, m, l)
    BY <1>1, <2>1, <2>2, ExactType
  <2>4. Plain(op, m, l, t) = Wrap(z, t)
    BY <1>3, <2>3 DEF Plain
  <2>5. Wrap(z, t) \in Values(t)
    BY <1>1, WrapFacts
  <2>6. Evm(op, m, n) = Wrap(Exact(op, m, n), W)
    BY <1>1, <2>1, ExactType
  <2>7. CASE t1 = t2
    <3>1. l = n /\ t = t1
      BY <2>7 DEF CommonType
    <3>2. Evm(op, m, n) = Wrap(z, W)
      BY <2>3, <2>6, <3>1
    <3>3. Wrap(z, t) = Wrap(z, W) <=> Wrap(z, W) \in Values(t)
      BY <1>1, NarrowWrap
    <3> QED BY <1>3, <2>4, <2>5, <2>7, <3>1, <3>2, <3>3, Zenon DEF ArithmeticRule
  <2>8. CASE t1 # t2
    <3>1. t = W
      BY <2>8 DEF CommonType
    <3>2. CASE op = "MUL"
      <4>1. z = m * m /\ Exact(op, m, n) = m * n
        BY <2>3, <2>8, <3>2 DEF Exact
      <4>2. Wrap(z, W) = Evm(op, m, n) <=> Wrap(m * (m - n), W) = 0
        BY <1>1, <2>6, <4>1, SquareAgrees
      <4> QED BY <1>3, <2>4, <2>5, <2>8, <3>1, <3>2, <4>2, Zenon DEF ArithmeticRule
    <3>3. CASE op # "MUL"
      <4>1. Wrap(z, W) = Evm(op, m, n)
        BY <2>3, <2>6, <3>3
      <4> QED BY <1>3, <2>4, <2>5, <2>8, <3>1, <3>3, <4>1, Zenon DEF ArithmeticRule
    <3> QED BY <3>2, <3>3
  <2> QED BY <2>7, <2>8
<1> QED BY <1>2, <1>3

\* Checked: what fits a word is what is computed unchecked.
LEMMA CheckedPlain ==
  ASSUME NEW op \in SafeOps, NEW m \in Nat, NEW l \in Nat, Exact(op, m, l) \in Values(W)
  PROVE  Exact(op, m, l) = Plain(op, m, l, W) /\ ~(op = "DIV" /\ l = 0)
<1>0. W \in Nat
  BY WordAssumption
<1>1. CASE op = "DIV"
  <2>1. l # 0
    <3> SUFFICES ASSUME l = 0 PROVE FALSE
      OBVIOUS
    <3>1. 2^W \in Values(W)
      BY <1>1 DEF Exact
    <3>2. PICK N \in Nat : N = 2^W
      BY <1>0, PowNat
    <3>3. N < N
      BY <1>0, <3>1, <3>2, ValuesAre
    <3> QED BY <3>2, <3>3
  <2> QED BY <1>1, <2>1 DEF Exact, Plain, UDivOf
<1>2. CASE op # "DIV"
  <2>1. Wrap(Exact(op, m, l), W) = Exact(op, m, l)
    BY <1>0, WrapFacts
  <2> QED BY <1>2, <2>1 DEF Plain
<1> QED BY <1>1, <1>2

(***************************************************************************)
(* Signs.                                                                  *)
(***************************************************************************)
\* The integer a value of type t stands for, and a narrow value as a word.
LEMMA SignsOf ==
  ASSUME NEW t \in Widths, NEW n \in Values(t)
  PROVE  /\ n \in Nat /\ Signed(n, t) \in Int /\ (n # 0 => Signed(n, t) # 0)
         /\ IsNeg(n, t) => Signed(n, t) < 0 /\ Signed(n, t) = n - 2^t
         /\ ~IsNeg(n, t) => Signed(n, t) = n
         /\ t < W => ~IsNeg(n, W) /\ Signed(n, W) = n
<1>1. PICK h \in Nat \ {0}, N \in Nat \ {0} :
        /\ h = 2^(t - 1) /\ 2^t = 2 * h /\ N = 2^W
        /\ t < W => 2 * (2 * h) <= N
  BY TypePowers
<1>2. n \in Nat /\ n < 2 * h
  BY <1>1, ValuesAre, WidthBound
<1>3. IsNeg(n, t) <=> n >= h
  BY <1>1 DEF IsNeg
<1>4. Signed(n, t) = IF IsNeg(n, t) THEN n - 2 * h ELSE n
  BY <1>1 DEF Signed
<1>5. n - 2 * h \in Int /\ n - 2 * h < 0
  BY <1>2
<1>6. t < W => ~IsNeg(n, W) /\ Signed(n, W) = n
  <2> SUFFICES ASSUME t < W PROVE ~IsNeg(n, W) /\ Signed(n, W) = n
    OBVIOUS
  <2>1. W - 1 \in Nat /\ (W - 1) + 1 = W
    BY WordAssumption
  <2>2. PICK g \in Nat : g = 2^(W - 1) /\ 2^W = 2 * g
    BY <2>1, PowNat, PowNext, Zenon
  <2>3. 2 * h <= g
    BY <1>1, <2>2
  <2>4. ~(n >= g)
    BY <1>2, <2>2, <2>3
  <2> QED BY <2>2, <2>4 DEF IsNeg, Signed
<1> HIDE DEF Signed, IsNeg
<1>7. n # 0 => Signed(n, t) # 0
  BY <1>2, <1>4, <1>5
<1>8. Signed(n, t) \in Int
  BY <1>2, <1>4, <1>5
<1>9. IsNeg(n, t) => Signed(n, t) < 0 /\ Signed(n, t) = n - 2^t
  BY <1>1, <1>4, <1>5
<1> QED BY <1>2, <1>4, <1>6, <1>7, <1>8, <1>9

\* Division towards zero yields integers.
LEMMA QuotType ==
  ASSUME NEW m \in Int, NEW n \in Int, n # 0
  PROVE  Quot(m, n) \in Int /\ Rem(m, n) \in Int
<1>1. PICK k \in Nat : k = IF m < 0 THEN -m ELSE m
  OBVIOUS
<1>2. PICK l \in Nat \ {0} : l = IF n < 0 THEN -n ELSE n
  OBVIOUS
<1>3. PICK d \in Nat : d = k \div l
  BY <1>1, <1>2, DivMod
<1>4. Quot(m, n) = d \/ Quot(m, n) = -d
  BY <1>1, <1>2, <1>3 DEF Quot
<1>5. Quot(m, n) \in Int
  BY <1>3, <1>4
<1>6. PICK j \in Int : j = Quot(m, n)
  BY <1>5
<1>7. m - n * j \in Int
  OBVIOUS
<1> QED BY <1>5, <1>6, <1>7 DEF Rem

\* The signed instructions of the EVM yield values of the type.
LEMMA SignedResults ==
  ASSUME NEW t \in Widths, NEW m \in Values(t), NEW n \in Values(t)
  PROVE  EvmSdiv(m, n, t) \in Values(t) /\ EvmSmod(m, n, t) \in Values(t)
<1>1. t \in Nat
  BY WidthBound
<1>2. 0 \in Values(t)
  BY <1>1, ValuesAre, PowNat
<1>3. n # 0 => /\ Quot(Signed(m, t), Signed(n, t)) \in Int
               /\ Rem(Signed(m, t), Signed(n, t)) \in Int
  BY SignsOf, QuotType
<1>4. n # 0 => /\ Wrap(Quot(Signed(m, t), Signed(n, t)), t) \in Values(t)
               /\ Wrap(Rem(Signed(m, t), Signed(n, t)), t) \in Values(t)
  BY <1>1, <1>3, WrapFacts
<1>5. CASE n = 0
  BY <1>2, <1>5 DEF EvmSdiv, EvmSmod
<1>6. CASE n # 0
  BY <1>4, <1>6, Zenon DEF EvmSdiv, EvmSmod
<1> QED BY <1>5, <1>6

\* What MOD, SDIV and SMOD yield for operands of types t1 and t2.
DivOps == {"MOD", "SDIV", "SMOD"}
DivisionRule(op, t1, t2, m, n, got) ==
  \/ got = DivideEvm(op, m, n)
  \/ n = 0
  \/ op # "MOD" /\ t1 = t2 /\ t1 < W /\ (IsNeg(m, t1) \/ IsNeg(n, t1))

\* On words, by the functions of Arith256.
LEMMA DivideWordAgrees ==
  ASSUME NEW op \in DivOps, NEW m \in Values(W), NEW n \in Values(W)
  PROVE  /\ DivideWord(op, m, n) \in Values(W)
         /\ n # 0 => DivideWord(op, m, n) = DivideEvm(op, m, n)
<1>1. W \in Nat /\ W \in Widths /\ m \in Nat /\ n \in Nat
  BY WordAssumption, ValuesAre DEF Widths
<1>2. n # 0 => DivideWord(op, m, n) = DivideEvm(op, m, n)
  BY DEF DivOps, DivideWord, DivideEvm, URemOf, SDivOf, SRemOf, EvmMod
<1>3. EvmSdiv(m, n, W) \in Values(W) /\ EvmSmod(m, n, W) \in Values(W)
  BY <1>1, SignedResults
<1>4. URemOf(m, n) \in Values(W)
  <2>1. n # 0 => m % n \in Values(W)
    BY <1>1, QuotientFits
  <2> QED BY <2>1 DEF URemOf
<1>5. SRemOf(m, n, W) \in Values(W)
  BY <1>3 DEF SRemOf
<1>6. SDivOf(m, n, W) \in Values(W)
  <2>1. CASE n = 0
    <3>1. Abs(m, W) \in Values(W) /\ 0 \in Nat
      BY SignFacts
    <3>2. PICK k \in Values(W) : k = UDivOf(Abs(m, W), 0, W)
      BY <3>1, UDivFacts
    <3>3. k \in Nat
      BY <1>1, ValuesAre
    <3>4. 0 - k \in Int
      BY <3>3
    <3>5. Neg(k, W) \in Values(W)
      BY <1>1, <3>4, WrapFacts DEF Neg
    <3>6. SDivOf(m, n, W) = IF IsNeg(m, W) THEN Neg(k, W) ELSE k
      BY <2>1, <3>2, Zenon DEF SDivOf
    <3> QED BY <3>5, <3>6
  <2>2. CASE n # 0
    BY <1>3, <2>2 DEF SDivOf
  <2> QED BY <2>1, <2>2
<1>7. DivideWord(op, m, n) \in {URemOf(m, n), SDivOf(m, n, W), SRemOf(m, n, W)}
  BY DEF DivOps, DivideWord
<1> QED BY <1>2, <1>4, <1>5, <1>6, <1>7

\* On values of one narrow type, by an LLVM instruction.
LEMMA DivideNarrowAgrees ==
  ASSUME NEW op \in DivOps, NEW t \in Widths, t < W, NEW m \in Values(t), NEW n \in Values(t),
         n # 0
  PROVE  /\ DivideNarrow(op, m, n, t) \in Values(t)
         /\ DivisionRule(op, t, t, m, n, DivideNarrow(op, m, n, t))
<1>1. t \in Nat /\ t <= W /\ W \in Nat /\ m \in Nat /\ n \in Nat
  BY WidthBound, SignsOf, WordAssumption
<1>2. m \div n \in Values(t) /\ m % n \in Values(t)
  BY <1>1, QuotientFits
<1>3. EvmSdiv(m, n, t) \in Values(t) /\ EvmSmod(m, n, t) \in Values(t)
  BY SignedResults
<1>4. DivideNarrow(op, m, n, t) \in Values(t)
  BY <1>2, <1>3 DEF DivOps, DivideNarrow
<1>5. CASE op = "MOD"
  BY <1>1, <1>4, <1>5 DEF DivideNarrow, DivideEvm, EvmMod, DivisionRule
<1>6. CASE op # "MOD" /\ (IsNeg(m, t) \/ IsNeg(n, t))
  BY <1>4, <1>6 DEF DivisionRule
<1>7. CASE op # "MOD" /\ ~IsNeg(m, t) /\ ~IsNeg(n, t)
  <2>1. Signed(m, t) = m /\ Signed(n, t) = n /\ Signed(m, W) = m /\ Signed(n, W) = n
    BY <1>7, SignsOf
  <2>2. Quot(m, n) = m \div n
    BY <1>1 DEF Quot
  <2>3. Rem(m, n) = m % n
    <3>1. PICK d \in Nat, c \in Nat : d = m \div n /\ c = m % n /\ m = d * n + c
      BY <1>1, DivMod
    <3>2. m - n * d = c
      BY <1>1, <3>1
    <3> QED BY <2>2, <3>1, <3>2 DEF Rem
  <2>4. m \div n \in Values(W) /\ m % n \in Values(W)
    BY <1>1, <1>2, ValuesGrow
  <2>5. /\ Wrap(m \div n, t) = m \div n /\ Wrap(m % n, t) = m % n
        /\ Wrap(m \div n, W) = m \div n /\ Wrap(m % n, W) = m % n
    BY <1>1, <1>2, <2>4, WrapFacts
  <2>6. EvmSdiv(m, n, t) = EvmSdiv(m, n, W) /\ EvmSmod(m, n, t) = EvmSmod(m, n, W)
    BY <2>1, <2>2, <2>3, <2>5, Zenon DEF EvmSdiv, EvmSmod
  <2>7. DivideNarrow(op, m, n, t) = DivideEvm(op, m, n)
    BY <1>7, <2>6 DEF DivOps, DivideNarrow, DivideEvm
  <2> QED BY <1>4, <2>7 DEF DivisionRule
<1> QED BY <1>4, <1>5, <1>6, <1>7

\* A flag is a word.
LEMMA FlagType == \A p \in BOOLEAN : Flag(p) \in Values(W) /\ Flag(p) \in Nat
<1>1. PICK h \in Nat \ {0} : 2^W = 2 * h
  <2>1. W - 1 \in Nat /\ (W - 1) + 1 = W
    BY WordAssumption
  <2> QED BY <2>1, PowNat, PowNext, Zenon
<1>2. 0 < 2 * h /\ 1 < 2 * h
  BY <1>1
<1>3. 0 \in Values(W) /\ 1 \in Values(W)
  BY <1>1, <1>2, ValuesAre, WordAssumption
<1> QED BY <1>3 DEF Flag

\* Signed comparisons are wrong exactly for two values of one narrow type whose
\* signs differ.
LEMMA ComparisonAgrees ==
  ASSUME NEW op \in {"SLT", "SGT"}, NEW t1 \in Widths, NEW t2 \in Widths,
         NEW m \in Values(t1), NEW n \in Values(t2)
  PROVE  Flag(Holds(op, m, n, CommonType(t1, t2))) = Flag(EvmHolds(op, m, n))
           <=> ~(t1 = t2 /\ t1 < W /\ IsNeg(m, t1) # IsNeg(n, t1))
<1>0. t1 \in Nat /\ t1 <= W /\ W \in Nat
  BY WidthBound, WordAssumption
<1>1. CASE CommonType(t1, t2) = W
  <2>1. ~(t1 = t2 /\ t1 < W)
    BY <1>0, <1>1 DEF CommonType
  <2>2. Holds(op, m, n, W) = EvmHolds(op, m, n)
    BY DEF Holds, EvmHolds, SignedAs
  <2> QED BY <1>1, <2>1, <2>2
<1>2. CASE CommonType(t1, t2) # W
  <2>1. t1 = t2 /\ CommonType(t1, t2) = t1 /\ t1 < W
    BY <1>0, <1>2 DEF CommonType
  <2>2. PICK h \in Nat \ {0} : h = 2^(t1 - 1) /\ 2^t1 = 2 * h
    BY TypePowers
  <2>3. m \in Nat /\ n \in Nat /\ m < 2 * h /\ n < 2 * h
    BY <1>0, <2>1, <2>2, ValuesAre
  <2>4. PICK u \in Int : u = Signed(m, t1) /\ u = IF m >= h THEN m - 2 * h ELSE m
    BY <2>2, <2>3 DEF Signed, IsNeg
  <2>5. PICK v \in Int : v = Signed(n, t1) /\ v = IF n >= h THEN n - 2 * h ELSE n
    BY <2>2, <2>3 DEF Signed, IsNeg
  <2>6. Signed(m, W) = m /\ Signed(n, W) = n
    BY <2>1, SignsOf
  <2>7. /\ Holds("SLT", m, n, t1) <=> u < v
        /\ Holds("SGT", m, n, t1) <=> u > v
        /\ EvmHolds("SLT", m, n) <=> m < n
        /\ EvmHolds("SGT", m, n) <=> m > n
    BY <2>4, <2>5, <2>6 DEF Holds, EvmHolds, SignedAs
  <2>8. /\ ((u < v) <=> (m < n)) <=> ((m >= h) <=> (n >= h))
        /\ ((u > v) <=> (m > n)) <=> ((m >= h) <=> (n >= h))
    BY <2>2, <2>3, <2>4, <2>5
  <2>9. (Holds(op, m, n, t1) <=> EvmHolds(op, m, n)) <=> ((m >= h) <=> (n >= h))
    BY <2>7, <2>8
  <2>10. (IsNeg(m, t1) # IsNeg(n, t1)) <=> ~((m >= h) <=> (n >= h))
    BY <2>2 DEF IsNeg
  <2>11. Flag(Holds(op, m, n, t1)) = Flag(EvmHolds(op, m, n))
            <=> (Holds(op, m, n, t1) <=> EvmHolds(op, m, n))
    BY DEF Flag
  <2> QED BY <2>1, <2>9, <2>10, <2>11
<1> QED BY <1>1, <1>2

(***************************************************************************)
(* Shifts and complements.                                                 *)
(***************************************************************************)
\* A shift within the width of the type yields a value of the type.  To the
\* left it is the EVM's if that fits the type, to the right always; an
\* arithmetic one unless a narrow value is taken to be negative.
ShiftRule(op, t, s, n) ==
  /\ Shifted(op, s, n, t) \in Values(t)
  /\ op = "SHL" => (Shifted(op, s, n, t) = Shifted(op, s, n, W)
                      <=> Shifted(op, s, n, W) \in Values(t))
  /\ op = "SHR" => Shifted(op, s, n, t) = Shifted(op, s, n, W)
  /\ op = "SAR" => (Shifted(op, s, n, t) = Shifted(op, s, n, W)
                      <=> t = W \/ s = 0 \/ ~IsNeg(n, t))

\* Dividing a negative number rounds down, so that its sign is kept.
LEMMA NegativeShift ==
  ASSUME NEW h \in Nat \ {0}, NEW g \in Nat \ {0}, NEW n \in Nat, h <= n, n < 2 * h
  PROVE  /\ (n - 2 * h) \div g \in Int
         /\ (n - 2 * h) \div g < 0 /\ 0 - h <= (n - 2 * h) \div g
<1>1. PICK z \in Int : z = n - 2 * h /\ z < 0 /\ 0 - h <= z
  OBVIOUS
<1>2. PICK d \in Int, c \in Nat : d = z \div g /\ c = z % g /\ c < g /\ z = g * d + c
  BY <1>1, IntDivMod
<1>3. d < 0
  <2> SUFFICES ASSUME d >= 0 PROVE FALSE
    BY <1>2
  <2>1. d \in Nat
    BY <1>2
  <2>2. g * d \in Nat
    BY <2>1
  <2> QED BY <1>1, <1>2, <2>2
<1>4. 0 - h <= d
  <2> SUFFICES ASSUME d < 0 - h PROVE FALSE
    BY <1>2
  <2>1. PICK k \in Nat : d = 0 - (h + 1 + k)
    <3>1. (0 - d) - (h + 1) \in Nat /\ d = 0 - (h + 1 + ((0 - d) - (h + 1)))
      BY <1>2
    <3> QED BY <3>1
  <2>2. g * d = 0 - (g * h + g + g * k)
    BY <2>1
  <2>3. PICK j \in Nat, l \in Nat : j = g * h /\ l = g * k
    BY <2>1
  <2>4. h <= j
    BY <2>3
  <2>5. z = 0 - (j + g + l) + c
    BY <1>2, <2>2, <2>3
  <2> QED BY <1>1, <1>2, <2>3, <2>4, <2>5
<1> QED BY <1>1, <1>2, <1>3, <1>4

\* A shift by less than the width of the type follows its rule.
LEMMA ShiftAgrees ==
  ASSUME NEW op \in {"SHL", "SHR", "SAR"}, NEW t \in Widths, NEW s \in Nat, s < t,
         NEW n \in Values(t)
  PROVE  ShiftRule(op, t, s, n)
<1>1. t \in Nat /\ t <= W /\ W \in Nat /\ n \in Nat
  BY WidthBound, WordAssumption, SignsOf
<1>2. PICK g \in Nat \ {0} : g = 2^s
  BY PowNat
<1>3. n \div g \in Values(t) /\ n * g \in Int
  <2>1. n \div g \in Values(t)
    BY <1>1, QuotientFits
  <2>2. n * g \in Int
    BY <1>1
  <2> QED BY <2>1, <2>2
<1>4. CASE op = "SHL"
  <2>1. PICK z \in Int : z = n * g
    BY <1>3
  <2>2. Shifted(op, s, n, t) = Wrap(z, t) /\ Shifted(op, s, n, W) = Wrap(z, W)
    BY <1>2, <1>4, <2>1 DEF Shifted
  <2>3. Wrap(z, t) \in Values(t)
    BY <1>1, WrapFacts
  <2>4. Wrap(z, t) = Wrap(z, W) <=> Wrap(z, W) \in Values(t)
    BY <1>1, NarrowWrap
  <2> QED BY <1>4, <2>2, <2>3, <2>4 DEF ShiftRule
<1>5. CASE op = "SHR"
  <2>1. Shifted(op, s, n, t) = n \div g /\ Shifted(op, s, n, W) = n \div g
    BY <1>2, <1>5 DEF Shifted
  <2> QED BY <1>3, <1>5, <2>1 DEF ShiftRule
<1>6. CASE op = "SAR"
  <2>1. Shifted(op, s, n, t) = Wrap(Signed(n, t) \div g, t)
        /\ Shifted(op, s, n, W) = Wrap(Signed(n, W) \div g, W)
    BY <1>2, <1>6 DEF Shifted
  <2>2. Signed(n, t) \div g \in Int
    <3>1. PICK z \in Int : z = Signed(n, t)
      BY SignsOf
    <3>2. z \div g \in Int
      BY <3>1, IntDivMod
    <3> QED BY <3>1, <3>2
  <2>3. Shifted(op, s, n, t) \in Values(t)
    BY <1>1, <2>1, <2>2, WrapFacts
  <2>4. CASE t = W
    BY <1>6, <2>3, <2>4 DEF ShiftRule
  <2>5. CASE t # W
    <3>1. t < W /\ Signed(n, W) = n
      BY <1>1, <2>5, SignsOf
    <3>2. n \div g \in Values(W)
      BY <1>1, <1>3, ValuesGrow
    <3>3. Wrap(n \div g, t) = n \div g /\ Wrap(n \div g, W) = n \div g
      BY <1>1, <1>3, <3>2, WrapFacts
    <3>4. CASE ~IsNeg(n, t)
      <4>1. Signed(n, t) = n
        BY <3>4, SignsOf
      <4>2. Shifted(op, s, n, t) = Shifted(op, s, n, W)
        BY <2>1, <3>1, <3>3, <4>1, Zenon
      <4> QED BY <1>6, <2>3, <3>4, <4>2 DEF ShiftRule
    <3>5. CASE IsNeg(n, t)
      <4>1. PICK h \in Nat \ {0} : h = 2^(t - 1) /\ 2^t = 2 * h
        BY TypePowers
      <4>2. h <= n /\ n < 2 * h
        BY <1>1, <3>5, <4>1, ValuesAre DEF IsNeg
      <4>3. Signed(n, t) = n - 2 * h
        BY <3>5, <4>1, SignsOf
      <4>4. PICK d \in Int : d = (n - 2 * h) \div g /\ d < 0 /\ 0 - h <= d
        BY <1>1, <4>2, NegativeShift
      <4>5. PICK N \in Nat \ {0} : N = 2 * h
        OBVIOUS
      <4>6. d % N = N + d
        <5>1. PICK j \in 0..(N - 1) : j = N + d
          BY <4>4, <4>5
        <5>2. d = N * (-1) + j
          BY <5>1
        <5>3. (N * (-1) + j) % N = j % N
          <6>1. -1 \in Int /\ j \in Int
            OBVIOUS
          <6> QED BY <4>5, <6>1, ModAdd, Zenon
        <5>4. j % N = j
          BY <4>5, <5>1
        <5> QED BY <5>1, <5>2, <5>3, <5>4, Zenon
      <4>7. Shifted(op, s, n, t) = N + d
        BY <2>1, <4>1, <4>3, <4>4, <4>5, <4>6, Zenon DEF Wrap
      <4>8. Shifted(op, s, n, W) = n \div g
        BY <2>1, <3>1, <3>3, Zenon
      <4>9. CASE s = 0
        <5>1. g = 1
          BY <1>2, <4>9
        <5>2. n \div g = n /\ (n - 2 * h) \div g = n - 2 * h
          BY <1>1, <5>1
        <5>3. N + d = n
          BY <1>1, <4>4, <4>5, <5>2
        <5> QED BY <1>6, <2>3, <4>7, <4>8, <4>9, <5>2, <5>3 DEF ShiftRule
      <4>10. CASE s # 0
        <5>1. g >= 2
          <6>1. s - 1 \in Nat /\ (s - 1) + 1 = s
            BY <4>10
          <6>2. PICK f \in Nat \ {0} : g = 2 * f
            BY <1>2, <6>1, PowNat, PowNext, Zenon
          <6> QED BY <6>2
        <5>2. n \div g < h
          <6>1. PICK k \in Nat, c \in Nat : k = n \div g /\ n = k * g + c
            BY <1>1, DivMod
          <6>2. k * 2 <= k * g
            BY <5>1, <6>1
          <6>3. PICK j \in Nat : j = k * g
            BY <6>1
          <6> QED BY <4>2, <6>1, <6>2, <6>3
        <5>3. N + d >= h
          BY <4>4, <4>5
        <5>4. n \div g \in Nat
          BY <1>1, DivMod
        <5>5. N + d # n \div g
          BY <4>4, <4>5, <5>2, <5>3, <5>4
        <5> QED BY <1>6, <2>3, <2>5, <3>5, <4>7, <4>8, <4>10, <5>5 DEF ShiftRule
      <4> QED BY <4>9, <4>10
    <3> QED BY <3>4, <3>5
  <2> QED BY <2>4, <2>5
<1> QED BY <1>4, <1>5, <1>6

\* The complement in the type of its operand is the EVM's for words only.
LEMMA ComplementAgrees ==
  ASSUME NEW t \in Widths, NEW n \in Values(t)
  PROVE  /\ Complement(n, t) \in Values(t)
         /\ Complement(n, t) = 2^W - 1 - n <=> t = W
<1>1. PICK h \in Nat \ {0}, N \in Nat \ {0} :
        2^t = 2 * h /\ N = 2^W /\ (t < W => 2 * (2 * h) <= N)
  BY TypePowers
<1>2. t \in Nat /\ t <= W /\ W \in Nat /\ n \in Nat /\ n < 2 * h
  BY <1>1, WidthBound, WordAssumption, ValuesAre
<1>3. Complement(n, t) = 2 * h - 1 - n
  BY <1>1 DEF Complement
<1>4. 2 * h - 1 - n \in Nat /\ 2 * h - 1 - n < 2 * h
  BY <1>2
<1>5. Complement(n, t) \in Values(t)
  BY <1>1, <1>2, <1>3, <1>4, ValuesAre
<1>6. CASE t = W
  BY <1>1, <1>3, <1>5, <1>6
<1>7. CASE t # W
  BY <1>1, <1>2, <1>3, <1>5, <1>7
<1> QED BY <1>6, <1>7

(***************************************************************************)
(* Bits.                                                                   *)
(***************************************************************************)
\* A bit is zero or one.
LEMMA BitType == \A n, j \in Nat : Bit(n, j) \in {0, 1}
<1> SUFFICES ASSUME NEW n \in Nat, NEW j \in Nat PROVE Bit(n, j) \in {0, 1}
  OBVIOUS
<1>1. PICK p \in Nat \ {0} : p = 2^j
  BY PowNat
<1>2. PICK d \in Nat : d = n \div p
  BY <1>1, DivMod
<1>3. d % 2 \in {0, 1}
  OBVIOUS
<1> QED BY <1>1, <1>2, <1>3 DEF Bit

\* Dividing twice.
LEMMA DivTwice ==
  ASSUME NEW n \in Nat, NEW s \in Nat \ {0}, NEW k \in Nat \ {0}
  PROVE  (n \div s) \div k = n \div (s * k)
<1>1. PICK d \in Nat, c \in Nat : d = n \div s /\ c < s /\ n = d * s + c
  BY DivMod
<1>2. PICK f \in Nat, g \in Nat : f = d \div k /\ g < k /\ d = f * k + g
  <2>1. d \div k \in Nat /\ d % k \in Nat /\ d % k < k /\ d = (d \div k) * k + (d % k)
    BY DivMod
  <2> QED BY <2>1, Zenon
<1>3. n = f * (s * k) + (g * s + c)
  <2>1. \A o1, o2, o3, o4, o5 \in Nat :
          (o1 * o2 + o3) * o4 + o5 = o1 * (o4 * o2) + (o3 * o4 + o5)
    OBVIOUS
  <2>2. (f * k + g) * s + c = f * (s * k) + (g * s + c)
    BY <1>1, <1>2, <2>1
  <2> QED BY <1>1, <1>2, <2>2
<1>4. g * s + c < s * k
  <2>1. PICK l \in Nat : k = g + 1 + l
    <3>1. k - (g + 1) \in Nat /\ k = g + 1 + (k - (g + 1))
      BY <1>2
    <3> QED BY <3>1
  <2>2. s * k = g * s + s + s * l
    BY <1>2, <2>1
  <2>3. PICK j1 \in Nat, j2 \in Nat : j1 = g * s /\ j2 = s * l
    BY <1>2, <2>1
  <2>4. j1 + c < j1 + s + j2
    BY <1>1, <2>3
  <2> QED BY <2>2, <2>3, <2>4, Zenon
<1>5. PICK N \in Nat \ {0} : N = s * k
  OBVIOUS
<1>6. PICK c2 \in Nat : c2 = g * s + c
  BY <1>1, <1>2
<1>7. n = f * N + c2 /\ c2 < N
  BY <1>3, <1>4, <1>5, <1>6, Zenon
<1>8. n \div N = f
  BY <1>2, <1>7, DivUnique
<1> QED BY <1>1, <1>2, <1>5, <1>8

\* The remainder by the next power has one bit more.
LEMMA ModNext ==
  ASSUME NEW u \in Nat, NEW k \in Nat
  PROVE  u % 2^(k + 1) = (u % 2^k) + 2^k * Bit(u, k)
<1>1. PICK p \in Nat \ {0} : p = 2^k /\ 2^(k + 1) = 2 * p
  BY PowNat, PowNext
<1>2. PICK d \in Nat, c \in Nat : d = u \div p /\ c = u % p /\ c < p /\ u = d * p + c
  <2>1. u \div p \in Nat /\ u % p \in Nat /\ u % p < p /\ u = (u \div p) * p + (u % p)
    BY <1>1, DivMod
  <2> QED BY <2>1, Zenon
<1>3. PICK f \in Nat, g \in {0, 1} : g = d % 2 /\ d = 2 * f + g
  <2>1. d \div 2 \in Nat /\ d % 2 \in {0, 1} /\ d = 2 * (d \div 2) + (d % 2)
    OBVIOUS
  <2> QED BY <2>1, Zenon
<1>4. u = f * (2 * p) + (p * g + c)
  <2>1. \A o1, o2, o3, o4 \in Nat : (2 * o1 + o2) * o3 + o4 = o1 * (2 * o3) + (o3 * o2 + o4)
    OBVIOUS
  <2>2. (2 * f + g) * p + c = f * (2 * p) + (p * g + c)
    BY <1>1, <1>2, <1>3, <2>1
  <2> QED BY <1>2, <1>3, <2>2
<1>5. PICK j \in Nat : j = p * g + c /\ j < 2 * p
  <2>1. p * 0 = 0 /\ p * 1 = p
    OBVIOUS
  <2> QED BY <1>2, <1>3, <2>1
<1>6. PICK N \in Nat \ {0} : N = 2 * p
  OBVIOUS
<1>7. u % N = j
  BY <1>4, <1>5, <1>6, <1>3, DivUnique
<1>8. Bit(u, k) = g
  BY <1>1, <1>2, <1>3 DEF Bit
<1>9. p * g + c = c + p * g
  BY <1>2, <1>3
<1> QED BY <1>1, <1>2, <1>5, <1>6, <1>7, <1>8, <1>9, Zenon

\* The k bits from place s on, put together again.
LEMMA Slice ==
  ASSUME NEW n \in Nat, NEW s \in Nat
  PROVE  \A k \in Nat : FromBits(k, [l \in Nat |-> Bit(n, s + l)]) = (n \div 2^s) % 2^k
<1> DEFINE f == [l \in Nat |-> Bit(n, s + l)]
           S == {k \in Nat : FromBits(k, f) = (n \div 2^s) % 2^k}
<1>1. PICK p \in Nat \ {0} : p = 2^s
  BY PowNat
<1>2. PICK u \in Nat : u = n \div p
  BY <1>1, DivMod
<1>3. 0 \in S
  <2>1. 2^0 = 1 /\ u % 1 = 0
    BY <1>2
  <2>2. FromBits(0, f) = 0
    BY FromBitsNext
  <2>3. (n \div 2^s) % 2^0 = 0
    BY <1>1, <1>2, <2>1
  <2> QED BY <2>2, <2>3
<1>4. ASSUME NEW k \in S PROVE k + 1 \in S
  <2>1. k \in Nat /\ k + 1 \in Nat /\ FromBits(k, f) = (n \div 2^s) % 2^k
    OBVIOUS
  <2>2. FromBits(k + 1, f) = FromBits(k, f) + 2^k * f[k]
    BY <2>1, FromBitsNext
  <2>3. f[k] = Bit(n, s + k)
    BY <2>1
  <2>4. Bit(n, s + k) = Bit(u, k)
    <3>1. PICK g \in Nat \ {0} : g = 2^k
      BY <2>1, PowNat
    <3>2. 2^(s + k) = p * g
      BY <1>1, <2>1, <3>1, PowSum, Zenon
    <3>3. n \div (p * g) = u \div g
      BY <1>1, <1>2, <3>1, DivTwice
    <3> QED BY <3>1, <3>2, <3>3, Zenon DEF Bit
  <2>5. u % 2^(k + 1) = (u % 2^k) + 2^k * Bit(u, k)
    BY <1>2, <2>1, ModNext
  <2> HIDE DEF f
  <2>6. FromBits(k + 1, f) = (n \div 2^s) % 2^(k + 1)
    BY <1>1, <1>2, <2>1, <2>2, <2>3, <2>4, <2>5, Zenon
  <2> QED BY <2>1, <2>6
<1>5. S = Nat
  <2>1. S \in SUBSET Nat
    OBVIOUS
  <2> HIDE DEF S
  <2> QED BY <1>3, <1>4, <2>1, Induct
<1> QED BY <1>5

\* For the lowest k bits.
LEMMA LowBits ==
  ASSUME NEW n \in Nat, NEW s \in Nat, NEW k \in Nat, NEW bits,
         \A l \in 0..(k - 1) : bits[l] = Bit(n, s + l)
  PROVE  FromBits(k, bits) = (n \div 2^s) % 2^k
<1> DEFINE f == [l \in Nat |-> Bit(n, s + l)]
<1>1. SameBits(bits, f, k)
  BY DEF SameBits
<1>2. FromBits(k, f) = (n \div 2^s) % 2^k
  BY Slice
<1> HIDE DEF f
<1>3. FromBits(k, bits) = FromBits(k, f)
  BY <1>1, FromBitsNext
<1> QED BY <1>2, <1>3, Zenon

\* From place 0 on.
LEMMA LowestBits ==
  ASSUME NEW n \in Nat, NEW k \in Nat, NEW bits, \A l \in 0..(k - 1) : bits[l] = Bit(n, l)
  PROVE  FromBits(k, bits) = n % 2^k
<1>1. PICK s \in Nat : s = 0
  OBVIOUS
<1>2. ASSUME NEW l \in 0..(k - 1) PROVE bits[l] = Bit(n, s + l)
  <2>1. s + l = l
    BY <1>1
  <2> QED BY <2>1
<1>3. FromBits(k, bits) = (n \div 2^s) % 2^k
  BY <1>2, LowBits
<1>4. 2^0 = 1 /\ n \div 1 = n
  OBVIOUS
<1> QED BY <1>1, <1>3, <1>4, Zenon

\* The places of bits all hold a bit.
AreBits(bits, k) == \A j \in 0..(k - 1) : bits[j] \in {0, 1}

\* Their sum is a value of k bits, and has these bits.
LEMMA SumOfBits ==
  ASSUME NEW bits
  PROVE  \A k \in Nat : AreBits(bits, k) =>
           /\ FromBits(k, bits) \in Nat /\ FromBits(k, bits) < 2^k
           /\ \A j \in 0..(k - 1) : Bit(FromBits(k, bits), j) = bits[j]
<1> DEFINE P(k) == /\ FromBits(k, bits) \in Nat /\ FromBits(k, bits) < 2^k
                   /\ \A j \in 0..(k - 1) : Bit(FromBits(k, bits), j) = bits[j]
           S == {k \in Nat : AreBits(bits, k) => P(k)}
<1>1. 0 \in S
  <2>1. FromBits(0, bits) = 0 /\ 2^0 = 1
    BY FromBitsNext
  <2> QED BY <2>1
<1>2. ASSUME NEW k \in S PROVE k + 1 \in S
  <2>0. k \in Nat /\ k + 1 \in Nat
    OBVIOUS
  <2> SUFFICES ASSUME AreBits(bits, k + 1) PROVE P(k + 1)
    BY <2>0
  <2>1. AreBits(bits, k)
    BY <2>0 DEF AreBits
  <2>2. PICK v \in Nat : /\ v = FromBits(k, bits) /\ v < 2^k
                         /\ \A j \in 0..(k - 1) : Bit(v, j) = bits[j]
    BY <2>1
  <2>3. PICK c \in {0, 1} : c = bits[k]
    BY <2>0 DEF AreBits
  <2>4. PICK p \in Nat \ {0} : p = 2^k /\ 2^(k + 1) = 2 * p
    BY <2>0, PowNat, PowNext
  <2>5. PICK z \in Nat : z = v + p * c
    BY <2>2, <2>3
  <2>6. FromBits(k + 1, bits) = z
    BY <2>0, <2>2, <2>3, <2>4, <2>5, FromBitsNext, Zenon
  <2>7. p * 0 = 0 /\ p * 1 = p
    OBVIOUS
  <2>8. z < 2 * p
    BY <2>2, <2>3, <2>4, <2>5, <2>7
  <2>9. ASSUME NEW j \in 0..((k + 1) - 1) PROVE Bit(z, j) = bits[j]
    <3>1. CASE j = k
      <4>1. z = c * p + v /\ v < p
        BY <2>2, <2>3, <2>4, <2>5
      <4>2. z \div p = c
        BY <2>3, <2>4, <4>1, DivUnique
      <4>3. c % 2 = c
        BY <2>3
      <4> QED BY <2>3, <2>4, <3>1, <4>2, <4>3, Zenon DEF Bit
    <3>2. CASE j # k
      <4>1. j \in 0..(k - 1) /\ j \in Nat /\ k - (j + 1) \in Nat /\ (j + 1) + (k - (j + 1)) = k
            /\ j + 1 \in Nat
        BY <2>0, <3>2
      <4>2. PICK g \in Nat \ {0} : g = 2^j /\ 2^(j + 1) = 2 * g
        BY <4>1, PowNat, PowNext
      <4>3. PICK m \in Nat : m = 2^(k - (j + 1))
        BY <4>1, PowNat
      <4>4. p = (2 * g) * m
        <5>1. 2^((j + 1) + (k - (j + 1))) = 2^(j + 1) * 2^(k - (j + 1))
          BY <4>1, PowSum
        <5> QED BY <2>4, <4>1, <4>2, <4>3, <5>1, Zenon
      <4>5. PICK l \in Nat : l = m * c
        BY <2>3, <4>3
      <4>6. p * c = (2 * l) * g
        <5>1. \A o1, o2, o3 \in Nat : ((2 * o1) * o2) * o3 = (2 * (o2 * o3)) * o1
          OBVIOUS
        <5> QED BY <2>3, <4>2, <4>3, <4>4, <4>5, <5>1
      <4>7. PICK d \in Nat, c2 \in Nat : d = v \div g /\ c2 < g /\ v = d * g + c2
        <5>1. v \div g \in Nat /\ v % g \in Nat /\ v % g < g /\ v = (v \div g) * g + (v % g)
          BY DivMod
        <5> QED BY <5>1, Zenon
      <4>8. z = (d + 2 * l) * g + c2
        <5>1. \A o1, o2, o3, o4 \in Nat : (o1 * o2 + o3) + o4 * o2 = (o1 + o4) * o2 + o3
          OBVIOUS
        <5>2. 2 * l \in Nat
          OBVIOUS
        <5>3. (d * g + c2) + (2 * l) * g = (d + 2 * l) * g + c2
          BY <4>2, <4>7, <5>1, <5>2
        <5> QED BY <2>5, <4>6, <4>7, <5>3, Zenon
      <4>9. z \div g = d + 2 * l
        <5>1. PICK f \in Nat : f = d + 2 * l
          OBVIOUS
        <5>2. z = f * g + c2
          BY <4>8, <5>1, Zenon
        <5> QED BY <4>2, <4>7, <5>1, <5>2, DivUnique
      <4>10. (d + 2 * l) % 2 = d % 2
        BY <4>7, <4>5
      <4>11. Bit(z, j) = Bit(v, j)
        BY <4>2, <4>7, <4>9, <4>10, Zenon DEF Bit
      <4> QED BY <2>2, <4>1, <4>11
    <3> QED BY <3>1, <3>2
  <2> QED BY <2>4, <2>6, <2>8, <2>9
<1>3. S = Nat
  <2>1. S \in SUBSET Nat
    OBVIOUS
  <2> HIDE DEF S
  <2> QED BY <1>1, <1>2, <2>1, Induct
<1> QED BY <1>3

\* Zeros above the lowest k bits add nothing, ones the difference of the powers.
LEMMA TailOfBits ==
  ASSUME NEW bits, NEW k \in Nat, AreBits(bits, k), NEW c \in {0, 1}
  PROVE  \A n \in Nat : (\A j \in k..(k + n - 1) : bits[j] = c) =>
           FromBits(k + n, bits) = FromBits(k, bits) + c * (2^(k + n) - 2^k)
<1> DEFINE P(n) == FromBits(k + n, bits) = FromBits(k, bits) + c * (2^(k + n) - 2^k)
           S == {n \in Nat : (\A j \in k..(k + n - 1) : bits[j] = c) => P(n)}
<1>1. PICK v \in Nat : v = FromBits(k, bits)
  BY SumOfBits
<1>2. PICK p \in Nat : p = 2^k
  BY PowNat
<1>3. 0 \in S
  <2>1. k + 0 = k /\ v = v + c * (p - p)
    OBVIOUS
  <2>2. P(0)
    BY <1>1, <1>2, <2>1, Zenon
  <2> QED BY <2>2
<1>4. ASSUME NEW n \in S PROVE n + 1 \in S
  <2>0. n \in Nat /\ n + 1 \in Nat /\ k + n \in Nat /\ k + (n + 1) = (k + n) + 1
    OBVIOUS
  <2> SUFFICES ASSUME \A j \in k..(k + (n + 1) - 1) : bits[j] = c PROVE P(n + 1)
    BY <2>0
  <2>1. bits[k + n] = c /\ \A j \in k..(k + n - 1) : bits[j] = c
    BY <2>0
  <2>2. P(n)
    BY <2>1
  <2>3. PICK g \in Nat : g = 2^(k + n) /\ 2^((k + n) + 1) = 2 * g
    BY <2>0, PowNat, PowNext
  <2>4. FromBits((k + n) + 1, bits) = FromBits(k + n, bits) + g * c
    BY <2>0, <2>1, <2>3, FromBitsNext, Zenon
  <2>5. FromBits(k + n, bits) = v + c * (g - p)
    BY <1>1, <1>2, <2>2, <2>3, Zenon
  <2>6. (v + c * (g - p)) + g * c = v + c * (2 * g - p)
    <3>1. CASE c = 0
      BY <1>1, <1>2, <2>3, <3>1
    <3>2. CASE c = 1
      BY <1>1, <1>2, <2>3, <3>2
    <3> QED BY <3>1, <3>2
  <2> QED BY <1>1, <1>2, <2>0, <2>3, <2>4, <2>5, <2>6, Zenon
<1>5. S = Nat
  <2>1. S \in SUBSET Nat
    OBVIOUS
  <2> HIDE DEF S
  <2> QED BY <1>3, <1>4, <2>1, Induct
<1> QED BY <1>5

\* The bits above the type of a value are zero.
LEMMA HighBits ==
  ASSUME NEW t \in Nat, NEW m \in Values(t), NEW j \in Nat, t <= j
  PROVE  Bit(m, j) = 0
<1>1. PICK p \in Nat : p = 2^t
  BY PowNat
<1>2. PICK g \in Nat \ {0} : g = 2^j
  BY PowNat
<1>3. m \in Nat /\ m < g
  <2>1. p <= g
    BY <1>1, <1>2, PowMono
  <2>2. m \in Nat /\ m < p
    BY <1>1, ValuesAre
  <2> QED BY <2>1, <2>2
<1>4. m \div g = 0
  BY <1>3
<1>5. 0 % 2 = 0
  OBVIOUS
<1> QED BY <1>2, <1>4, <1>5, Zenon DEF Bit

\* The bits AND, OR and XOR put together.
BitOps == {"AND", "OR", "XOR"}
OpBit(op, c, d) ==
  CASE op = "AND" -> c * d [] op = "OR" -> c + d - c * d [] op = "XOR" -> (c + d) % 2
OpBits(op, m, n, k) == [j \in 0..(k - 1) |-> OpBit(op, Bit(m, j), Bit(n, j))]

\* A bit put together is a bit, and is none where neither operand has one.
LEMMA OpBitsFacts ==
  ASSUME NEW op \in BitOps, NEW m \in Nat, NEW n \in Nat, NEW k \in Nat, NEW j \in 0..(k - 1)
  PROVE  /\ OpBits(op, m, n, k)[j] \in {0, 1}
         /\ Bit(m, j) = 0 /\ Bit(n, j) = 0 => OpBits(op, m, n, k)[j] = 0
         /\ op = "AND" => OpBits(op, m, n, k)[j] = Bit(m, j) * Bit(n, j)
         /\ op = "OR" => OpBits(op, m, n, k)[j] = Bit(m, j) + Bit(n, j) - Bit(m, j) * Bit(n, j)
<1>1. PICK c \in {0, 1}, d \in {0, 1} : c = Bit(m, j) /\ d = Bit(n, j)
  BY BitType
<1>2. OpBits(op, m, n, k)[j] = OpBit(op, c, d)
  BY <1>1 DEF OpBits
<1>3. /\ op = "AND" => OpBits(op, m, n, k)[j] = c * d
      /\ op = "OR" => OpBits(op, m, n, k)[j] = c + d - c * d
      /\ op = "XOR" => OpBits(op, m, n, k)[j] = (c + d) % 2
  BY <1>2 DEF OpBit
<1>4. /\ c * d \in {0, 1} /\ c + d - c * d \in {0, 1} /\ (c + d) % 2 \in {0, 1}
      /\ c = 0 /\ d = 0 => c * d = 0 /\ c + d - c * d = 0 /\ (c + d) % 2 = 0
  BY <1>1
<1> QED BY <1>1, <1>3, <1>4, Zenon DEF BitOps

\* They are a value of the type, and the same word for every type that has the
\* values of both operands.
LEMMA OnBitsFacts ==
  ASSUME NEW op \in BitOps, NEW t \in Nat, NEW m \in Values(t), NEW n \in Values(t)
  PROVE  /\ OnBits(op, m, n, t) \in Values(t)
         /\ \A k \in Nat : t <= k => OnBits(op, m, n, k) = OnBits(op, m, n, t)
<1>1. m \in Nat /\ n \in Nat
  BY ValuesAre
<1>2. \A k : OnBits(op, m, n, k) = FromBits(k, OpBits(op, m, n, k))
  BY DEF OnBits, OpBits, OpBit
<1>3. \A k \in Nat : AreBits(OpBits(op, m, n, k), k)
  BY <1>1, OpBitsFacts DEF AreBits
<1>4. OnBits(op, m, n, t) \in Values(t)
  BY <1>2, <1>3, SumOfBits, ValuesAre
<1>5. ASSUME NEW k \in Nat, t <= k PROVE OnBits(op, m, n, k) = OnBits(op, m, n, t)
  <2> DEFINE c == OpBits(op, m, n, k)
             d == OpBits(op, m, n, t)
  <2>1. k - t \in Nat /\ t + (k - t) = k
    BY <1>5
  <2>2. SameBits(c, d, t)
    <3> SUFFICES ASSUME NEW j \in 0..(t - 1) PROVE c[j] = d[j]
      BY DEF SameBits
    <3>1. j \in 0..(k - 1)
      BY <1>5
    <3> QED BY <3>1 DEF OpBits
  <2>3. FromBits(t, c) = FromBits(t, d)
    <3> HIDE DEF c, d
    <3> QED BY <2>2, FromBitsNext
  <2>4. \A j \in t..(k - 1) : c[j] = 0
    <3> SUFFICES ASSUME NEW j \in t..(k - 1) PROVE c[j] = 0
      OBVIOUS
    <3>1. j \in Nat /\ j \in 0..(k - 1) /\ t <= j
      OBVIOUS
    <3>2. Bit(m, j) = 0 /\ Bit(n, j) = 0
      BY <3>1, HighBits
    <3> QED BY <1>1, <3>1, <3>2, OpBitsFacts
  <2>5. AreBits(c, t)
    <3>1. AreBits(c, k)
      BY <1>3
    <3>2. \A j \in 0..(t - 1) : j \in 0..(k - 1)
      BY <1>5
    <3> HIDE DEF c
    <3> QED BY <3>1, <3>2 DEF AreBits
  <2>6. FromBits(t + (k - t), c) = FromBits(t, c) + 0 * (2^(t + (k - t)) - 2^t)
    <3>1. t + (k - t) - 1 = k - 1 /\ 0 \in {0, 1}
      BY <2>1
    <3>2. \A j \in t..(t + (k - t) - 1) : c[j] = 0
      BY <2>4, <3>1, Zenon
    <3> HIDE DEF c
    <3> QED BY <2>1, <2>5, <3>1, <3>2, TailOfBits, Zenon
  <2>7. PICK v \in Nat : v = FromBits(t, c)
    <3> HIDE DEF c
    <3> QED BY <2>5, SumOfBits
  <2>8. PICK p \in Nat : p = 2^t
    BY PowNat
  <2>9. PICK g \in Nat : g = 2^k
    BY PowNat
  <2>10. v + 0 * (g - p) = v
    OBVIOUS
  <2>11. FromBits(k, c) = FromBits(t, c)
    BY <2>1, <2>6, <2>7, <2>8, <2>9, <2>10, Zenon
  <2> HIDE DEF c, d
  <2>12. FromBits(k, c) = FromBits(t, d)
    BY <2>3, <2>11, Zenon
  <2> QED BY <1>2, <2>12, Zenon DEF c, d
<1> QED BY <1>4, <1>5

(***************************************************************************)
(* Bytes.                                                                  *)
(***************************************************************************)
\* A word is made of whole bytes.
LEMMA BytesOfWord ==
  /\ NBytes \in Nat \ {0} /\ W = ByteBits * NBytes /\ ByteBits \in Nat \ {0} /\ W \in Nat
  /\ ByteBits <= W
<1>1. ByteBits \in Nat \ {0} /\ W \in Nat /\ W # 0 /\ W % ByteBits = 0
  BY WidthAssumption, WordAssumption
<1>2. PICK d \in Nat : d = W \div ByteBits /\ W = d * ByteBits + 0
  BY <1>1, DivMod
<1>3. W = ByteBits * d
  BY <1>1, <1>2
<1>4. d # 0
  BY <1>1, <1>3
<1>5. ByteBits <= ByteBits * d
  BY <1>1, <1>4
<1> QED BY <1>1, <1>2, <1>3, <1>4, <1>5 DEF NBytes

\* The byte of the swapped word at the place the index names is the byte the
\* EVM counts from the other end.
LEMMA ByteAgrees ==
  ASSUME NEW n \in Values(W), NEW idx \in Nat, idx < NBytes
  PROVE  /\ ByteOf(Swapped(n), Cut(idx)) = ByteOf(n, NBytes - 1 - idx)
         /\ ByteOf(n, NBytes - 1 - idx) \in Values(W)
<1>1. PICK K \in Nat \ {0}, M \in Nat \ {0} :
        K = ByteBits /\ M = NBytes /\ W = K * M /\ W \in Nat /\ K <= W
  BY BytesOfWord
<1>2. n \in Nat
  BY <1>1, ValuesAre
<1> DEFINE at2(j) == K * (M - 1 - j \div K) + (j % K)
           f == [j \in 0..(W - 1) |-> Bit(n, at2(j))]
<1>3. ASSUME NEW k \in Nat, k < M, NEW l \in Nat, l < K
      PROVE  /\ K * k + l \in 0..(W - 1) /\ K * k + l \in Nat
             /\ (K * k + l) \div K = k /\ (K * k + l) % K = l
  <2>1. PICK g \in Nat : M = k + 1 + g
    <3>1. M - (k + 1) \in Nat /\ M = k + 1 + (M - (k + 1))
      BY <1>3
    <3> QED BY <3>1
  <2>2. K * M = K * k + K + K * g
    BY <2>1
  <2>3. PICK j1 \in Nat, j2 \in Nat : j1 = K * k /\ j2 = K * g
    OBVIOUS
  <2>4. j1 + l \in Nat /\ j1 + l <= j1 + K + j2 - 1
    BY <1>3, <2>3
  <2>5. K * k + l \in 0..(W - 1) /\ K * k + l \in Nat
    BY <1>1, <2>2, <2>3, <2>4
  <2>6. PICK s \in Nat : s = K * k + l /\ s = k * K + l
    BY <2>5
  <2> QED BY <1>3, <2>5, <2>6, DivUnique
<1>4. Cut(idx) = idx
  BY <1>1 DEF Cut
<1>5. AreBits(f, W)
  <2> SUFFICES ASSUME NEW j \in 0..(W - 1) PROVE f[j] \in {0, 1}
    BY DEF AreBits
  <2>1. at2(j) \in Nat
    <3>0. j \in Nat /\ j < K * M
      BY <1>1
    <3>1. PICK d \in Nat, c \in Nat : d = j \div K /\ c = j % K /\ j = d * K + c
      <4>1. j \div K \in Nat /\ j % K \in Nat /\ j = (j \div K) * K + (j % K)
        BY <3>0, DivMod
      <4> QED BY <4>1, Zenon
    <3>2. d < M
      <4> SUFFICES ASSUME d >= M PROVE FALSE
        BY <3>1
      <4>1. PICK g \in Nat : d = M + g
        <5>1. d - M \in Nat /\ d = M + (d - M)
          OBVIOUS
        <5> QED BY <5>1
      <4>2. d * K = K * M + g * K
        BY <4>1
      <4>3. PICK j1 \in Nat, j2 \in Nat : j1 = K * M /\ j2 = g * K
        OBVIOUS
      <4> QED BY <3>0, <3>1, <4>2, <4>3
    <3>3. M - 1 - d \in Nat
      BY <3>1, <3>2
    <3>4. K * (M - 1 - d) + c \in Nat
      BY <3>1, <3>3
    <3> QED BY <3>1, <3>4
  <2>2. Bit(n, at2(j)) \in {0, 1}
    BY <1>2, <2>1, BitType
  <2> QED BY <2>2
<1>6. Swapped(n) = FromBits(W, f)
  BY <1>1 DEF Swapped
<1>7. \A j \in 0..(W - 1) : f[j] = Bit(n, at2(j))
  OBVIOUS
<1> HIDE DEF f
<1>8. PICK v \in Nat : v = Swapped(n) /\ \A j \in 0..(W - 1) : Bit(v, j) = Bit(n, at2(j))
  BY <1>1, <1>5, <1>6, <1>7, SumOfBits
<1>9. PICK s1 \in Nat : s1 = K * idx
  OBVIOUS
<1>10. M - 1 - idx \in Nat /\ M - 1 - idx < M /\ M - 1 - (M - 1 - idx) = idx
  BY <1>1
<1>11. PICK s2 \in Nat : s2 = K * (M - 1 - idx)
  BY <1>10
<1>12. ASSUME NEW l \in 0..(K - 1) PROVE Bit(v, s1 + l) = Bit(n, s2 + l)
  <2>1. l \in Nat /\ l < K
    OBVIOUS
  <2>2. /\ s1 + l \in 0..(W - 1) /\ (s1 + l) \div K = idx /\ (s1 + l) % K = l
    BY <1>1, <1>3, <1>9, <2>1
  <2>3. at2(s1 + l) = s2 + l
    BY <1>11, <2>2
  <2> QED BY <1>8, <2>2, <2>3
<1>13. (v \div 2^s1) % 2^K = (n \div 2^s2) % 2^K
  <2> DEFINE bits == [l \in 0..(K - 1) |-> Bit(n, s2 + l)]
  <2>1. FromBits(K, bits) = (n \div 2^s2) % 2^K
    <3>1. \A l \in 0..(K - 1) : bits[l] = Bit(n, s2 + l)
      OBVIOUS
    <3> HIDE DEF bits
    <3> QED BY <1>2, <3>1, LowBits
  <2>2. FromBits(K, bits) = (v \div 2^s1) % 2^K
    <3>1. \A l \in 0..(K - 1) : bits[l] = Bit(v, s1 + l)
      BY <1>12
    <3> HIDE DEF bits
    <3> QED BY <3>1, LowBits
  <2> QED BY <2>1, <2>2, Zenon
<1>14. ByteOf(n, NBytes - 1 - idx) = (n \div 2^s2) % 2^K
  BY <1>1, <1>11, Zenon DEF ByteOf
<1>15. ByteOf(Swapped(n), Cut(idx)) = (v \div 2^s1) % 2^K
  BY <1>1, <1>4, <1>8, <1>9, Zenon DEF ByteOf
<1>16. (n \div 2^s2) % 2^K \in Values(W)
  <2>1. PICK g \in Nat \ {0} : g = 2^s2
    BY PowNat
  <2>2. PICK d \in Nat : d = n \div g
    BY <1>2, <2>1, DivMod
  <2>3. Wrap(d, K) \in Values(K)
    BY WrapFacts
  <2>4. Values(K) \subseteq Values(W)
    BY <1>1, ValuesGrow
  <2> QED BY <2>1, <2>2, <2>3, <2>4 DEF Wrap
<1> QED BY <1>13, <1>14, <1>15, <1>16, Zenon

\* The bits of a power of two less a number that is not larger than 2^j.
LEMMA BitsBelowPower ==
  ASSUME NEW n \in Nat, NEW j \in Nat, j < n, NEW c \in Nat \ {0}, c <= 2^j
  PROVE  Bit(2^n - c, j) = 1
<1>1. PICK g \in Nat \ {0} : g = 2^j /\ 2^(j + 1) = 2 * g
  BY PowNat, PowNext
<1>2. j + 1 \in Nat /\ n - (j + 1) \in Nat /\ (j + 1) + (n - (j + 1)) = n
  OBVIOUS
<1>3. PICK m \in Nat \ {0} : m = 2^(n - (j + 1))
  BY <1>2, PowNat
<1>4. 2^n = (2 * g) * m
  <2>1. 2^((j + 1) + (n - (j + 1))) = 2^(j + 1) * 2^(n - (j + 1))
    BY <1>2, PowSum
  <2> QED BY <1>1, <1>2, <1>3, <2>1, Zenon
<1>5. PICK l \in Nat : m = l + 1
  <2>1. m - 1 \in Nat /\ m = (m - 1) + 1
    OBVIOUS
  <2> QED BY <2>1
<1>6. (2 * g) * m = (2 * l + 1) * g + g
  BY <1>5
<1>7. PICK d \in Nat, s \in Nat : d = 2 * l + 1 /\ s = g - c /\ s < g
  BY <1>1
<1>8. PICK z \in Nat : z = 2^n - c /\ z = d * g + s
  <2>1. PICK o \in Nat : o = d * g
    BY <1>7
  <2>2. 2^n = o + g
    BY <1>4, <1>6, <1>7, <2>1, Zenon
  <2>3. (o + g) - c = o + s /\ o + s \in Nat
    BY <1>1, <1>7, <2>1
  <2> QED BY <2>1, <2>2, <2>3, Zenon
<1>9. z \div g = d
  BY <1>7, <1>8, DivUnique
<1>10. d % 2 = 1
  BY <1>7
<1> QED BY <1>1, <1>8, <1>9, <1>10, Zenon DEF Bit

\* The bits below k of a multiple of 2^k are zero.
LEMMA LowZeros ==
  ASSUME NEW k \in Nat, NEW j \in Nat, j < k, NEW n \in Nat
  PROVE  Bit(n * 2^k, j) = 0
<1>1. PICK g \in Nat \ {0} : g = 2^j /\ 2^(j + 1) = 2 * g
  BY PowNat, PowNext
<1>2. j + 1 \in Nat /\ k - (j + 1) \in Nat /\ (j + 1) + (k - (j + 1)) = k
  OBVIOUS
<1>3. PICK m \in Nat : m = 2^(k - (j + 1))
  BY <1>2, PowNat
<1>4. 2^k = (2 * g) * m
  <2>1. 2^((j + 1) + (k - (j + 1))) = 2^(j + 1) * 2^(k - (j + 1))
    BY <1>2, PowSum
  <2> QED BY <1>1, <1>2, <1>3, <2>1, Zenon
<1>5. n * ((2 * g) * m) = (2 * (n * m)) * g + 0
  <2>1. \A o1, o2, o3 \in Nat : o1 * ((2 * o2) * o3) = (2 * (o1 * o3)) * o2 + 0
    OBVIOUS
  <2> QED BY <1>1, <1>3, <2>1
<1>6. PICK l \in Nat : l = n * m
  BY <1>3
<1>7. PICK d \in Nat, z \in Nat : d = 2 * l /\ z = d * g + 0 /\ z = n * 2^k
  <2>1. 2 * l \in Nat /\ (2 * l) * g + 0 \in Nat
    OBVIOUS
  <2>2. n * 2^k = (2 * l) * g + 0
    BY <1>4, <1>5, <1>6, Zenon
  <2> QED BY <2>1, <2>2, Zenon
<1>8. z \div g = d
  BY <1>7, DivUnique
<1>9. d % 2 = 0
  BY <1>7
<1> QED BY <1>1, <1>7, <1>8, <1>9, Zenon DEF Bit

\* A word cut to the mask: its lowest k bits.
LEMMA MaskedLow ==
  ASSUME NEW n \in Values(W), NEW k \in Nat, k < W
  PROVE  OnBits("AND", n, 2^k - 1, W) = n % 2^k
<1>1. PICK p \in Nat \ {0} : p = 2^k
  BY PowNat
<1>2. PICK mask \in Nat : mask = p - 1 /\ mask \in Values(k)
  <2>1. p - 1 \in Nat /\ p - 1 < p
    OBVIOUS
  <2> QED BY <1>1, <2>1, ValuesAre
<1>3. n \in Nat /\ W \in Nat /\ "AND" \in BitOps
  BY WordAssumption, ValuesAre DEF BitOps
<1> DEFINE c == OpBits("AND", n, mask, W)
<1>4. OnBits("AND", n, 2^k - 1, W) = FromBits(W, c)
  BY <1>1, <1>2 DEF OnBits, OpBits, OpBit
<1>5. \A j \in 0..(W - 1) : c[j] \in {0, 1} /\ c[j] = Bit(n, j) * Bit(mask, j)
  BY <1>2, <1>3, OpBitsFacts
<1>6. \A j \in 0..(k - 1) : c[j] = Bit(n, j)
  <2> SUFFICES ASSUME NEW j \in 0..(k - 1) PROVE c[j] = Bit(n, j)
    OBVIOUS
  <2>1. j \in 0..(W - 1) /\ j \in Nat /\ j < k
    BY <1>3
  <2>2. PICK g \in Nat \ {0} : g = 2^j
    BY <2>1, PowNat
  <2>3. Bit(mask, j) = 1
    <3>1. 1 <= g /\ 1 \in Nat \ {0}
      OBVIOUS
    <3>2. Bit(2^k - 1, j) = 1
      BY <2>1, <2>2, <3>1, BitsBelowPower
    <3> QED BY <1>1, <1>2, <3>2
  <2>4. Bit(n, j) * 1 = Bit(n, j)
    <3>1. Bit(n, j) \in Nat
      BY <1>3, <2>1, BitType
    <3> QED BY <3>1
  <2> HIDE DEF c
  <2> QED BY <1>5, <2>1, <2>3, <2>4, Zenon
<1>7. \A j \in k..(W - 1) : c[j] = 0
  <2> SUFFICES ASSUME NEW j \in k..(W - 1) PROVE c[j] = 0
    OBVIOUS
  <2>1. j \in 0..(W - 1) /\ j \in Nat /\ k <= j
    BY <1>3
  <2>2. Bit(mask, j) = 0
    BY <1>2, <2>1, HighBits
  <2>3. Bit(n, j) * 0 = 0
    <3>1. Bit(n, j) \in Nat
      BY <1>3, <2>1, BitType
    <3> QED BY <3>1
  <2> HIDE DEF c
  <2> QED BY <1>5, <2>1, <2>2, <2>3, Zenon
<1> HIDE DEF c
<1>8. AreBits(c, k)
  <2>1. \A j \in 0..(k - 1) : j \in 0..(W - 1)
    BY <1>3
  <2> QED BY <1>5, <2>1 DEF AreBits
<1>9. FromBits(k, c) = n % 2^k
  BY <1>3, <1>6, LowestBits
<1>10. W - k \in Nat /\ k + (W - k) = W /\ k + (W - k) - 1 = W - 1 /\ 0 \in {0, 1}
  BY <1>3
<1>11. FromBits(W, c) = FromBits(k, c) + 0 * (2^W - 2^k)
  <2>1. \A j \in k..(k + (W - k) - 1) : c[j] = 0
    BY <1>7, <1>10, Zenon
  <2>2. FromBits(k + (W - k), c) = FromBits(k, c) + 0 * (2^(k + (W - k)) - 2^k)
    BY <1>8, <1>10, <2>1, TailOfBits, Zenon
  <2> QED BY <1>10, <2>2, Zenon
<1>12. PICK N \in Nat : N = 2^W
  BY <1>3, PowNat
<1>13. PICK v \in Nat : v = FromBits(k, c)
  BY <1>8, SumOfBits
<1>14. v + 0 * (N - p) = v
  OBVIOUS
<1> QED BY <1>1, <1>4, <1>9, <1>11, <1>12, <1>13, <1>14, Zenon

\* A word with all bits from k on set.
LEMMA MaskedHigh ==
  ASSUME NEW n \in Values(W), NEW k \in Nat, k < W
  PROVE  OnBits("OR", n, 2^W - 1 - (2^k - 1), W) = (n % 2^k) + (2^W - 2^k)
<1>0. W \in Nat /\ n \in Nat /\ "OR" \in BitOps
  BY WordAssumption, ValuesAre DEF BitOps
<1>1. PICK p \in Nat \ {0} : p = 2^k
  BY PowNat
<1>2. PICK N \in Nat \ {0} : N = 2^W
  BY <1>0, PowNat
<1>3. PICK l \in Nat : N = (l + 1) * p
  <2>1. W - k \in Nat /\ k + (W - k) = W
    BY <1>0
  <2>2. PICK m \in Nat \ {0} : m = 2^(W - k)
    BY <2>1, PowNat
  <2>3. N = p * m
    <3>1. 2^(k + (W - k)) = 2^k * 2^(W - k)
      BY <2>1, PowSum
    <3> QED BY <1>1, <1>2, <2>1, <2>2, <3>1, Zenon
  <2>4. m - 1 \in Nat /\ p * m = ((m - 1) + 1) * p
    OBVIOUS
  <2> QED BY <2>3, <2>4, Zenon
<1>4. PICK mask \in Nat : mask = N - p /\ mask = l * p
  <2>1. l * p \in Nat /\ (l + 1) * p = l * p + p
    OBVIOUS
  <2>2. PICK o \in Nat : o = l * p
    BY <2>1
  <2>3. N - p = o
    BY <1>3, <2>1, <2>2
  <2> QED BY <2>2, <2>3, Zenon
<1>5. N - 1 - (p - 1) = mask
  BY <1>4
<1> DEFINE c == OpBits("OR", n, mask, W)
<1>6. OnBits("OR", n, 2^W - 1 - (2^k - 1), W) = FromBits(W, c)
  BY <1>1, <1>2, <1>5 DEF OnBits, OpBits, OpBit
<1>7. \A j \in 0..(W - 1) :
        c[j] \in {0, 1} /\ c[j] = Bit(n, j) + Bit(mask, j) - Bit(n, j) * Bit(mask, j)
  BY <1>0, <1>4, OpBitsFacts
<1>8. \A u \in {0, 1} : u + 0 - u * 0 = u /\ u + 1 - u * 1 = 1
  OBVIOUS
<1>9. \A j \in 0..(k - 1) : c[j] = Bit(n, j)
  <2> SUFFICES ASSUME NEW j \in 0..(k - 1) PROVE c[j] = Bit(n, j)
    OBVIOUS
  <2>1. j \in 0..(W - 1) /\ j \in Nat /\ j < k
    BY <1>0
  <2>2. Bit(mask, j) = 0
    BY <1>1, <1>4, <2>1, LowZeros
  <2>3. Bit(n, j) \in {0, 1}
    BY <1>0, <2>1, BitType
  <2> HIDE DEF c
  <2> QED BY <1>7, <1>8, <2>1, <2>2, <2>3, Zenon
<1>10. \A j \in k..(W - 1) : c[j] = 1
  <2> SUFFICES ASSUME NEW j \in k..(W - 1) PROVE c[j] = 1
    OBVIOUS
  <2>1. j \in 0..(W - 1) /\ j \in Nat /\ k <= j /\ j < W
    BY <1>0
  <2>2. p <= 2^j
    BY <1>1, <2>1, PowMono
  <2>3. Bit(mask, j) = 1
    <3>1. Bit(2^W - p, j) = 1
      BY <1>0, <2>1, <2>2, BitsBelowPower
    <3> QED BY <1>2, <1>4, <3>1
  <2>4. Bit(n, j) \in {0, 1}
    BY <1>0, <2>1, BitType
  <2> HIDE DEF c
  <2> QED BY <1>7, <1>8, <2>1, <2>3, <2>4, Zenon
<1> HIDE DEF c
<1>11. AreBits(c, k)
  <2>1. \A j \in 0..(k - 1) : j \in 0..(W - 1)
    BY <1>0
  <2> QED BY <1>7, <2>1 DEF AreBits
<1>12. FromBits(k, c) = n % 2^k
  BY <1>0, <1>9, LowestBits
<1>13. W - k \in Nat /\ k + (W - k) = W /\ k + (W - k) - 1 = W - 1 /\ 1 \in {0, 1}
  BY <1>0
<1>14. FromBits(W, c) = FromBits(k, c) + 1 * (2^W - 2^k)
  <2>1. \A j \in k..(k + (W - k) - 1) : c[j] = 1
    BY <1>10, <1>13, Zenon
  <2>2. FromBits(k + (W - k), c) = FromBits(k, c) + 1 * (2^(k + (W - k)) - 2^k)
    BY <1>11, <1>13, <2>1, TailOfBits, Zenon
  <2> QED BY <1>13, <2>2, Zenon
<1>15. 1 * (N - p) = N - p
  OBVIOUS
<1> QED BY <1>1, <1>2, <1>6, <1>12, <1>14, <1>15, Zenon

\* Sign extension from byte idx on, with the masks, is the EVM's.
LEMMA ExtendAgrees ==
  ASSUME NEW idx \in Values(W), NEW word \in Values(W)
  PROVE  Extended(idx, word) \in Values(W) /\ Extended(idx, word) = EvmExtended(idx, word)
<1>1. PICK K \in Nat \ {0}, M \in Nat \ {0} :
        K = ByteBits /\ M = NBytes /\ W = K * M /\ W \in Nat
  BY BytesOfWord
<1>2. idx \in Nat /\ word \in Nat
  BY <1>1, ValuesAre
<1>3. CASE idx <= M - 2
  <2>1. PICK k \in Nat : k = idx * K + (K - 1) /\ k + 1 = K * (idx + 1)
    BY <1>2
  <2>2. k + 1 < W
    <3>1. PICK g \in Nat : M = (idx + 1) + (g + 1)
      <4>1. M - 2 - idx \in Nat /\ M = (idx + 1) + ((M - 2 - idx) + 1)
        BY <1>2, <1>3
      <4> QED BY <4>1
    <3>2. K * M = K * (idx + 1) + K * g + K
      BY <1>2, <3>1
    <3>3. PICK j \in Nat : j = K * g
      OBVIOUS
    <3> QED BY <1>1, <2>1, <3>2, <3>3
  <2>3. k < W /\ k + 1 \in Nat /\ k + 1 # 0 /\ (k + 1) - 1 = k /\ k + 1 <= W
    BY <1>1, <2>2
  <2>4. Cut(idx) = idx
    BY <1>1, <1>2, <1>3 DEF Cut
  <2>5. PICK p \in Nat \ {0} : p = 2^k /\ 2^(k + 1) = 2 * p
    BY PowNat, PowNext
  <2>6. PICK N \in Nat \ {0} : N = 2^W /\ 2 * p <= N
    BY <1>1, <2>3, <2>5, PowNat, PowMono
  <2>7. PICK low \in Nat : low = word % p /\ low < p
    BY <1>2, DivMod
  <2>8. PICK c \in {0, 1} : c = Bit(word, k)
    BY <1>2, BitType
  <2>9. Wrap(word, k + 1) = low + p * c
    <3>1. word % 2^(k + 1) = (word % 2^k) + 2^k * Bit(word, k)
      BY <1>2, ModNext
    <3> QED BY <2>5, <2>7, <2>8, <3>1, Zenon DEF Wrap
  <2>10. Extended(idx, word)
           = IF Bit(word, k) = 1 THEN OnBits("OR", word, 2^W - 1 - (2^k - 1), W)
                                 ELSE OnBits("AND", word, 2^k - 1, W)
    BY <1>1, <1>3, <2>1, <2>4, Zenon DEF Extended
  <2>11. EvmExtended(idx, word) = Wrap(Signed(Wrap(word, k + 1), k + 1), W)
    BY <1>1, <2>1, <2>2, Zenon DEF EvmExtended
  <2>12. CASE c = 0
    <3>1. low + p * c = low
      BY <2>12
    <3>2. ~(low >= p)
      BY <2>7
    <3>3. Signed(low, k + 1) = low
      BY <2>3, <2>5, <3>2, Zenon DEF Signed, IsNeg
    <3>4. low \in Values(W)
      <4>1. low < N
        BY <2>6, <2>7
      <4> QED BY <1>1, <2>6, <4>1, ValuesAre
    <3>5. EvmExtended(idx, word) = low
      BY <1>1, <2>9, <2>11, <3>1, <3>3, <3>4, WrapFacts
    <3>6. Extended(idx, word) = low
      <4>1. OnBits("AND", word, 2^k - 1, W) = word % 2^k
        BY <2>3, MaskedLow
      <4> QED BY <2>5, <2>7, <2>8, <2>10, <2>12, <4>1
    <3> QED BY <3>4, <3>5, <3>6
  <2>13. CASE c = 1
    <3>1. low + p * c = low + p
      BY <2>13
    <3>2. low + p >= p
      BY <2>7
    <3>3. Signed(low + p, k + 1) = (low + p) - 2 * p
      BY <2>3, <2>5, <3>2, Zenon DEF Signed, IsNeg
    <3>4. PICK v \in Nat : v = low + (N - p) /\ v < N
      BY <2>6, <2>7
    <3>5. v \in Values(W)
      BY <1>1, <2>6, <3>4, ValuesAre
    <3>6. ((low + p) - 2 * p) % N = v
      <4>1. (low + p) - 2 * p = N * (-1) + v
        BY <3>4
      <4>2. (N * (-1) + v) % N = v % N
        <5>1. -1 \in Int /\ v \in Int
          OBVIOUS
        <5> QED BY <2>6, <5>1, ModAdd, Zenon
      <4>3. v % N = v
        BY <2>6, <3>4
      <4> QED BY <4>1, <4>2, <4>3, Zenon
    <3>7. EvmExtended(idx, word) = v
      BY <2>6, <2>9, <2>11, <3>1, <3>3, <3>6, Zenon DEF Wrap
    <3>8. Extended(idx, word) = v
      <4>1. OnBits("OR", word, 2^W - 1 - (2^k - 1), W) = (word % 2^k) + (2^W - 2^k)
        BY <2>3, MaskedHigh
      <4> QED BY <2>5, <2>6, <2>7, <2>8, <2>10, <2>13, <3>4, <4>1
    <3> QED BY <3>5, <3>7, <3>8
  <2> QED BY <2>12, <2>13
<1>4. CASE ~(idx <= M - 2)
  <2>1. Extended(idx, word) = word
    BY <1>1, <1>4, Zenon DEF Extended
  <2>2. ~(K * (idx + 1) < W)
    <3>1. PICK g \in Nat : idx + 1 = M + g
      <4>1. (idx + 1) - M \in Nat /\ idx + 1 = M + ((idx + 1) - M)
        BY <1>2, <1>4
      <4> QED BY <4>1
    <3>2. K * (M + g) = K * M + K * g
      OBVIOUS
    <3>3. PICK j \in Nat : j = K * g
      OBVIOUS
    <3> QED BY <1>1, <3>1, <3>2, <3>3
  <2>3. EvmExtended(idx, word) = word
    BY <1>1, <2>2, Zenon DEF EvmExtended
  <2> QED BY <2>1, <2>3
<1> QED BY <1>3, <1>4

\* A power is a word.
LEMMA ExpWord ==
  ASSUME NEW m \in Nat, NEW n \in Nat
  PROVE  EvmExp(m, n, W) \in Values(W)
<1>0. W \in Nat
  BY WordAssumption
<1>1. CASE n = 0
  <2>1. EvmExp(m, 0, W) = Wrap(1, W)
    BY ExpNext
  <2> QED BY <1>0, <1>1, <2>1, WrapFacts
<1>2. CASE n # 0
  <2>1. PICK k \in Nat : n = k + 1
    <3>1. n - 1 \in Nat /\ n = (n - 1) + 1
      BY <1>2
    <3> QED BY <3>1
  <2>2. PICK v \in Nat : v = EvmExp(m, k, W)
    BY <1>0, ExpType
  <2>3. EvmExp(m, k + 1, W) = Wrap(v * m, W)
    BY <2>2, ExpNext
  <2>4. v * m \in Int
    OBVIOUS
  <2> QED BY <1>0, <2>1, <2>3, <2>4, WrapFacts
<1> QED BY <1>1, <1>2

\* Neither does the remainder of ADDMOD and MULMOD wrap.
LEMMA ModularAgrees ==
  ASSUME NEW n \in Nat, NEW m \in Values(W)
  PROVE  /\ (IF m = 0 THEN 0 ELSE Wrap(URemOf(n, m), W)) = EvmMod(n, m)
         /\ EvmMod(n, m) \in Values(W)
<1>0. W \in Nat /\ m \in Nat
  BY WordAssumption, ValuesAre
<1>1. CASE m = 0
  <2>1. 0 \in Values(W)
    BY <1>0, <1>1
  <2> QED BY <1>1, <2>1 DEF EvmMod
<1>2. CASE m # 0
  <2>1. PICK c \in Nat : c = n % m /\ c < m
    BY <1>0, <1>2, DivMod
  <2>2. PICK N \in Nat : N = 2^W
    BY <1>0, PowNat
  <2>3. m < N
    BY <1>0, <2>2, ValuesAre
  <2>4. c < N
    BY <1>0, <2>1, <2>3
  <2>5. c \in Values(W)
    BY <1>0, <2>2, <2>4, ValuesAre
  <2>6. Wrap(c, W) = c
    BY <1>0, <2>5, WrapFacts
  <2> QED BY <1>2, <2>1, <2>5, <2>6 DEF URemOf, EvmMod
<1> QED BY <1>1, <1>2

(***************************************************************************)
(* Histories of instructions.                                              *)
(***************************************************************************)
\* A value of its type.
ValueOK(it) == it.v \in Values(it.w)

\* The values on the stack, and what the last instruction came to.
ValuesInv ==
  /\ \A k \in 1..Len(stack) : ValueOK(stack[k])
  /\ last.kind \in Kinds /\ steps \in 0..MaxSteps

\* What InstructionsAgree says of the last instruction.
RulesInv == ArithmeticAgrees /\ SignedAgrees /\ BitsAgree

\* With it every conjunct of InstructionsAgree holds, and is kept.
WordsInv == NarrowInv /\ ValuesInv /\ RulesInv

\* Instructions that always yield what the EVM does.  In the rules that follow,
\* f and s are the first and the second operand.
ExactOps == {"ADDMOD", "MULMOD", "EXP", "LT", "GT", "EQ", "ISZERO", "AND", "OR", "XOR",
             "BYTE", "SIGNEXTEND", "SHR"}

\* The instructions on signed words, as SignedAgrees has them.
SignedRule(op, f, s, got, want) ==
  /\ op \in DivOps =>
       \/ got = want
       \/ s.v = 0
       \/ op # "MOD" /\ f.w = s.w /\ f.w < W /\ (IsNeg(f.v, f.w) \/ IsNeg(s.v, f.w))
  /\ op \in {"SLT", "SGT"} =>
       (got = want <=> ~(f.w = s.w /\ f.w < W /\ IsNeg(f.v, f.w) # IsNeg(s.v, f.w)))
  /\ op = "SAR" => (got = want <=> f.w = W \/ f.v = 0 \/ ~IsNeg(s.v, f.w))

\* All of them.
InstructionRule(op, f, s, got, want) ==
  /\ op \in SafeOps =>
       (got = want <=> IF op = "DIV" THEN s.v # 0
                       ELSE IF f.w = s.w THEN want \in Values(f.w)
                       ELSE op # "MUL" \/ Wrap(f.v * (f.v - s.v), W) = 0)
  /\ SignedRule(op, f, s, got, want)
  /\ op \in ExactOps => got = want
  /\ op = "NOT" => (got = want <=> f.w = W)
  /\ op = "SHL" => (got = want <=> want \in Values(f.w))

\* The rules speak of instructions that yield a value.
LEMMA NoValueRules ==
  ASSUME last'.kind # "value" \/ last'.op = "none"
  PROVE  RulesInv'
  BY DEF RulesInv, ArithmeticAgrees, SignedAgrees, BitsAgree, Did

\* An instruction that follows its rule.
LEMMA ResultRules ==
  ASSUME NEW op, NEW n \in 1..3, NEW it, NEW want, Result(op, n, it, want),
         InstructionRule(op, Arg(1), Arg(2), it.v, want), n = 1 => op \in {"ISZERO", "NOT"}
  PROVE  RulesInv'
<1> DEFINE f == Arg(1)
           s == Arg(2)
<1>1. /\ last'.op = op /\ last'.got = it.v /\ last'.want = want
      /\ last'.args = [k \in 1..n |-> Arg(k)]
  BY DEF Result, Report
<1>2. last'.args[1] = f
  <2>1. 1 \in 1..n
    OBVIOUS
  <2> QED BY <1>1, <2>1
<1>3. n # 1 => last'.args[2] = s
  <2> SUFFICES ASSUME n # 1 PROVE last'.args[2] = s
    OBVIOUS
  <2>1. 2 \in 1..n
    OBVIOUS
  <2> QED BY <1>1, <2>1
<1> HIDE DEF f, s
<1>4. InstructionRule(op, f, s, it.v, want)
  BY DEF f, s
<1>5. ArithmeticAgrees'
  <2>1. CASE n = 1
    BY <1>1, <2>1 DEF ArithmeticAgrees, Did
  <2>2. CASE n # 1
    BY <1>1, <1>2, <1>3, <1>4, <2>2
       DEF ArithmeticAgrees, Did, A, B, SameType, InstructionRule, SafeOps, Values, Wrap
  <2> QED BY <2>1, <2>2
<1>6. SignedAgrees'
  <2>1. CASE n = 1
    BY <1>1, <2>1 DEF SignedAgrees, Did
  <2>2. CASE n # 1
    BY <1>1, <1>2, <1>3, <1>4, <2>2
       DEF SignedAgrees, Did, A, B, SameType, InstructionRule, SignedRule, DivOps, IsNeg
  <2> QED BY <2>1, <2>2
<1>7. BitsAgree'
  BY <1>1, <1>2, <1>4 DEF BitsAgree, Did, A, InstructionRule, ExactOps, Values
<1> QED BY <1>5, <1>6, <1>7 DEF RulesInv

\* The operands of an instruction.
LEMMA ArgValues ==
  ASSUME WordsInv, NEW n \in Nat, n <= Len(stack)
  PROVE  /\ \A k \in 1..n : Arg(k).w \in Widths /\ ValueOK(Arg(k))
         /\ \E S : Below(n) \in Seq(S)
         /\ \A k \in 1..Len(Below(n)) : ValueOK(Below(n)[k])
<1> PICK S : stack \in Seq(S)
  BY DEF WordsInv, NarrowInv
<1> DEFINE len == Len(stack)
<1>1. len \in Nat /\ \A k \in 1..len : ItemOK(stack[k]) /\ ValueOK(stack[k])
  BY DEF WordsInv, NarrowInv, ValuesInv
<1>2. \A k \in 1..n : len + 1 - k \in 1..len
  BY <1>1
<1>3. \A k \in 1..n : Arg(k).w \in Widths /\ ValueOK(Arg(k))
  BY <1>1, <1>2 DEF Arg, ItemOK
<1>4. ASSUME NEW s \in Seq(S), NEW m \in 0..Len(s)
      PROVE  /\ SubSeq(s, 1, m) \in Seq(S) /\ Len(SubSeq(s, 1, m)) = m
             /\ \A k \in 1..m : SubSeq(s, 1, m)[k] = s[k]
  OBVIOUS
<1>5. len - n \in 0..len
  BY <1>1
<1>6. /\ Below(n) \in Seq(S) /\ Len(Below(n)) = len - n
      /\ \A k \in 1..(len - n) : Below(n)[k] = stack[k]
  BY <1>4, <1>5 DEF Below
<1>7. \A k \in 1..(len - n) : k \in 1..len
  BY <1>1
<1> QED BY <1>1, <1>3, <1>6, <1>7

\* Pushing a value.
LEMMA AppendValues ==
  ASSUME NEW s, \E S : s \in Seq(S), \A k \in 1..Len(s) : ValueOK(s[k]), NEW it, ValueOK(it)
  PROVE  \A k \in 1..Len(Append(s, it)) : ValueOK(Append(s, it)[k])
<1> PICK S : s \in Seq(S)
  OBVIOUS
<1> DEFINE T == S \union {it}
<1>1. s \in Seq(T) /\ it \in T
  OBVIOUS
<1> HIDE DEF T
<1>2. /\ Len(Append(s, it)) = Len(s) + 1 /\ Append(s, it)[Len(s) + 1] = it
      /\ \A k \in 1..Len(s) : Append(s, it)[k] = s[k]
  BY <1>1
<1>3. Len(s) \in Nat
  BY <1>1
<1>4. \A k \in 1..(Len(s) + 1) : k \in 1..Len(s) \/ k = Len(s) + 1
  BY <1>3
<1> QED BY <1>2, <1>4

\* One more step.
LEMMA StepCount ==
  ASSUME WordsInv, Running, steps' = steps + 1
  PROVE  steps' \in 0..MaxSteps
<1>1. steps \in 0..MaxSteps /\ steps < MaxSteps /\ MaxSteps \in Nat
  BY StepsAssumption DEF WordsInv, ValuesInv, Running
<1> QED BY <1>1

\* An instruction that yields a value of its type, by its rule.
LEMMA ResultStep ==
  ASSUME WordsInv, Running, NEW op, NEW n \in 1..3, n <= Len(stack), NEW it, ValueOK(it),
         NEW want, Result(op, n, it, want),
         InstructionRule(op, Arg(1), Arg(2), it.v, want), n = 1 => op \in {"ISZERO", "NOT"}
  PROVE  ValuesInv' /\ RulesInv'
<1>1. stack' = Append(Below(n), it) /\ last'.kind = "value" /\ steps' = steps + 1
  BY DEF Result, Report
<1> DEFINE s == Below(n)
<1>2. (\E S : s \in Seq(S)) /\ \A k \in 1..Len(s) : ValueOK(s[k])
  BY ArgValues
<1> HIDE DEF s
<1>3. \A k \in 1..Len(Append(s, it)) : ValueOK(Append(s, it)[k])
  BY <1>2, AppendValues
<1>4. stack' = Append(s, it)
  BY <1>1 DEF s
<1>5. \A k \in 1..Len(stack') : ValueOK(stack'[k])
  BY <1>3, <1>4
<1>6. steps' \in 0..MaxSteps
  BY <1>1, StepCount
<1>7. RulesInv'
  BY ResultRules
<1> QED BY <1>1, <1>5, <1>6, <1>7 DEF ValuesInv, ValueOK, Values, Kinds

\* An instruction that yields none.
LEMMA FailStep ==
  ASSUME WordsInv, Running, NEW op, NEW n \in Nat, n <= Len(stack),
         NEW kind \in Kinds \ {"value"}, Fail(op, n, kind)
  PROVE  ValuesInv' /\ RulesInv'
<1>1. stack' = Below(n) /\ last'.kind = kind /\ steps' = steps + 1
  BY DEF Fail, Report
<1>2. \A k \in 1..Len(stack') : ValueOK(stack'[k])
  BY <1>1, ArgValues
<1>3. steps' \in 0..MaxSteps
  BY <1>1, StepCount
<1>4. RulesInv'
  BY <1>1, NoValueRules
<1> QED BY <1>1, <1>2, <1>3, <1>4 DEF ValuesInv, ValueOK, Values, Kinds

\* Pushing an operand.
LEMMA PushStep ==
  ASSUME WordsInv, NEW it, ValueOK(it), Push(it)
  PROVE  ValuesInv' /\ RulesInv'
<1>1. /\ Running /\ stack' = Append(stack, it) /\ steps' = steps + 1
      /\ last'.kind = "value" /\ last'.op = "none"
  BY DEF Push, Idle
<1>2. (\E S : stack \in Seq(S)) /\ \A k \in 1..Len(stack) : ValueOK(stack[k])
  BY DEF WordsInv, NarrowInv, ValuesInv
<1>3. \A k \in 1..Len(Append(stack, it)) : ValueOK(Append(stack, it)[k])
  BY <1>2, AppendValues
<1>4. \A k \in 1..Len(stack') : ValueOK(stack'[k])
  BY <1>1, <1>3
<1>5. steps' \in 0..MaxSteps
  BY <1>1, StepCount
<1>6. RulesInv'
  BY <1>1, NoValueRules
<1> QED BY <1>1, <1>4, <1>5, <1>6 DEF ValuesInv, ValueOK, Values, Kinds

\* Two operands, their types and the one they are extended to.
LEMMA TwoArgs ==
  ASSUME WordsInv, 2 <= Len(stack)
  PROVE  /\ Arg(1).w \in Widths /\ Arg(2).w \in Widths
         /\ V(1) \in Values(Arg(1).w) /\ V(2) \in Values(Arg(2).w)
         /\ V(1) \in Nat /\ V(2) \in Nat
         /\ Common = CommonType(Arg(1).w, Arg(2).w)
         /\ Common \in Nat /\ Common <= W /\ W \in Nat
         /\ V(1) \in Values(Common) /\ V(2) \in Values(Common)
<1>1. 1 \in 1..2 /\ 2 \in 1..2 /\ 2 \in Nat
  OBVIOUS
<1>2. \A k \in 1..2 : Arg(k).w \in Widths /\ ValueOK(Arg(k))
  BY <1>1, ArgValues
<1>3. Common = CommonType(Arg(1).w, Arg(2).w)
  BY DEF Common, Same, CommonType
<1>4. V(1) \in Values(Arg(1).w) /\ V(2) \in Values(Arg(2).w)
  BY <1>1, <1>2 DEF V, ValueOK
<1> QED BY <1>1, <1>2, <1>3, <1>4, CommonFacts

\* ADD, SUB, MUL, DIV.
LEMMA ArithmeticStep ==
  ASSUME WordsInv, NEW op \in SafeOps, NEW checked \in BOOLEAN, Arithmetic(op, checked)
  PROVE  ValuesInv' /\ RulesInv'
<1> DEFINE t == Common
           n == Rhs(op)
           folded == Arg(1).const /\ RhsConst(op)
           zero == op = "DIV" /\ t < W /\ n = 0
           value(v) == Result(op, 2, Item(v, t, MixedLeaves, folded), Evm(op, V(1), V(2)))
<1>0. Len(stack) \in Nat
  BY DEF WordsInv, NarrowInv
<1>1. /\ Running /\ 2 <= Len(stack)
      /\ \/ \E kind \in Kinds \ {"value"} : Fail(op, 2, kind)
         \/ t = W /\ Exact(op, V(1), n) \in Values(W) /\ value(Exact(op, V(1), n))
         \/ ~zero /\ value(Plain(op, V(1), n, t))
  <2>1. Running /\ 2 <= Len(stack)
    BY <1>0 DEF Arithmetic
  <2>2. {"cast", "ill-typed", "reverted", "undefined"} \subseteq Kinds \ {"value"}
    BY DEF Kinds
  <2>3. \/ Fail(op, 2, "cast") \/ Fail(op, 2, "ill-typed")
        \/ Fail(op, 2, "reverted") \/ Fail(op, 2, "undefined")
        \/ t = W /\ Exact(op, V(1), n) \in Values(W) /\ value(Exact(op, V(1), n))
        \/ ~zero /\ value(Plain(op, V(1), n, t))
    BY Zenon DEF Arithmetic
  <2> HIDE DEF value, zero, t, n, folded
  <2> QED BY <2>1, <2>2, <2>3
<1>2. CASE \E kind \in Kinds \ {"value"} : Fail(op, 2, kind)
  <2>1. 2 \in Nat
    OBVIOUS
  <2> QED BY <1>1, <1>2, <2>1, FailStep
<1>3. /\ Arg(1).w \in Widths /\ Arg(2).w \in Widths
      /\ V(1) \in Values(Arg(1).w) /\ V(2) \in Values(Arg(2).w)
      /\ V(1) \in Nat /\ V(2) \in Nat
      /\ t = CommonType(Arg(1).w, Arg(2).w)
  BY <1>1, TwoArgs
<1>4. n = (IF op = "MUL" /\ ~(Arg(1).w = Arg(2).w) THEN V(1) ELSE V(2))
  BY DEF Rhs, Same
<1>5. n \in Nat
  BY <1>3, <1>4
<1> HIDE DEF t, n, folded
<1>6. ASSUME ~zero, value(Plain(op, V(1), n, t)) PROVE ValuesInv' /\ RulesInv'
  <2>1. /\ Plain(op, V(1), n, t) \in Values(t)
        /\ ArithmeticRule(op, Arg(1).w, Arg(2).w, V(1), V(2), Plain(op, V(1), n, t))
    BY <1>3, <1>4, <1>6, PlainAgrees
  <2> DEFINE it == Item(Plain(op, V(1), n, t), t, MixedLeaves, folded)
             want == Evm(op, V(1), V(2))
  <2>2. ValueOK(it) /\ it.v = Plain(op, V(1), n, t)
    BY <2>1 DEF ValueOK, Item
  <2>3. InstructionRule(op, Arg(1), Arg(2), it.v, want)
    <3>1. op \notin DivOps /\ op \notin {"SLT", "SGT"} /\ op # "SAR" /\ op \notin ExactOps
          /\ op # "NOT" /\ op # "SHL"
      BY DEF SafeOps, DivOps, ExactOps
    <3> QED BY <2>1, <2>2, <3>1, Zenon DEF ArithmeticRule, InstructionRule, SignedRule, V
  <2>4. Result(op, 2, it, want)
    BY <1>6
  <2> HIDE DEF it, want
  <2>5. 2 \in 1..3 /\ 2 # 1
    OBVIOUS
  <2> QED BY <1>1, <2>2, <2>3, <2>4, <2>5, ResultStep
<1>7. CASE t = W /\ Exact(op, V(1), n) \in Values(W) /\ value(Exact(op, V(1), n))
  <2>1. Exact(op, V(1), n) = Plain(op, V(1), n, W) /\ ~(op = "DIV" /\ n = 0)
    BY <1>3, <1>5, <1>7, CheckedPlain
  <2>2. value(Plain(op, V(1), n, t)) /\ ~zero
    BY <1>7, <2>1, Zenon
  <2> QED BY <1>6, <2>2
<1> QED BY <1>1, <1>2, <1>6, <1>7

\* MOD, SDIV, SMOD.
LEMMA DivisionStep ==
  ASSUME WordsInv, NEW op \in DivOps, Division(op)
  PROVE  ValuesInv' /\ RulesInv'
<1> DEFINE t == Common
           value(v) == Result(op, 2, Item(v, t, MixedLeaves, Constants(2)),
                              DivideEvm(op, V(1), V(2)))
<1>0. Len(stack) \in Nat
  BY DEF WordsInv, NarrowInv
<1>1. /\ Running /\ 2 <= Len(stack)
      /\ \/ Fail(op, 2, "cast") \/ Fail(op, 2, "undefined")
         \/ V(2) # 0 /\ value(DivideNarrow(op, V(1), V(2), t))
         \/ ~(t < W) /\ value(DivideWord(op, V(1), V(2)))
  <2>1. Running /\ 2 <= Len(stack)
    BY <1>0 DEF Division
  <2> QED BY <2>1, Zenon DEF Division
<1>2. CASE Fail(op, 2, "cast") \/ Fail(op, 2, "undefined")
  <2>1. 2 \in Nat /\ {"cast", "undefined"} \subseteq Kinds \ {"value"}
    BY DEF Kinds
  <2> QED BY <1>1, <1>2, <2>1, FailStep
<1>3. /\ Arg(1).w \in Widths /\ Arg(2).w \in Widths
      /\ V(1) \in Values(Arg(1).w) /\ V(2) \in Values(Arg(2).w)
      /\ t = CommonType(Arg(1).w, Arg(2).w)
      /\ V(1) \in Values(t) /\ V(2) \in Values(t) /\ W \in Nat /\ (~(t < W) => t = W)
  BY <1>1, TwoArgs
<1> HIDE DEF t
<1>4. ASSUME NEW v \in Values(t), DivisionRule(op, Arg(1).w, Arg(2).w, V(1), V(2), v), value(v)
      PROVE  ValuesInv' /\ RulesInv'
  <2> DEFINE it == Item(v, t, MixedLeaves, Constants(2))
             want == DivideEvm(op, V(1), V(2))
  <2>1. ValueOK(it) /\ it.v = v
    BY DEF ValueOK, Item
  <2>2. InstructionRule(op, Arg(1), Arg(2), it.v, want)
    <3>1. op \notin SafeOps /\ op \notin {"SLT", "SGT"} /\ op # "SAR" /\ op \notin ExactOps
          /\ op # "NOT" /\ op # "SHL"
      BY DEF SafeOps, DivOps, ExactOps
    <3> QED BY <1>4, <2>1, <3>1, Zenon DEF DivisionRule, InstructionRule, SignedRule, V
  <2>3. Result(op, 2, it, want)
    BY <1>4
  <2> HIDE DEF it, want
  <2>4. 2 \in 1..3 /\ 2 # 1
    OBVIOUS
  <2> QED BY <1>1, <2>1, <2>2, <2>3, <2>4, ResultStep
<1>5. CASE ~(t < W) /\ value(DivideWord(op, V(1), V(2)))
  <2>1. /\ DivideWord(op, V(1), V(2)) \in Values(t)
        /\ V(2) # 0 => DivideWord(op, V(1), V(2)) = DivideEvm(op, V(1), V(2))
    BY <1>3, <1>5, DivideWordAgrees
  <2>2. DivisionRule(op, Arg(1).w, Arg(2).w, V(1), V(2), DivideWord(op, V(1), V(2)))
    BY <2>1, Zenon DEF DivisionRule
  <2> QED BY <1>4, <1>5, <2>1, <2>2, Zenon
<1>6. CASE ~(t < W) /\ V(2) # 0 /\ value(DivideNarrow(op, V(1), V(2), t))
  <2>1. DivideNarrow(op, V(1), V(2), t) = DivideWord(op, V(1), V(2))
    BY <1>3, <1>6 DEF DivOps, DivideNarrow, DivideWord, URemOf, SDivOf, SRemOf
  <2>2. value(DivideWord(op, V(1), V(2)))
    BY <1>6, <2>1, Zenon
  <2> QED BY <1>5, <1>6, <2>2
<1>7. CASE t < W /\ V(2) # 0 /\ value(DivideNarrow(op, V(1), V(2), t))
  <2>1. Arg(1).w = Arg(2).w /\ t = Arg(1).w
    BY <1>3, <1>7 DEF CommonType
  <2>2. /\ DivideNarrow(op, V(1), V(2), t) \in Values(t)
        /\ DivisionRule(op, t, t, V(1), V(2), DivideNarrow(op, V(1), V(2), t))
    BY <1>3, <1>7, <2>1, DivideNarrowAgrees
  <2> QED BY <1>4, <1>7, <2>1, <2>2, Zenon
<1> QED BY <1>1, <1>2, <1>5, <1>6, <1>7

\* An instruction that agrees with the EVM on all its operands.
LEMMA ExactStep ==
  ASSUME WordsInv, Running, NEW op \in ExactOps, NEW n \in 1..3, n <= Len(stack),
         NEW it, ValueOK(it), Result(op, n, it, it.v), n = 1 => op = "ISZERO"
  PROVE  ValuesInv' /\ RulesInv'
<1>1. op \notin SafeOps /\ op \notin DivOps /\ op \notin {"SLT", "SGT"} /\ op # "SAR"
      /\ op # "NOT" /\ op # "SHL"
  BY DEF SafeOps, DivOps, ExactOps
<1>2. InstructionRule(op, Arg(1), Arg(2), it.v, it.v)
  BY <1>1, Zenon DEF InstructionRule, SignedRule
<1> QED BY <1>2, ResultStep

\* ADDMOD, MULMOD.
LEMMA ModularStep ==
  ASSUME WordsInv, NEW op \in {"ADDMOD", "MULMOD"}, Modular(op)
  PROVE  ValuesInv' /\ RulesInv'
<1> DEFINE n == IF op = "ADDMOD" THEN V(1) + V(2) ELSE V(1) * V(2)
           m == Arg(3)
           got == IF m.v = 0 THEN 0 ELSE Wrap(URemOf(n, m.v), W)
<1>0. Len(stack) \in Nat /\ 3 \in Nat /\ {"cast", "ill-typed"} \subseteq Kinds \ {"value"}
  BY DEF WordsInv, NarrowInv, Kinds
<1>1. /\ Running /\ 3 <= Len(stack)
      /\ \/ Fail(op, 3, "cast") \/ Fail(op, 3, "ill-typed")
         \/ m.w = W /\ Result(op, 3, Item(got, W, {W}, Constants(3)), EvmMod(n, m.v))
  <2>1. Running /\ 3 <= Len(stack)
    BY <1>0 DEF Modular
  <2> QED BY <2>1, Zenon DEF Modular
<1>2. CASE Fail(op, 3, "cast") \/ Fail(op, 3, "ill-typed")
  BY <1>0, <1>1, <1>2, FailStep
<1>3. CASE m.w = W /\ Result(op, 3, Item(got, W, {W}, Constants(3)), EvmMod(n, m.v))
  <2>1. \A k \in 1..3 : Arg(k).w \in Widths /\ ValueOK(Arg(k))
    BY <1>0, <1>1, ArgValues
  <2>2. 1 \in 1..3 /\ 2 \in 1..3 /\ 3 \in 1..3 /\ 3 # 1
    OBVIOUS
  <2>3. m.v \in Values(W)
    BY <1>3, <2>1, <2>2 DEF ValueOK
  <2>4. V(1) \in Nat /\ V(2) \in Nat
    BY <2>1, <2>2, SignsOf DEF V, ValueOK
  <2>5. n \in Nat
    BY <2>4
  <2> HIDE DEF n, m
  <2>6. got = EvmMod(n, m.v) /\ got \in Values(W)
    BY <2>3, <2>5, ModularAgrees
  <2> HIDE DEF got
  <2> DEFINE it == Item(got, W, {W}, Constants(3))
  <2>7. ValueOK(it) /\ it.v = got
    BY <2>6 DEF ValueOK, Item
  <2>8. Result(op, 3, it, it.v)
    BY <1>3, <2>6, <2>7
  <2> HIDE DEF it
  <2> QED BY <1>1, <2>2, <2>7, <2>8, ExactStep DEF ExactOps
<1> QED BY <1>1, <1>2, <1>3

\* EXP.
LEMMA ExpInstruction ==
  ASSUME WordsInv, EXP
  PROVE  ValuesInv' /\ RulesInv'
<1> DEFINE got == EvmExp(V(1), V(2), W)
           it == Item(got, W, {W}, Constants(2))
<1>0. Len(stack) \in Nat /\ 2 \in Nat /\ "ill-typed" \in Kinds \ {"value"}
      /\ 2 \in 1..3 /\ 2 # 1 /\ "EXP" \in ExactOps
  BY DEF WordsInv, NarrowInv, Kinds, ExactOps
<1>1. /\ Running /\ 2 <= Len(stack)
      /\ Fail("EXP", 2, "ill-typed") \/ Result("EXP", 2, it, got)
  <2>1. Running /\ 2 <= Len(stack)
    BY <1>0 DEF EXP
  <2> QED BY <2>1, Zenon DEF EXP
<1>2. CASE Fail("EXP", 2, "ill-typed")
  BY <1>0, <1>1, <1>2, FailStep
<1>3. CASE Result("EXP", 2, it, got)
  <2>1. V(1) \in Nat /\ V(2) \in Nat
    BY <1>1, TwoArgs
  <2>2. got \in Values(W)
    BY <2>1, ExpWord
  <2> HIDE DEF got
  <2>3. ValueOK(it) /\ it.v = got
    BY <2>2 DEF ValueOK, Item
  <2>4. Result("EXP", 2, it, it.v)
    BY <1>3, <2>3
  <2> HIDE DEF it
  <2> QED BY <1>0, <1>1, <2>3, <2>4, ExactStep
<1> QED BY <1>1, <1>2, <1>3

\* Comparisons.
LEMMA CompareStep ==
  ASSUME WordsInv, NEW op \in {"LT", "GT", "SLT", "SGT", "EQ"}, Compare(op)
  PROVE  ValuesInv' /\ RulesInv'
<1> DEFINE got == Flag(Holds(op, V(1), V(2), Common))
           want == Flag(EvmHolds(op, V(1), V(2)))
           it == Item(got, W, {W}, Constants(2))
<1>0. Len(stack) \in Nat /\ 2 \in Nat /\ "cast" \in Kinds \ {"value"} /\ 2 \in 1..3 /\ 2 # 1
  BY DEF WordsInv, NarrowInv, Kinds
<1>1. /\ Running /\ 2 <= Len(stack)
      /\ Fail(op, 2, "cast") \/ Result(op, 2, it, want)
  <2>1. Running /\ 2 <= Len(stack)
    BY <1>0 DEF Compare
  <2> QED BY <2>1, Zenon DEF Compare, FlagWidth
<1>2. CASE Fail(op, 2, "cast")
  BY <1>0, <1>1, <1>2, FailStep
<1>3. CASE Result(op, 2, it, want)
  <2>1. /\ Arg(1).w \in Widths /\ Arg(2).w \in Widths
        /\ V(1) \in Values(Arg(1).w) /\ V(2) \in Values(Arg(2).w)
        /\ Common = CommonType(Arg(1).w, Arg(2).w)
    BY <1>1, TwoArgs
  <2>2. got \in Values(W)
    <3>1. Flag(TRUE) \in Values(W) /\ Flag(FALSE) \in Values(W)
      BY FlagType
    <3>2. 1 \in Values(W) /\ 0 \in Values(W)
      BY <3>1 DEF Flag
    <3> QED BY <3>2 DEF Flag
  <2>3. ValueOK(it) /\ it.v = got
    <3> HIDE DEF got
    <3> QED BY <2>2 DEF ValueOK, Item
  <2>4. CASE op \in {"LT", "GT", "EQ"}
    <3>1. got = want
      BY <2>4 DEF Holds, EvmHolds
    <3> HIDE DEF got, want, it
    <3> QED BY <1>0, <1>1, <1>3, <2>3, <2>4, <3>1, ExactStep DEF ExactOps
  <2>5. CASE op \in {"SLT", "SGT"}
    <3>1. got = want <=> ~(/\ Arg(1).w = Arg(2).w /\ Arg(1).w < W
                           /\ IsNeg(V(1), Arg(1).w) # IsNeg(V(2), Arg(1).w))
      BY <2>1, <2>5, ComparisonAgrees
    <3> HIDE DEF got, want, it
    <3>2. op \notin SafeOps /\ op \notin DivOps /\ op # "SAR" /\ op \notin ExactOps
          /\ op # "NOT" /\ op # "SHL"
      BY <2>5 DEF SafeOps, DivOps, ExactOps
    <3>3. InstructionRule(op, Arg(1), Arg(2), it.v, want)
      BY <2>3, <3>1, <3>2, Zenon DEF InstructionRule, SignedRule, V
    <3> QED BY <1>0, <1>1, <1>3, <2>3, <3>3, ResultStep
  <2> QED BY <2>4, <2>5
<1> QED BY <1>1, <1>2, <1>3

\* AND, OR, XOR.
LEMMA BitwiseStep ==
  ASSUME WordsInv, NEW op \in BitOps, BitwiseOp(op)
  PROVE  ValuesInv' /\ RulesInv'
<1> DEFINE t == Common
           got == OnBits(op, V(1), V(2), t)
           it == Item(got, t, MixedLeaves, Constants(2))
<1>0. Len(stack) \in Nat /\ 2 \in Nat /\ "cast" \in Kinds \ {"value"} /\ 2 \in 1..3 /\ 2 # 1
  BY DEF WordsInv, NarrowInv, Kinds
<1>1. /\ Running /\ 2 <= Len(stack)
      /\ Fail(op, 2, "cast") \/ Result(op, 2, it, OnBits(op, V(1), V(2), W))
  <2>1. Running /\ 2 <= Len(stack)
    BY <1>0 DEF BitwiseOp
  <2> QED BY <2>1, Zenon DEF BitwiseOp
<1>2. CASE Fail(op, 2, "cast")
  BY <1>0, <1>1, <1>2, FailStep
<1>3. CASE Result(op, 2, it, OnBits(op, V(1), V(2), W))
  <2>1. t \in Nat /\ t <= W /\ W \in Nat /\ V(1) \in Values(t) /\ V(2) \in Values(t)
    BY <1>1, TwoArgs
  <2> HIDE DEF t
  <2>2. got \in Values(t) /\ OnBits(op, V(1), V(2), W) = got
    BY <2>1, OnBitsFacts
  <2> HIDE DEF got
  <2>3. ValueOK(it) /\ it.v = got
    BY <2>2 DEF ValueOK, Item
  <2>4. Result(op, 2, it, it.v) /\ op \in ExactOps
    BY <1>3, <2>2, <2>3 DEF BitOps, ExactOps
  <2> HIDE DEF it
  <2> QED BY <1>0, <1>1, <2>3, <2>4, ExactStep
<1> QED BY <1>1, <1>2, <1>3

\* ISZERO, NOT.
LEMMA SingleStep ==
  ASSUME WordsInv, ISZERO \/ NOT
  PROVE  ValuesInv' /\ RulesInv'
<1>0. Len(stack) \in Nat /\ 1 \in Nat /\ "cast" \in Kinds \ {"value"} /\ 1 \in 1..3 /\ 1 \in 1..1
      /\ "ISZERO" \in ExactOps
  BY DEF WordsInv, NarrowInv, Kinds, ExactOps
<1>1. Running /\ 1 <= Len(stack)
  BY <1>0 DEF ISZERO, NOT
<1>2. ASSUME NEW op, Fail(op, 1, "cast") PROVE ValuesInv' /\ RulesInv'
  BY <1>0, <1>1, <1>2, FailStep
<1>3. Arg(1).w \in Widths /\ V(1) \in Values(Arg(1).w)
  BY <1>0, <1>1, ArgValues DEF V, ValueOK
<1>4. CASE ISZERO
  <2> DEFINE got == Flag(V(1) = 0)
             it == Item(got, W, {W}, Constants(1))
  <2>1. Fail("ISZERO", 1, "cast") \/ Result("ISZERO", 1, it, got)
    BY <1>4, Zenon DEF ISZERO
  <2>2. got \in Values(W)
    <3>1. (V(1) = 0) \in BOOLEAN
      OBVIOUS
    <3> QED BY <3>1, FlagType
  <2> HIDE DEF got
  <2>3. ValueOK(it) /\ it.v = got
    BY <2>2 DEF ValueOK, Item
  <2> HIDE DEF it
  <2>4. CASE Result("ISZERO", 1, it, got)
    BY <1>0, <1>1, <2>3, <2>4, ExactStep
  <2> QED BY <1>2, <2>1, <2>4
<1>5. CASE NOT
  <2> DEFINE got == Complement(V(1), Arg(1).w)
             it == Item(got, Arg(1).w, Leaves(1), Constants(1))
             want == 2^W - 1 - V(1)
  <2>1. Fail("NOT", 1, "cast") \/ Result("NOT", 1, it, want)
    BY <1>5, Zenon DEF NOT
  <2>2. got \in Values(Arg(1).w) /\ (got = want <=> Arg(1).w = W)
    BY <1>3, ComplementAgrees
  <2> HIDE DEF got, want
  <2>3. ValueOK(it) /\ it.v = got
    BY <2>2 DEF ValueOK, Item
  <2> HIDE DEF it
  <2>4. InstructionRule("NOT", Arg(1), Arg(2), it.v, want)
    BY <2>2, <2>3 DEF InstructionRule, SignedRule, SafeOps, DivOps, ExactOps
  <2>5. CASE Result("NOT", 1, it, want)
    BY <1>0, <1>1, <2>3, <2>4, <2>5, ResultStep
  <2> QED BY <1>2, <2>1, <2>5
<1> QED BY <1>4, <1>5

\* BYTE, SIGNEXTEND.
LEMMA BytesStep ==
  ASSUME WordsInv, BYTE \/ SIGNEXTEND
  PROVE  ValuesInv' /\ RulesInv'
<1>0. Len(stack) \in Nat /\ 2 \in Nat /\ {"cast", "ill-typed"} \subseteq Kinds \ {"value"}
      /\ 2 \in 1..3 /\ 2 # 1 /\ {"BYTE", "SIGNEXTEND"} \subseteq ExactOps
  BY DEF WordsInv, NarrowInv, Kinds, ExactOps
<1>1. Running /\ 2 <= Len(stack)
  BY <1>0 DEF BYTE, SIGNEXTEND
<1>2. ASSUME NEW op, Fail(op, 2, "cast") \/ Fail(op, 2, "ill-typed")
      PROVE  ValuesInv' /\ RulesInv'
  BY <1>0, <1>1, <1>2, FailStep
<1>3. /\ V(1) \in Values(Arg(1).w) /\ V(2) \in Values(Arg(2).w) /\ V(1) \in Nat
  BY <1>1, TwoArgs
<1>4. ASSUME NEW op \in ExactOps, NEW v \in Values(W),
             Result(op, 2, Item(v, W, {W}, Constants(2)), v)
      PROVE  ValuesInv' /\ RulesInv'
  <2> DEFINE it == Item(v, W, {W}, Constants(2))
  <2>1. ValueOK(it) /\ it.v = v
    BY DEF ValueOK, Item
  <2>2. Result(op, 2, it, it.v)
    BY <1>4, <2>1
  <2> HIDE DEF it
  <2> QED BY <1>0, <1>1, <2>1, <2>2, ExactStep
<1>5. CASE BYTE
  <2> DEFINE got == IF IdxValid(V(1)) THEN ByteOf(Swapped(V(2)), Cut(V(1))) ELSE 0
             want == IF V(1) \in Byte THEN ByteOf(V(2), NBytes - 1 - V(1)) ELSE 0
  <2>1. \/ Fail("BYTE", 2, "cast") \/ Fail("BYTE", 2, "ill-typed")
        \/ Arg(2).w = W /\ Result("BYTE", 2, Item(got, W, {W}, Constants(2)), want)
    BY <1>5, Zenon DEF BYTE, Words2
  <2>2. ASSUME Arg(2).w = W PROVE got = want /\ want \in Values(W)
    <3>1. V(1) \in Byte <=> V(1) < NBytes
      <4>1. PICK M \in Nat \ {0} : M = NBytes
        BY BytesOfWord
      <4>2. Byte = 0..(M - 1)
        BY <4>1 DEF Byte, NBytes
      <4> QED BY <1>3, <4>1, <4>2
    <3>2. IdxValid(V(1)) <=> V(1) < NBytes
      BY DEF IdxValid
    <3>3. CASE V(1) < NBytes
      <4>1. /\ ByteOf(Swapped(V(2)), Cut(V(1))) = ByteOf(V(2), NBytes - 1 - V(1))
            /\ ByteOf(V(2), NBytes - 1 - V(1)) \in Values(W)
        BY <1>3, <2>2, <3>3, ByteAgrees
      <4> QED BY <3>1, <3>2, <3>3, <4>1, Zenon
    <3>4. CASE ~(V(1) < NBytes)
      <4>1. 0 \in Values(W)
        BY FlagType DEF Flag
      <4> QED BY <3>1, <3>2, <3>4, <4>1, Zenon
    <3> QED BY <3>3, <3>4
  <2> HIDE DEF got, want
  <2> QED BY <1>0, <1>2, <1>4, <2>1, <2>2
<1>6. CASE SIGNEXTEND
  <2> DEFINE got == Extended(V(1), V(2))
             want == EvmExtended(V(1), V(2))
  <2>1. \/ Fail("SIGNEXTEND", 2, "cast") \/ Fail("SIGNEXTEND", 2, "ill-typed")
        \/ /\ Arg(1).w = W /\ Arg(2).w = W
           /\ Result("SIGNEXTEND", 2, Item(got, W, {W}, Constants(2)), want)
    BY <1>6, Zenon DEF SIGNEXTEND, Words2
  <2>2. Arg(1).w = W /\ Arg(2).w = W => got = want /\ got \in Values(W)
    BY <1>3, ExtendAgrees
  <2> HIDE DEF got, want
  <2> QED BY <1>0, <1>2, <1>4, <2>1, <2>2
<1> QED BY <1>5, <1>6

\* SHL, SHR, SAR.
LEMMA ShiftStepAgrees ==
  ASSUME WordsInv, NEW op \in {"SHL", "SHR", "SAR"}, Shift(op)
  PROVE  ValuesInv' /\ RulesInv'
<1> DEFINE t == Arg(2).w
           got == Shifted(op, V(1), V(2), t)
           want == Shifted(op, V(1), V(2), W)
           it == Item(got, t, Leaves(2), Constants(2))
<1>0. Len(stack) \in Nat /\ 2 \in Nat /\ 2 \in 1..3 /\ 2 # 1
      /\ {"cast", "ill-typed", "undefined"} \subseteq Kinds \ {"value"}
  BY DEF WordsInv, NarrowInv, Kinds
<1>1. /\ Running /\ 2 <= Len(stack)
      /\ \/ Fail(op, 2, "cast") \/ Fail(op, 2, "ill-typed") \/ Fail(op, 2, "undefined")
         \/ Same /\ V(1) < t /\ Result(op, 2, it, want)
  <2>1. Running /\ 2 <= Len(stack)
    BY <1>0 DEF Shift
  <2> QED BY <2>1, Zenon DEF Shift
<1>2. CASE Fail(op, 2, "cast") \/ Fail(op, 2, "ill-typed") \/ Fail(op, 2, "undefined")
  BY <1>0, <1>1, <1>2, FailStep
<1>3. CASE Same /\ V(1) < t /\ Result(op, 2, it, want)
  <2>1. t \in Widths /\ V(1) \in Nat /\ V(2) \in Values(t) /\ Arg(1).w = t
    BY <1>1, <1>3, TwoArgs DEF Same
  <2> HIDE DEF t
  <2>2. ShiftRule(op, t, V(1), V(2))
    BY <1>3, <2>1, ShiftAgrees
  <2>3. /\ got \in Values(t)
        /\ op = "SHL" => (got = want <=> want \in Values(t))
        /\ op = "SHR" => got = want
        /\ op = "SAR" => (got = want <=> t = W \/ V(1) = 0 \/ ~IsNeg(V(2), t))
    BY <2>2, Zenon DEF ShiftRule
  <2> HIDE DEF got, want
  <2>4. ValueOK(it) /\ it.v = got
    BY <2>3 DEF ValueOK, Item
  <2>5. Result(op, 2, it, want)
    BY <1>3
  <2> HIDE DEF it
  <2>6. op \notin SafeOps /\ op \notin DivOps /\ op \notin {"SLT", "SGT"} /\ op # "NOT"
        /\ (op \in ExactOps => op = "SHR")
    BY DEF SafeOps, DivOps, ExactOps
  <2>7. InstructionRule(op, Arg(1), Arg(2), it.v, want)
    BY <2>1, <2>3, <2>4, <2>6, Zenon DEF InstructionRule, SignedRule, V
  <2> QED BY <1>0, <1>1, <2>4, <2>5, <2>7, ResultStep
<1> QED BY <1>1, <1>2, <1>3

\* Every step keeps values and rules.
LEMMA StepWords == WordsInv /\ [Next]_vars => WordsInv'
<1> SUFFICES ASSUME WordsInv, [Next]_vars PROVE WordsInv'
  OBVIOUS
<1>0. NarrowInv'
  BY StepNarrow DEF WordsInv
<1> SUFFICES ValuesInv' /\ RulesInv'
  BY <1>0 DEF WordsInv
<1>1. CASE \E n \in Inputs : PUSH(n) \/ CALLDATALOAD(n) \/ CALLVALUE(n) \/ SIZE(n)
  <2>1. PICK n \in Inputs : PUSH(n) \/ CALLDATALOAD(n) \/ CALLVALUE(n) \/ SIZE(n)
    BY <1>1
  <2>2. n \in Values(W) /\ Half \in Nat /\ Small \in Nat /\ W \in Nat
    BY WidthAssumption, WordAssumption DEF Widths
  <2>3. n \in Int
    BY <2>2, ValuesAre
  <2>4. Wrap(n, Half) \in Values(Half) /\ Wrap(n, Small) \in Values(Small)
    BY <2>2, <2>3, WrapFacts
  <2>5. /\ ValueOK(Literal(n, W)) /\ ValueOK(Item(n, W, {W}, FALSE))
        /\ ValueOK(Item(Wrap(n, Half), Half, {Half}, FALSE))
        /\ ValueOK(Item(Wrap(n, Small), Small, {Small}, FALSE))
    BY <2>2, <2>4 DEF ValueOK, Item, Literal
  <2> QED BY <2>1, <2>5, PushStep DEF PUSH, CALLDATALOAD, CALLVALUE, SIZE
<1>12. CASE CODESIZE
  <2>1. ValueOK(Literal(CodeSize, Small))
    BY WidthAssumption DEF ValueOK, Item, Literal
  <2> QED BY <1>12, <2>1, PushStep DEF CODESIZE
<1>2. CASE \E op \in {"ADD", "SUB", "MUL", "DIV"}, checked \in BOOLEAN : Arithmetic(op, checked)
  BY <1>2, ArithmeticStep DEF SafeOps
<1>3. CASE \E op \in {"MOD", "SDIV", "SMOD"} : Division(op)
  BY <1>3, DivisionStep DEF DivOps
<1>4. CASE \E op \in {"ADDMOD", "MULMOD"} : Modular(op)
  BY <1>4, ModularStep
<1>5. CASE EXP
  BY <1>5, ExpInstruction
<1>6. CASE \E op \in {"LT", "GT", "SLT", "SGT", "EQ"} : Compare(op)
  BY <1>6, CompareStep
<1>7. CASE \E op \in {"AND", "OR", "XOR"} : BitwiseOp(op)
  BY <1>7, BitwiseStep DEF BitOps
<1>8. CASE ISZERO \/ NOT
  BY <1>8, SingleStep
<1>9. CASE BYTE \/ SIGNEXTEND
  BY <1>9, BytesStep
<1>10. CASE \E op \in {"SHL", "SHR", "SAR"} : Shift(op)
  BY <1>10, ShiftStepAgrees
<1>11. CASE UNCHANGED vars
  <2>1. stack' = stack /\ last' = last /\ steps' = steps
    BY <1>11 DEF vars
  <2>2. ValuesInv'
    BY <2>1 DEF WordsInv, ValuesInv, ValueOK, Values, Kinds
  <2>3. RulesInv'
    BY <2>1 DEF WordsInv, RulesInv, ArithmeticAgrees, SignedAgrees, BitsAgree, Did, A, B,
                SameType, Values, Wrap, IsNeg
  <2> QED BY <2>2, <2>3
<1> QED BY <1>1, <1>2, <1>3, <1>4, <1>5, <1>6, <1>7, <1>8, <1>9, <1>10, <1>11, <1>12 DEF Next

\* Along every history of instructions, for every width of a word and of the
\* narrow types and whether the operands are constants or not, the lowered
\* instructions yield the EVM's word on every operand they are defined for, with
\* exactly the exceptions the rules name.
THEOREM InstructionsCorrect == Spec => []InstructionsAgree
<1>1. Init => WordsInv
  <2> SUFFICES ASSUME Init PROVE WordsInv
    OBVIOUS
  <2>1. stack = << >> /\ last.kind = "value" /\ last.op = "none" /\ steps = 0
    BY DEF Init, Idle
  <2>2. stack \in Seq({})
    BY <2>1
  <2>3. NarrowInv
    BY <2>1, <2>2 DEF NarrowInv
  <2>4. ValuesInv
    BY <2>1, StepsAssumption DEF ValuesInv, Kinds
  <2>5. RulesInv
    BY <2>1 DEF RulesInv, ArithmeticAgrees, SignedAgrees, BitsAgree, Did
  <2> QED BY <2>3, <2>4, <2>5 DEF WordsInv
<1>2. WordsInv => InstructionsAgree
  <2> SUFFICES ASSUME WordsInv PROVE InstructionsAgree
    OBVIOUS
  <2> PICK S : stack \in Seq(S)
    BY DEF WordsInv, NarrowInv
  <2>1. DOMAIN stack = 1..Len(stack)
    OBVIOUS
  <2>2. NarrowHistory
    BY <2>1 DEF WordsInv, NarrowInv, NarrowHistory, ItemOK
  <2>3. TypeOK
    BY <2>1 DEF WordsInv, NarrowInv, ValuesInv, ItemOK, ValueOK, TypeOK
  <2> QED BY <2>2, <2>3 DEF WordsInv, RulesInv, InstructionsAgree
<1> QED BY <1>1, <1>2, StepWords, PTL DEF Spec

(***************************************************************************)
(* The functions end.  Blocks come in phases, and a loop counts down.      *)
(***************************************************************************)
\* How many blocks are still to come after a block, loops counted as one.
PhaseOf(block) ==
  IF block \in SafeFns \union {"sdivrem", "mul", "exp"} THEN 8
  ELSE IF block = "Entry" THEN 7
  ELSE IF block = "ctlz y" THEN 6
  ELSE IF block = "ctlz r" THEN 5
  ELSE IF block = "beforeloopY" THEN 4
  ELSE IF block = "Loop" THEN 3
  ELSE IF block = "Return" THEN 2
  ELSE IF block \in {"sdivrem.signs", "safeMul.compare", "exp.LoopHeader"} THEN 1
  ELSE 0
Phase == PhaseOf(pc)

\* The pairs of phases of a block and of one that follows it.
LEMMA SmallerPhase == \A m, n :
  \/ m = 7 /\ (n = 6 \/ n = 2)
  \/ m = 6 /\ n = 5
  \/ m = 5 /\ n = 4
  \/ m = 4 /\ n = 3
  \/ m = 3 /\ n = 2
  \/ m = 2 /\ (n = 1 \/ n = 0)
  \/ m = 8 /\ (n = 7 \/ n = 1 \/ n = 0)
  \/ m = 1 /\ n = 0
  => n < m
  OBVIOUS

\* The blocks that follow one another are of ever smaller phases.
LEMMA Later ==
  ASSUME NEW f, NEW t,
         \/ f = "Entry" /\ t \in {"ctlz y", "Return"}
         \/ f = "ctlz y" /\ t = "ctlz r"
         \/ f = "ctlz r" /\ t = "beforeloopY"
         \/ f = "beforeloopY" /\ t = "Loop"
         \/ f = "Loop" /\ t = "Return"
         \/ f = "Return" /\ t \in {"done", "sdivrem.signs", "safeMul.compare"}
         \/ f = "sdivrem" /\ t = "Entry"
         \/ f \in {"sdivrem.signs", "mul"} /\ t = "done"
         \/ f = "exp" /\ t = "exp.LoopHeader"
         \/ f = "exp.LoopHeader" /\ t = "done"
         \/ f \in SafeFns /\ t \in {"done", "reverted", "Entry"}
         \/ f = "safeMul.compare" /\ t \in {"done", "reverted"}
  PROVE  PhaseOf(t) < PhaseOf(f)
<1>1. PhaseOf("Entry") = 7 /\ PhaseOf("ctlz y") = 6 /\ PhaseOf("ctlz r") = 5
  BY DEF PhaseOf, SafeFns
<1>2. PhaseOf("beforeloopY") = 4 /\ PhaseOf("Loop") = 3 /\ PhaseOf("Return") = 2
  BY DEF PhaseOf, SafeFns
<1>3. PhaseOf("sdivrem.signs") = 1 /\ PhaseOf("safeMul.compare") = 1 /\ PhaseOf("exp.LoopHeader") = 1
  BY DEF PhaseOf, SafeFns
<1>4. PhaseOf("done") = 0 /\ PhaseOf("reverted") = 0
  BY DEF PhaseOf, SafeFns
<1>5. PhaseOf("sdivrem") = 8 /\ PhaseOf("mul") = 8 /\ PhaseOf("exp") = 8
  BY DEF PhaseOf, SafeFns
<1>6. /\ PhaseOf("safeAdd") = 8 /\ PhaseOf("safeSub") = 8
      /\ PhaseOf("safeMul") = 8 /\ PhaseOf("safeUDiv") = 8
  BY DEF PhaseOf, SafeFns
<1>7. \/ PhaseOf(f) = 7 /\ (PhaseOf(t) = 6 \/ PhaseOf(t) = 2)
      \/ PhaseOf(f) = 6 /\ PhaseOf(t) = 5
      \/ PhaseOf(f) = 5 /\ PhaseOf(t) = 4
      \/ PhaseOf(f) = 4 /\ PhaseOf(t) = 3
      \/ PhaseOf(f) = 3 /\ PhaseOf(t) = 2
      \/ PhaseOf(f) = 2 /\ (PhaseOf(t) = 1 \/ PhaseOf(t) = 0)
      \/ PhaseOf(f) = 8 /\ (PhaseOf(t) = 7 \/ PhaseOf(t) = 1 \/ PhaseOf(t) = 0)
      \/ PhaseOf(f) = 1 /\ PhaseOf(t) = 0
  BY <1>1, <1>2, <1>3, <1>4, <1>5, <1>6, ZenonT(60) DEF SafeFns
<1> QED BY <1>7, SmallerPhase, Zenon

\* What the loop of a block counts down.
Count ==
  CASE pc \in {"ctlz y", "ctlz r"} -> tmp
    [] pc \in {"beforeloopY", "Loop"} -> i
    [] pc = "exp.LoopHeader" -> e
    [] OTHER -> 0

\* A number that bounds the blocks still to run.
StepsLeft == Phase * 2^w + Count

\* Both are numbers, and what is counted down is below 2^w.
LEMMA CountBound ==
  ArithInv => Phase \in 0..8 /\ Count \in Nat /\ Count < 2^w /\ 2^w \in Nat \ {0} /\ StepsLeft \in Nat
<1> HAVE ArithInv
<1>1. PICK p \in Nat \ {0} : p = 2^w
  BY Registers, PowNat
<1>2. tmp \in Values(w) /\ i \in Values(w) /\ e \in Values(w) /\ 0 \in Values(w)
  BY Registers, Widen
<1>3. Count \in Values(w)
  BY <1>2 DEF Count
<1>4. Count \in Nat /\ Count < p
  BY <1>1, <1>3, Registers, ValuesAre
<1>5. Phase \in 0..8
  BY DEF Phase, PhaseOf
<1>6. Phase * p + Count \in Nat
  BY <1>1, <1>4, <1>5
<1> QED BY <1>1, <1>4, <1>5, <1>6 DEF StepsLeft

\* A step to a later phase, or one of a loop, lowers it.
LEMMA StepsLess ==
  ASSUME ArithInv, ArithInv', w' = w,
         Phase' < Phase \/ (Phase' = Phase /\ Count' < Count)
  PROVE  StepsLeft' < StepsLeft
<1>1. PICK p \in Nat \ {0} : p = 2^w
  BY CountBound
<1>2. Phase \in Nat /\ Count \in Nat
  BY CountBound
<1>3. Phase' \in Nat /\ Count' \in Nat /\ Count' < p
  <2>1. (Phase \in 0..8 /\ Count \in Nat /\ Count < 2^w /\ 2^w \in Nat \ {0} /\ StepsLeft \in Nat)'
    BY CountBound, PTL
  <2> QED BY <1>1, <2>1
<1>4. StepsLeft = Phase * p + Count
  BY <1>1 DEF StepsLeft
<1>5. StepsLeft' = Phase' * p + Count'
  BY <1>1 DEF StepsLeft
<1>6. \A s1, s2, c1, c2 \in Nat :
        (s1 < s2 \/ (s1 = s2 /\ c1 < c2)) /\ c1 < p => s1 * p + c1 < s2 * p + c2
  <2> TAKE s1, s2, c1, c2 \in Nat
  <2> HAVE (s1 < s2 \/ (s1 = s2 /\ c1 < c2)) /\ c1 < p
  <2>1. CASE s1 < s2
    <3>1. PICK d \in Nat : s2 = s1 + 1 + d
      <4>1. s2 - s1 - 1 \in Nat /\ s2 = s1 + 1 + (s2 - s1 - 1)
        BY <2>1
      <4> QED BY <4>1
    <3>2. s2 * p = s1 * p + p + d * p /\ d * p \in Nat /\ s1 * p \in Nat
      BY <1>1, <3>1
    <3> QED BY <1>1, <3>2
  <2>2. CASE s1 = s2 /\ c1 < c2
    <3>1. s1 * p \in Nat
      BY <1>1
    <3> QED BY <2>2, <3>1
  <2> QED BY <2>1, <2>2
<1> QED BY <1>2, <1>3, <1>4, <1>5, <1>6

\* Half of a number that is not zero is less.
LEMMA HalfLess == \A n \in Nat : n # 0 => n \div 2 \in Nat /\ n \div 2 < n
  OBVIOUS

\* Every block is of a later phase or counts down.
LEMMA BlocksAdvance ==
  ASSUME ArithInv, ArithNext
  PROVE  UNCHANGED arithVars \/ (w' = w /\ (Phase' < Phase \/ (Phase' = Phase /\ Count' < Count)))
<1> DEFINE Goal == w' = w /\ (Phase' < Phase \/ (Phase' = Phase /\ Count' < Count))
<1>1. CASE UDivRemEntry
  <2>1. pc = "Entry" /\ pc' \in {"ctlz y", "Return"} /\ w' = w
    BY <1>1 DEF UDivRemEntry
  <2>2. PhaseOf(pc') < PhaseOf(pc)
    BY <2>1, Later
  <2> QED BY <2>1, <2>2 DEF Phase
<1>2. CASE Ctlz
  <2>1. tmp \in Nat
    BY Registers
  <2>2. w' = w /\ pc \in {"ctlz y", "ctlz r"}
    BY <1>2 DEF Ctlz
  <2>3. CASE tmp # 0
    <3>1. tmp' = tmp \div 2 /\ pc' = pc
      BY <1>2, <2>3 DEF Ctlz
    <3>2. tmp' < tmp
      BY <2>1, <2>3, <3>1, HalfLess
    <3>3. Phase' = Phase /\ Count' = tmp' /\ Count = tmp
      BY <2>2, <3>1 DEF Phase, Count
    <3> QED BY <2>2, <3>2, <3>3
  <2>4. CASE tmp = 0
    <3>1. (pc = "ctlz y" /\ pc' = "ctlz r") \/ (pc = "ctlz r" /\ pc' = "beforeloopY")
      BY <1>2, <2>4 DEF Ctlz
    <3>2. PhaseOf(pc') < PhaseOf(pc)
      BY <3>1, Later
    <3> QED BY <2>2, <3>2 DEF Phase
  <2> QED BY <2>3, <2>4
<1>3. CASE LoopY
  <2>1. i \in Nat
    BY Registers
  <2>2. pc = "beforeloopY" /\ w' = w /\ ((i' = i - 1 /\ i # 0 /\ pc' = pc) \/ pc' = "Loop")
    BY <1>3 DEF LoopY
  <2>3. CASE pc' = pc /\ i # 0 /\ i' = i - 1
    BY <2>1, <2>2, <2>3 DEF Phase, Count
  <2>4. CASE PhaseOf(pc') < PhaseOf(pc)
    BY <2>2, <2>4 DEF Phase
  <2> QED BY <2>2, <2>3, <2>4, Later
<1>4. CASE Loop
  <2>1. i \in Nat
    BY Registers
  <2>2. pc = "Loop" /\ w' = w /\ ((i' = i - 1 /\ i # 0 /\ pc' = pc) \/ pc' = "Return")
    BY <1>4 DEF Loop
  <2>3. CASE pc' = pc /\ i # 0 /\ i' = i - 1
    BY <2>1, <2>2, <2>3 DEF Phase, Count
  <2>4. CASE PhaseOf(pc') < PhaseOf(pc)
    BY <2>2, <2>4 DEF Phase
  <2> QED BY <2>2, <2>3, <2>4, Later
<1>5. CASE Return \/ SDivRem \/ SDivRemSigns \/ Mul \/ ExpEntry
  <2>1. /\ w' = w
        /\ \/ pc = "Return" /\ pc' \in {"done", "sdivrem.signs", "safeMul.compare"}
           \/ pc = "sdivrem" /\ pc' = "Entry"
           \/ pc \in {"sdivrem.signs", "mul"} /\ pc' = "done"
           \/ pc = "exp" /\ pc' = "exp.LoopHeader"
    BY <1>5 DEF Return, SDivRem, SDivRemSigns, Mul, ExpEntry, Finish, divVars
  <2>2. PhaseOf(pc') < PhaseOf(pc)
    BY <2>1, Later
  <2> QED BY <2>1, <2>2 DEF Phase
<1>6. CASE ExpLoop
  <2>1. e \in Nat
    BY Registers
  <2>2. pc = "exp.LoopHeader" /\ w' = w
        /\ ((e # 0 /\ e' = e \div 2 /\ pc' = pc) \/ pc' = "done")
    BY <1>6 DEF ExpLoop, Finish, Halved, divVars
  <2>3. e # 0 => e \div 2 < e
    BY <2>1, HalfLess
  <2>4. CASE pc' = pc /\ e # 0 /\ e' = e \div 2
    BY <2>1, <2>2, <2>3, <2>4 DEF Phase, Count
  <2>5. CASE PhaseOf(pc') < PhaseOf(pc)
    BY <2>2, <2>5 DEF Phase
  <2> QED BY <2>2, <2>4, <2>5, Later
<1>7. CASE SafeAdd \/ SafeSub \/ SafeMul \/ SafeUDiv
  <2>1. w' = w /\ pc \in SafeFns /\ pc' \in {"done", "reverted", "Entry"}
    BY <1>7 DEF SafeAdd, SafeSub, SafeMul, SafeUDiv, Finish, Revert, Divide, divVars, SafeFns
  <2>2. PhaseOf(pc') < PhaseOf(pc)
    BY <2>1, Later
  <2> QED BY <2>1, <2>2 DEF Phase
<1>8. CASE SafeMulCompare
  <2>1. w' = w /\ pc = "safeMul.compare" /\ pc' \in {"done", "reverted"}
    BY <1>8 DEF SafeMulCompare, Finish, Revert, divVars
  <2>2. PhaseOf(pc') < PhaseOf(pc)
    BY <2>1, Later
  <2> QED BY <2>1, <2>2 DEF Phase
<1>9. CASE Over
  BY <1>9 DEF Over
<1> QED BY <1>1, <1>2, <1>3, <1>4, <1>5, <1>6, <1>7, <1>8, <1>9, Zenon DEF ArithNext

\* Every block an emitted function of Arith256.cpp runs lowers StepsLeft, for
\* every width and all operands, the divisor zero included: no loop of theirs
\* runs for ever.
THEOREM FunctionsEnd ==
  ArithSpec => [](StepsLeft \in Nat) /\ [][StepsLeft' < StepsLeft]_arithVars
<1>1. ArithInv /\ ArithInv' /\ [ArithNext]_arithVars => StepsLeft' < StepsLeft \/ UNCHANGED arithVars
  <2> SUFFICES ASSUME ArithInv, ArithInv', ArithNext, ~UNCHANGED arithVars
               PROVE  StepsLeft' < StepsLeft
    OBVIOUS
  <2>1. w' = w /\ (Phase' < Phase \/ (Phase' = Phase /\ Count' < Count))
    BY BlocksAdvance
  <2> QED BY <2>1, StepsLess
<1>2. ArithInv => StepsLeft \in Nat
  BY CountBound
<1> QED BY <1>1, <1>2, ArithStarts, ArithStep, PTL DEF ArithSpec
=============================================================================
