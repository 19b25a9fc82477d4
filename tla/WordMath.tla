------------------------------ MODULE WordMath ------------------------------
(***************************************************************************)
(* Integers of w bits: the LLVM instructions on them that the translator   *)
(* emits, and the instructions of the EVM they are emitted for.  A value   *)
(* is the natural below 2^w its bits stand for.                            *)
(***************************************************************************)
EXTENDS Integers

CONSTANT W   \* bits of a word

ASSUME WordAssumption == W \in Nat \ {0}

Values(w) == 0..(2^w - 1)
Wrap(n, w) == n % 2^w
IsNeg(n, w) == n >= 2^(w - 1)
Signed(n, w) == IF IsNeg(n, w) THEN n - 2^w ELSE n
Neg(n, w) == Wrap(0 - n, w)
Abs(n, w) == IF IsNeg(n, w) THEN Neg(n, w) ELSE n

Bit(n, i) == (n \div 2^i) % 2
FromBits(w, bits) == \* the value with bits[i] in place i
  LET sum[i \in 0..w] == IF i = 0 THEN 0 ELSE sum[i - 1] + 2^(i - 1) * bits[i - 1]
  IN  sum[w]

\* Division that rounds towards zero, and its remainder.
Quot(a, b) == LET mag(z) == IF z < 0 THEN -z ELSE z
              IN  IF (a < 0) = (b < 0) THEN mag(a) \div mag(b) ELSE -(mag(a) \div mag(b))
Rem(a, b) == a - b * Quot(a, b)

\* Division in the EVM: by zero it yields zero.
EvmDiv(a, b) == IF b = 0 THEN 0 ELSE a \div b
EvmMod(a, b) == IF b = 0 THEN 0 ELSE a % b
EvmSdiv(a, b, w) == IF b = 0 THEN 0 ELSE Wrap(Quot(Signed(a, w), Signed(b, w)), w)
EvmSmod(a, b, w) == IF b = 0 THEN 0 ELSE Wrap(Rem(Signed(a, w), Signed(b, w)), w)

\* b^e below 2^w, multiplied out one factor at a time.
EvmExp(b, e, w) ==
  LET power[k \in 0..e] == IF k = 0 THEN Wrap(1, w) ELSE Wrap(power[k - 1] * b, w)
  IN  power[e]

\* The bits of n without leading zeros.
BitLength(n, w) == CHOOSE k \in 0..w : n < 2^k /\ (k = 0 \/ n >= 2^(k - 1))

(***************************************************************************)
(* What the division functions of Arith256 return: the quotient and the    *)
(* remainder, and for a divisor of zero one bit more than the dividend has *)
(* and the dividend.  Arith256 checks its functions against these, and     *)
(* Words uses them for the instructions LowerEVMPass replaces by calls.    *)
(***************************************************************************)
UDivOf(x, y, w) == IF y = 0 THEN Wrap(2^(BitLength(x, w) + 1) - 1, w) ELSE x \div y
URemOf(x, y) == IF y = 0 THEN x ELSE x % y
SDivOf(x, y, w) ==
  IF y = 0 THEN LET q == UDivOf(Abs(x, w), 0, w) IN IF IsNeg(x, w) THEN Neg(q, w) ELSE q
           ELSE EvmSdiv(x, y, w)
SRemOf(x, y, w) == IF y = 0 THEN x ELSE EvmSmod(x, y, w)
=============================================================================
