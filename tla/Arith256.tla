------------------------------ MODULE Arith256 ------------------------------
(***************************************************************************)
(* The functions Arith256.cpp emits into every translated contract, which  *)
(* have no 256-bit arithmetic of wasm to rely on: division by shifting and *)
(* subtracting, multiplication by halves, powers by squaring, and the      *)
(* checked operations of the safe math pass.  One action is one LLVM block *)
(* (the counting loop of ctlz is one block), a call continues with the     *)
(* first block of the function called.                                     *)
(***************************************************************************)
EXTENDS WordMath

CONSTANT Operands   \* for each function to run, the operands to run it on

VARIABLES
  fn,         \* the function called from the contract
  a, b,       \* its operands
  pc,         \* the block to run, or "done", "reverted"
  x, y, w,    \* arguments and width of the division that runs
  tmp, cnt,   \* ctlz
  yLz, i0,    \* leading zeros of y, and how far y is shifted
  i, yp, r, q,\* phi nodes of the division loops
  base, e,    \* phi nodes of the exp loop, with r
  res         \* what the contract gets, or <<quotient, remainder>>

divVars == <<x, y, w, tmp, cnt, yLz, i0, i, yp, q>>
arithVars == <<fn, a, b, pc, divVars, r, base, e, res>>

DivFns == {"udivrem", "sdivrem", "urem512"}
SafeFns == {"safeAdd", "safeSub", "safeMul", "safeUDiv"}
AllFns == DivFns \union SafeFns \union {"mul", "exp"}

ASSUME OperandsAssumption ==
  DOMAIN Operands \subseteq AllFns /\ \A f \in DOMAIN Operands : Operands[f] \subseteq Values(W)

\* The multiplication takes halves and quarters of a word and of its half.
ASSUME HalvesAssumption == W % 8 = 0

First(f) == CASE f \in {"udivrem", "urem512"} -> "Entry" [] OTHER -> f

\* MULMOD hands the product of two words to urem512.
ArithInit ==
  /\ fn \in DOMAIN Operands
  /\ b \in Operands[fn]
  /\ a \in IF fn = "urem512" THEN {m * n : m, n \in Operands[fn]} ELSE Operands[fn]
  /\ pc = First(fn)
  /\ x = a /\ y = b /\ w = (IF fn = "urem512" THEN 2 * W ELSE W)
  /\ tmp = 0 /\ cnt = 0 /\ yLz = 0 /\ i0 = 0
  /\ i = 0 /\ yp = 0 /\ r = 0 /\ q = 0 /\ base = 0 /\ e = 0
  /\ res = <<>>

(***************************************************************************)
(* createUDivRemFunc and createCTLZFunc.                                   *)
(***************************************************************************)
UDivRemEntry ==
  /\ pc = "Entry"
  /\ IF y <= x
       THEN /\ pc' = "ctlz y" /\ tmp' = y /\ cnt' = 0 /\ UNCHANGED <<q, r>>
       ELSE /\ pc' = "Return" /\ q' = 0 /\ r' = x /\ UNCHANGED <<tmp, cnt>>
  /\ UNCHANGED <<fn, a, b, x, y, w, yLz, i0, i, yp, base, e, res>>

Lz(n) == w - n
ShiftBy(yl, rl) == Wrap(yl - rl, w)

Ctlz ==
  /\ pc \in {"ctlz y", "ctlz r"}
  /\ IF tmp # 0
       THEN tmp' = tmp \div 2 /\ cnt' = cnt + 1 /\ UNCHANGED <<pc, yLz, i0, i, yp>>
       ELSE \/ /\ pc = "ctlz y" /\ pc' = "ctlz r"
               /\ yLz' = Lz(cnt) /\ tmp' = x /\ cnt' = 0 /\ UNCHANGED <<i0, i, yp>>
            \/ /\ pc = "ctlz r" /\ pc' = "beforeloopY"
               /\ i0' = ShiftBy(yLz, Lz(cnt)) /\ i' = i0' /\ yp' = y
               /\ UNCHANGED <<tmp, cnt, yLz>>
  /\ UNCHANGED <<fn, a, b, x, y, w, q, r, base, e, res>>

LoopY ==
  /\ pc = "beforeloopY"
  /\ IF i # 0
       THEN yp' = Wrap(2 * yp, w) /\ i' = i - 1 /\ UNCHANGED <<pc, r, q>>
       ELSE pc' = "Loop" /\ i' = i0 /\ r' = x /\ q' = 0 /\ UNCHANGED yp
  /\ UNCHANGED <<fn, a, b, x, y, w, tmp, cnt, yLz, i0, base, e, res>>

SubtractsGreater == r > yp
Subtracts == r >= yp

NextDivisor(n) == n \div 2

Loop ==
  /\ pc = "Loop"
  /\ LET r1 == IF Subtracts THEN r - yp ELSE r
         q1 == IF Subtracts THEN q + 1 - (q % 2) ELSE q     \* q | 1
     IN  IF i = 0
           THEN pc' = "Return" /\ r' = r1 /\ q' = q1 /\ UNCHANGED <<i, yp>>
           ELSE /\ i' = i - 1 /\ q' = Wrap(2 * q1, w) /\ r' = r1 /\ yp' = NextDivisor(yp)
                /\ UNCHANGED pc
  /\ UNCHANGED <<fn, a, b, x, y, w, tmp, cnt, yLz, i0, base, e, res>>

Finish(value) == pc' = "done" /\ res' = value

\* The block that follows the call.
Return ==
  /\ pc = "Return"
  /\ \/ fn \in {"udivrem", "urem512", "safeUDiv"} /\ Finish(<<q, r>>)
     \/ fn = "sdivrem" /\ pc' = "sdivrem.signs" /\ UNCHANGED res
     \/ fn = "safeMul" /\ pc' = "safeMul.compare" /\ UNCHANGED res
  /\ UNCHANGED <<fn, a, b, divVars, r, base, e>>

(***************************************************************************)
(* getSDivRem256Func.                                                      *)
(***************************************************************************)
SDivRem ==
  /\ pc = "sdivrem" /\ pc' = "Entry"
  /\ x' = Abs(a, w) /\ y' = Abs(b, w)
  /\ UNCHANGED <<fn, a, b, w, tmp, cnt, yLz, i0, i, yp, q, r, base, e, res>>

RemSign == IsNeg(a, W)

SDivRemSigns ==
  /\ pc = "sdivrem.signs"
  /\ Finish(<<IF IsNeg(a, W) # IsNeg(b, W) THEN Neg(q, W) ELSE q,
              IF RemSign THEN Neg(r, W) ELSE r>>)
  /\ UNCHANGED <<fn, a, b, divVars, r, base, e>>

(***************************************************************************)
(* getMulFunc: a product of bits bits from four products of halves of the  *)
(* low halves, and the two mixed products.  The multiplications Low of the *)
(* 256-bit function are replaced by calls of the 128-bit one.              *)
(***************************************************************************)
\* U_H + V_H
Carries(uh, vh, bits) == Wrap(uh + vh, bits)

MulFunc(lhs, rhs, bits, Low) ==
  LET half == bits \div 2
      quarter == bits \div 4
      lo(n) == n % 2^quarter
      hi(n) == n \div 2^quarter
      Add(m, n) == Wrap(m + n, half)
      l == Wrap(lhs, half)   lh == lhs \div 2^half
      s == Wrap(rhs, half)   rh == rhs \div 2^half
      t == Low[lo(l), lo(s)]
      u == Add(Low[hi(l), lo(s)], hi(t))
      v == Add(Low[lo(l), hi(s)], lo(u))
      p == Add(Low[hi(l), hi(s)], Carries(hi(u), hi(v), half))
      o_l == Add(lo(t), Wrap(v * 2^quarter, half))
      o_h == Add(p, Add(Low[rh, l], Low[s, lh]))
  IN  Wrap(o_l + Wrap(o_h * 2^half, bits), bits)

Pairs(bits) == Values(bits) \X Values(bits)

Mul64 == [p \in Pairs(W \div 4) |-> Wrap(p[1] * p[2], W \div 4)]
Mul128 == [p \in Pairs(W \div 2) |-> MulFunc(p[1], p[2], W \div 2, Mul64)]
Mul256(m, n) == MulFunc(m, n, W, Mul128)

Mul == pc = "mul" /\ Finish(<<Mul256(a, b)>>) /\ UNCHANGED <<fn, a, b, divVars, r, base, e>>

(***************************************************************************)
(* getExpFunc, and Arith256::exp on two constants: the same loop.          *)
(***************************************************************************)
ExpEntry ==
  /\ pc = "exp" /\ pc' = "exp.LoopHeader"
  /\ r' = 1 /\ base' = a /\ e' = b
  /\ UNCHANGED <<fn, a, b, divVars, res>>

HalvedOnce(n) == IF n = 1 THEN 1 ELSE n \div 2
Halved(n) == n \div 2

ExpLoop ==
  /\ pc = "exp.LoopHeader"
  /\ IF e # 0
       THEN /\ r' = (IF e % 2 = 1 THEN Mul256(r, base) ELSE r)
            /\ base' = Mul256(base, base) /\ e' = Halved(e)
            /\ UNCHANGED <<pc, res>>
       ELSE Finish(<<r>>) /\ UNCHANGED <<r, base, e>>
  /\ UNCHANGED <<fn, a, b, divVars>>

(***************************************************************************)
(* getSafeMathAddFunc, -SubFunc, -MulFunc, -UDivFunc.  The call of revert  *)
(* ends the message.                                                       *)
(***************************************************************************)
Revert == pc' = "reverted" /\ UNCHANGED res
Stay == UNCHANGED <<fn, a, b, r, base, e>>

AddOverflows(sum) == sum < a

SafeAdd ==
  /\ pc = "safeAdd"
  /\ LET sum == Wrap(a + b, W)
     IN  IF AddOverflows(sum) THEN Revert ELSE Finish(<<sum>>)
  /\ Stay /\ UNCHANGED divVars

SafeSub ==
  /\ pc = "safeSub"
  /\ IF b > a THEN Revert ELSE Finish(<<Wrap(a - b, W)>>)
  /\ Stay /\ UNCHANGED divVars

Divide(m, n) == pc' = "Entry" /\ x' = m /\ y' = n /\ UNCHANGED <<w, tmp, cnt, yLz, i0, i, yp, q>>

SafeMul ==
  /\ pc = "safeMul"
  /\ IF a = 0 THEN Finish(<<0>>) /\ UNCHANGED divVars
              ELSE Divide(Mul256(a, b), a) /\ UNCHANGED res
  /\ Stay

SafeMulCompare ==
  /\ pc = "safeMul.compare"
  /\ IF q # b THEN Revert ELSE Finish(<<Mul256(a, b)>>)
  /\ Stay /\ UNCHANGED divVars

SafeUDiv ==
  /\ pc = "safeUDiv"
  /\ IF b = 0 THEN Revert /\ UNCHANGED divVars
              ELSE Divide(a, b) /\ UNCHANGED res
  /\ Stay

Over == pc \in {"done", "reverted"} /\ UNCHANGED arithVars

ArithNext ==
  \/ UDivRemEntry \/ Ctlz \/ LoopY \/ Loop \/ Return
  \/ SDivRem \/ SDivRemSigns \/ Mul \/ ExpEntry \/ ExpLoop
  \/ SafeAdd \/ SafeSub \/ SafeMul \/ SafeMulCompare \/ SafeUDiv
  \/ Over

\* The engine runs the function it was asked to run.
ArithSpec == ArithInit /\ [][ArithNext]_arithVars /\ WF_arithVars(ArithNext)
-----------------------------------------------------------------------------
(***************************************************************************)
(* Properties.                                                             *)
(***************************************************************************)

\* Registers hold values of the width of the division; i0 in particular is
\* a difference that must not wrap (it is declared nuw).
ArithTypeOK ==
  /\ fn \in AllFns /\ w \in {W, 2 * W}
  /\ {x, y, tmp, cnt, yp, r, q} \subseteq Values(w)
  /\ {yLz, i0, i} \subseteq 0..w
  /\ {base, e} \subseteq Values(W)

\* The loop of evm.udivrem: what is subtracted so far and what is left make
\* up the dividend, y.phi is the divisor shifted by the rounds that are
\* left and never loses a bit, and the rest is below twice y.phi.
DivisionInvariant ==
  (pc = "Loop" /\ y # 0) =>
    /\ yp = y * 2^i
    /\ x = q * yp + r
    /\ r < 2 * yp

\* The multiplication and the power return what the EVM defines, and so do the
\* divisions for every divisor but zero.  For the divisor zero they return what
\* the code computes: a quotient of ones, as many as the dividend has bits and
\* one more, and the dividend itself, where the EVM has 0 for both.
ResultsExact ==
  pc = "done" =>
    CASE fn = "udivrem" -> res = <<UDivOf(a, b, W), URemOf(a, b)>>
      [] fn = "urem512" -> res[2] = URemOf(a, b)
      [] fn = "sdivrem" -> res = <<SDivOf(a, b, W), SRemOf(a, b, W)>>
      [] fn = "mul" -> res = <<Wrap(a * b, W)>>
      [] fn = "exp" -> res = <<EvmExp(a, b, W)>>
      [] OTHER -> TRUE

\* The safe math functions return exactly when the integer result is a word,
\* and then return it; otherwise they revert.
SafeMathExact ==
  LET exact == CASE fn = "safeAdd" -> a + b
                 [] fn = "safeSub" -> a - b
                 [] fn = "safeMul" -> a * b
                 [] fn = "safeUDiv" -> IF b = 0 THEN 2^W ELSE a \div b
                 [] OTHER -> 0
  IN  fn \in SafeFns =>
        /\ pc = "reverted" => exact \notin Values(W)
        /\ pc = "done" => exact \in Values(W) /\ res[1] = exact

\* What createUDivRemFunc says of itself: "The following algorithm also handles
\* divisor of value 0 returning 0 for both quotient and remainder".
ZeroDivisorGivesZero == pc = "done" /\ fn = "udivrem" /\ b = 0 => res = <<0, 0>>

\* Each loop ends, for every operand, the divisor zero included.
Terminates == <>(pc \in {"done", "reverted"})

\* The emitted functions compute what ResultsExact and SafeMathExact say on every
\* operand, the division with its invariant at every pass of the loop.
FunctionsExact == ArithTypeOK /\ DivisionInvariant /\ ResultsExact /\ SafeMathExact
=============================================================================
