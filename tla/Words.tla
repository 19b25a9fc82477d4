------------------------------- MODULE Words -------------------------------
(***************************************************************************)
(* The instructions on words, lowered by compileBasicBlock                 *)
(* (WASMCompiler.cpp) and then changed by UseSafeMathPass and LowerEVMPass *)
(* (Optimizer.cpp).                                                        *)
(*                                                                         *)
(* A value on the translator's stack has the LLVM type of the instruction  *)
(* it comes from: a word, or narrower for CALLVALUE (i128) and the sizes   *)
(* (i32); a pushed value and the size of the code are constants, and       *)
(* IRBuilder computes with constants at once.  The EVM has words only, and *)
(* the value zero-extended is the one it sees.  An instruction yields a    *)
(* value, is undefined, combines types LLVM demands to be the same, or     *)
(* casts a constant to an Instruction: a build with assertions ends there, *)
(* a Release build goes on with the constant.                              *)
(***************************************************************************)
EXTENDS WordMath, Sequences

CONSTANTS
  Half, Small,     \* bits of i128 and i32; a word is an i256
  ByteBits,        \* bits of a byte
  Inputs,          \* the words a contract pushes or reads
  CodeSize,        \* Bytecode.size()
  MaxStack, MaxSteps

Widths == {W, Half, Small}

ASSUME WidthAssumption ==
  /\ Widths \subseteq Nat \ {0} /\ Small < Half /\ Half < W
  /\ ByteBits \in Nat \ {0} /\ W % ByteBits = 0
  /\ Inputs \subseteq Values(W) /\ CodeSize \in Values(Small)
ASSUME StepsAssumption == MaxSteps \in Nat

VARIABLES
  stack,   \* [v, w: value and type, leaves: types it is computed from, const: a ConstantInt]
  last,    \* the last instruction: operands, what it did, what the EVM does
  safe,    \* Options.enableSafeMath
  reaches, \* a storageStore or call is reachable from every block
  steps

vars == <<stack, last, safe, reaches, steps>>

Item(v, w, leaves, const) == [v |-> v, w |-> w, leaves |-> leaves, const |-> const]
Literal(v, w) == Item(v, w, {w}, TRUE)
Idle == [op |-> "none", args |-> <<>>, kind |-> "value", got |-> 0, want |-> 0]

Init ==
  /\ stack = <<>> /\ last = Idle /\ steps = 0
  /\ safe \in BOOLEAN /\ reaches \in BOOLEAN

Running == last.kind = "value" /\ steps < MaxSteps
Arg(k) == stack[Len(stack) + 1 - k]                 \* the k-th value popped
Below(n) == SubSeq(stack, 1, Len(stack) - n)
Constants(n) == \A k \in 1..n : Arg(k).const
Leaves(n) == UNION {Arg(k).leaves : k \in 1..n}
Byte == 0..(W \div ByteBits - 1)

(***************************************************************************)
(* Operands.                                                               *)
(***************************************************************************)
Push(it) ==
  /\ Running /\ Len(stack) < MaxStack
  /\ stack' = Append(stack, it) /\ steps' = steps + 1
  /\ last' = Idle /\ UNCHANGED <<safe, reaches>>

PUSH(n) == Push(Literal(n, W))
CALLDATALOAD(n) == Push(Item(n, W, {W}, FALSE))
CALLVALUE(n) == Push(Item(Wrap(n, Half), Half, {Half}, FALSE))
SIZE(n) == Push(Item(Wrap(n, Small), Small, {Small}, FALSE))    \* of call or return data
CODESIZE == Push(Literal(CodeSize, Small))

(***************************************************************************)
(* The end of a case: push the result, cast it to an Instruction.          *)
(***************************************************************************)
Report(op, n, kind, got, want) ==
  /\ last' = [op |-> op, args |-> [k \in 1..n |-> Arg(k)], kind |-> kind, got |-> got, want |-> want]
  /\ steps' = steps + 1 /\ UNCHANGED <<safe, reaches>>

Fail(op, n, kind) == stack' = Below(n) /\ Report(op, n, kind, 0, 0)

Result(op, n, it, want) ==
  /\ stack' = Append(Below(n), it) /\ Report(op, n, "value", it.v, want)

\* An operand of the EVM's instruction.
V(k) == Arg(k).v
Same == Arg(1).w = Arg(2).w
\* Both operands are extended to words if their types differ.
Common == IF Same THEN Arg(1).w ELSE W
MixedLeaves == IF Same THEN Leaves(2) ELSE {W}

(***************************************************************************)
(* ADD, SUB, MUL, DIV: named "unsafe", so that the safe math pass finds    *)
(* them.  detectBug returns true if a store or call is reachable and       *)
(* nothing at all otherwise.                                               *)
(***************************************************************************)
detectBugNever == BOOLEAN
detectBug == IF reaches THEN {TRUE} ELSE BOOLEAN

\* UseSafeMathPass: whether the instruction is replaced by a checked function.
Checked == IF safe THEN detectBug ELSE {FALSE}

\* The second operand of MUL is the first one again if the types differ.
Rhs(op) == IF op = "MUL" /\ ~Same THEN V(1) ELSE V(2)
RhsConst(op) == IF op = "MUL" /\ ~Same THEN Arg(1).const ELSE Arg(2).const

Exact(op, m, n) ==
  CASE op = "ADD" -> m + n [] op = "SUB" -> m - n [] op = "MUL" -> m * n
    [] op = "DIV" -> IF n = 0 THEN 2^W ELSE m \div n
Evm(op, m, n) ==
  CASE op = "DIV" -> EvmDiv(m, n) [] OTHER -> Wrap(Exact(op, m, n), W)

\* LowerEVMPass: a division of words becomes a call, a narrow one stays an
\* LLVM division, undefined for zero.
Plain(op, m, n, w) ==
  IF op = "DIV" THEN (IF w = W THEN UDivOf(m, n, W) ELSE m \div n) ELSE Wrap(Exact(op, m, n), w)

\* A constant is no instruction, and the safe math pass does not see it.
Arithmetic(op, checked) ==
  LET w == Common
      n == Rhs(op)
      folded == Arg(1).const /\ RhsConst(op)
      zero == op = "DIV" /\ n = 0 /\ (w < W \/ folded)
      fits == Exact(op, V(1), n) \in Values(W)
      value(v) == Result(op, 2, Item(v, w, MixedLeaves, folded), Evm(op, V(1), V(2)))
  IN  /\ Running /\ Len(stack) >= 2
      /\ checked \in IF folded THEN {FALSE} ELSE Checked
      /\ \/ folded /\ Fail(op, 2, "cast")
         \/ checked /\ w < W /\ Fail(op, 2, "ill-typed")
         \/ checked /\ w = W /\ fits /\ value(Exact(op, V(1), n))
         \/ checked /\ w = W /\ ~fits /\ Fail(op, 2, "reverted")
         \/ ~checked /\ zero /\ Fail(op, 2, "undefined")
         \/ ~checked /\ ~zero /\ value(Plain(op, V(1), n, w))

(***************************************************************************)
(* MOD, SDIV, SMOD: no test of the divisor; the safe math pass leaves them *)
(* alone.  LLVM divides constants and narrow values, and defines neither   *)
(* the divisor zero nor the quotient that overflows.                       *)
(***************************************************************************)
DivideWord(op, m, n) ==
  CASE op = "MOD" -> URemOf(m, n) [] op = "SDIV" -> SDivOf(m, n, W) [] op = "SMOD" -> SRemOf(m, n, W)
DivideNarrow(op, m, n, w) ==
  CASE op = "MOD" -> m % n [] op = "SDIV" -> EvmSdiv(m, n, w) [] op = "SMOD" -> EvmSmod(m, n, w)
DivideEvm(op, m, n) ==
  CASE op = "MOD" -> EvmMod(m, n) [] op = "SDIV" -> EvmSdiv(m, n, W) [] op = "SMOD" -> EvmSmod(m, n, W)

Division(op) ==
  LET w == Common
      folded == Constants(2)
      llvm == w < W \/ folded
      traps == V(2) = 0 \/ (op # "MOD" /\ V(1) = 2^(w - 1) /\ V(2) = 2^w - 1)
      value(v) == Result(op, 2, Item(v, w, MixedLeaves, folded), DivideEvm(op, V(1), V(2)))
  IN  /\ Running /\ Len(stack) >= 2
      /\ \/ folded /\ Fail(op, 2, "cast")
         \/ llvm /\ traps /\ Fail(op, 2, "undefined")
         \/ llvm /\ ~traps /\ value(DivideNarrow(op, V(1), V(2), w))
         \/ ~llvm /\ value(DivideWord(op, V(1), V(2)))

\* Computed in 512 bits, where neither sum nor product wraps; the comparison of
\* the modulus with the word zero comes first.
Modular(op) ==
  LET n == IF op = "ADDMOD" THEN V(1) + V(2) ELSE V(1) * V(2)
      m == Arg(3)
  IN  /\ Running /\ Len(stack) >= 3
      /\ \/ m.w < W /\ Fail(op, 3, "ill-typed")
         \/ m.w = W /\ Constants(3) /\ Fail(op, 3, "cast")
         \/ /\ m.w = W
            /\ Result(op, 3, Item(IF m.v = 0 THEN 0 ELSE Wrap(URemOf(n, m.v), W), W, {W}, Constants(3)),
                      EvmMod(n, m.v))

Words2 == Arg(1).w = W /\ Arg(2).w = W

\* Two constants are multiplied out by the translator, and not cast: a product
\* of words, into which a narrow base does not go.
EXP ==
  LET typed == IF Constants(2) THEN Arg(1).w = W \/ V(2) = 0 ELSE Words2
  IN  /\ Running /\ Len(stack) >= 2
      /\ \/ ~typed /\ Fail("EXP", 2, "ill-typed")
         \/ /\ typed
            /\ Result("EXP", 2, Item(EvmExp(V(1), V(2), W), W, {W}, Constants(2)), EvmExp(V(1), V(2), W))

(***************************************************************************)
(* Comparisons and bits.                                                   *)
(***************************************************************************)
SignedIgnored(n, w) == n
SignedAs(n, w) == Signed(n, w)
Holds(op, m, n, w) ==
  CASE op = "LT" -> m < n [] op = "GT" -> m > n [] op = "EQ" -> m = n
    [] op = "SLT" -> SignedAs(m, w) < SignedAs(n, w)
    [] op = "SGT" -> SignedAs(m, w) > SignedAs(n, w)
EvmHolds(op, m, n) ==
  CASE op = "LT" -> m < n [] op = "GT" -> m > n [] op = "EQ" -> m = n
    [] op = "SLT" -> Signed(m, W) < Signed(n, W)
    [] op = "SGT" -> Signed(m, W) > Signed(n, W)
Flag(p) == IF p THEN 1 ELSE 0

\* The i1 is extended to a word.
FlagWidth == W

Compare(op) ==
  /\ Running /\ Len(stack) >= 2
  /\ \/ Constants(2) /\ Fail(op, 2, "cast")
     \/ Result(op, 2, Item(Flag(Holds(op, V(1), V(2), Common)), FlagWidth, {W}, Constants(2)),
               Flag(EvmHolds(op, V(1), V(2))))

ISZERO ==
  /\ Running /\ Len(stack) >= 1
  /\ \/ Constants(1) /\ Fail("ISZERO", 1, "cast")
     \/ Result("ISZERO", 1, Item(Flag(V(1) = 0), W, {W}, Constants(1)), Flag(V(1) = 0))

OnBits(op, m, n, w) ==
  FromBits(w, [j \in 0..(w - 1) |->
                 LET c == Bit(m, j) d == Bit(n, j)
                 IN  CASE op = "AND" -> c * d [] op = "OR" -> c + d - c * d
                       [] op = "XOR" -> (c + d) % 2])

BitwiseOp(op) ==
  /\ Running /\ Len(stack) >= 2
  /\ \/ Constants(2) /\ Fail(op, 2, "cast")
     \/ Result(op, 2, Item(OnBits(op, V(1), V(2), Common), Common, MixedLeaves, Constants(2)),
               OnBits(op, V(1), V(2), W))

\* The complement in the operand's own type.
Complement(n, w) == 2^w - 1 - n

NOT ==
  /\ Running /\ Len(stack) >= 1
  /\ \/ Constants(1) /\ Fail("NOT", 1, "cast")
     \/ Result("NOT", 1, Item(Complement(V(1), Arg(1).w), Arg(1).w, Leaves(1), Constants(1)),
               2^W - 1 - V(1))

(***************************************************************************)
(* Bytes.  The index is cut to the bits that number the bytes of a word.   *)
(***************************************************************************)
NBytes == W \div ByteBits
Cut(n) == n % NBytes
ByteOf(n, j) == (n \div 2^(ByteBits * j)) % 2^ByteBits      \* least significant first

Swapped(n) ==
  FromBits(W, [j \in 0..(W - 1) |-> Bit(n, ByteBits * (NBytes - 1 - j \div ByteBits) + (j % ByteBits))])

IdxValid(idx) == idx < NBytes

BYTE ==
  LET idx == V(1)
  IN  /\ Running /\ Len(stack) >= 2
      /\ \/ ~Words2 /\ Fail("BYTE", 2, "ill-typed")
         \/ Words2 /\ Constants(2) /\ Fail("BYTE", 2, "cast")
         \/ /\ Words2
            /\ Result("BYTE", 2,
                 Item(IF IdxValid(idx) THEN ByteOf(Swapped(V(2)), Cut(idx)) ELSE 0, W, {W}, Constants(2)),
                 IF idx \in Byte THEN ByteOf(V(2), NBytes - 1 - idx) ELSE 0)

Extended(idx, word) ==
  LET bitpos == Cut(idx) * ByteBits + (ByteBits - 1)
      mask == 2^bitpos - 1
      negmask == 2^W - 1 - mask
  IN  IF idx <= NBytes - 2
        THEN IF Bit(word, bitpos) = 1 THEN OnBits("OR", word, negmask, W)
                                      ELSE OnBits("AND", word, mask, W)
        ELSE word
EvmExtended(idx, word) ==
  LET bits == ByteBits * (idx + 1)
  IN  IF bits < W THEN Wrap(Signed(Wrap(word, bits), bits), W) ELSE word

SIGNEXTEND ==
  /\ Running /\ Len(stack) >= 2
  /\ \/ ~Words2 /\ Fail("SIGNEXTEND", 2, "ill-typed")
     \/ Words2 /\ Constants(2) /\ Fail("SIGNEXTEND", 2, "cast")
     \/ /\ Words2
        /\ Result("SIGNEXTEND", 2, Item(Extended(V(1), V(2)), W, {W}, Constants(2)),
                  EvmExtended(V(1), V(2)))

(***************************************************************************)
(* Shifts, undefined from the width of the type on.                        *)
(***************************************************************************)
Shifted(op, s, n, w) ==
  CASE op = "SHL" -> Wrap(n * 2^s, w) [] op = "SHR" -> n \div 2^s
    [] op = "SAR" -> Wrap(Signed(n, w) \div 2^s, w)

Shift(op) ==
  LET w == Arg(2).w
  IN  /\ Running /\ Len(stack) >= 2
      /\ \/ ~Same /\ Fail(op, 2, "ill-typed")
         \/ Same /\ Constants(2) /\ Fail(op, 2, "cast")
         \/ Same /\ V(1) >= w /\ Fail(op, 2, "undefined")
         \/ /\ Same /\ V(1) < w
            /\ Result(op, 2, Item(Shifted(op, V(1), V(2), w), w, Leaves(2), Constants(2)),
                      Shifted(op, V(1), V(2), W))

Next ==
  \/ \E n \in Inputs : PUSH(n) \/ CALLDATALOAD(n) \/ CALLVALUE(n) \/ SIZE(n)
  \/ CODESIZE
  \/ \E op \in {"ADD", "SUB", "MUL", "DIV"}, checked \in BOOLEAN : Arithmetic(op, checked)
  \/ \E op \in {"MOD", "SDIV", "SMOD"} : Division(op)
  \/ \E op \in {"ADDMOD", "MULMOD"} : Modular(op)
  \/ EXP
  \/ \E op \in {"LT", "GT", "SLT", "SGT", "EQ"} : Compare(op)
  \/ \E op \in {"AND", "OR", "XOR"} : BitwiseOp(op)
  \/ ISZERO \/ NOT \/ BYTE \/ SIGNEXTEND
  \/ \E op \in {"SHL", "SHR", "SAR"} : Shift(op)

Spec == Init /\ [][Next]_vars
-----------------------------------------------------------------------------
(***************************************************************************)
(* Properties.                                                             *)
(***************************************************************************)
Kinds == {"value", "cast", "ill-typed", "undefined", "reverted"}

\* A value fits the type it carries.
TypeOK ==
  /\ \A k \in DOMAIN stack : stack[k].w \in Widths /\ stack[k].v \in Values(stack[k].w)
  /\ last.kind \in Kinds /\ steps \in 0..MaxSteps

Did(ops) == last.kind = "value" /\ last.op \in ops
A == last.args[1]
B == last.args[2]
SameType == A.w = B.w

\* ADD, SUB and MUL yield the EVM's word except where two values of a narrow
\* type have a result outside it, and where MUL of different types squares its
\* first operand; DIV except for the divisor zero.
ArithmeticAgrees ==
  Did({"ADD", "SUB", "MUL", "DIV"}) =>
    (last.got = last.want <=>
       IF last.op = "DIV" THEN B.v # 0
       ELSE IF SameType THEN last.want \in Values(A.w)
       ELSE last.op # "MUL" \/ Wrap(A.v * (A.v - B.v), W) = 0)

\* The signed instructions and MOD yield the EVM's word unless the divisor is
\* zero, or the operands are of one narrow type whose top bit is taken for a
\* sign; a signed comparison of such operands is wrong exactly when their
\* signs differ.
SignedAgrees ==
  /\ Did({"MOD", "SDIV", "SMOD"}) =>
       \/ last.got = last.want
       \/ B.v = 0
       \/ last.op # "MOD" /\ SameType /\ A.w < W /\ (IsNeg(A.v, A.w) \/ IsNeg(B.v, A.w))
  /\ Did({"SLT", "SGT"}) =>
       (last.got = last.want <=>
          ~(SameType /\ A.w < W /\ IsNeg(A.v, A.w) # IsNeg(B.v, A.w)))
  /\ Did({"SAR"}) => (last.got = last.want <=> A.w = W \/ A.v = 0 \/ ~IsNeg(B.v, A.w))

\* Modular arithmetic, powers, unsigned comparisons, and, or, xor, bytes, sign
\* extension and right shifts yield the EVM's word on every operand they
\* translate; NOT only on words, SHL unless it loses bits of a narrow value.
BitsAgree ==
  /\ Did({"ADDMOD", "MULMOD", "EXP", "LT", "GT", "EQ", "ISZERO", "AND", "OR", "XOR",
          "BYTE", "SIGNEXTEND", "SHR"}) => last.got = last.want
  /\ Did({"NOT"}) => (last.got = last.want <=> A.w = W)
  /\ Did({"SHL"}) => (last.got = last.want <=> last.want \in Values(A.w))

\* The second operand the translator takes for MUL of different types is the
\* first one; an instruction on constants is computed by the translator itself.
Second == IF last.op = "MUL" /\ ~SameType THEN A ELSE B
Folded == A.const /\ Second.const

\* With the safe math pass, in a contract that stores or calls, no result of
\* ADD, SUB, MUL or DIV is wrapped, whatever the types: it is the integer
\* result of the operands the instruction uses.  The one exception is what the
\* translator computes from constants, which the pass never sees.
SafeResultsExact ==
  (safe /\ reaches /\ Did({"ADD", "SUB", "MUL", "DIV"}) /\ ~Folded) =>
    last.got = Exact(last.op, A.v, Second.v)

\* A value is narrow only if everything it is computed from has its type:
\* one word among the operands, or a comparison, makes the rest words.  So
\* ill-typed translations need a value that never met a word.
NarrowHistory ==
  /\ \A k \in DOMAIN stack : stack[k].w < W => stack[k].leaves = {stack[k].w}
  /\ last.kind = "ill-typed" => \E k \in DOMAIN last.args : last.args[k].w < W

\* Every instruction the translator has for words yields the EVM's word, with
\* exactly the exceptions named above, on values of every type a history of
\* instructions can give.
InstructionsAgree ==
  TypeOK /\ ArithmeticAgrees /\ SignedAgrees /\ BitsAgree /\ NarrowHistory
=============================================================================
