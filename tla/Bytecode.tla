------------------------------ MODULE Bytecode ------------------------------
(***************************************************************************)
(* EVM bytecode as evmtrans reads it (Instruction.h, Instruction.cpp).  A  *)
(* program is a sequence of bytes; positions count from 0, as in the       *)
(* source.  Instructions that the translator treats alike have one         *)
(* representative: ADD for the operators that fold constants, GAS for the  *)
(* ones whose result is only known at run time.                            *)
(***************************************************************************)
EXTENDS Integers, Sequences

CONSTANTS
  Mnemonic,  \* the opcode each byte stands for
  ByteBase   \* number of byte values (256), the radix of push data

Ops == {"STOP", "ADD", "POP", "JUMP", "JUMPI", "GAS", "JUMPDEST", "PUSH1",
  "PUSH2", "DUP1", "DUP2", "SWAP1", "SWAP2", "RETURN", "REVERT", "INVALID",
  "SUICIDE", "CODECOPY"}

Byte == DOMAIN Mnemonic

ASSUME BytecodeAssumption ==
  /\ Byte \subseteq Nat
  /\ Mnemonic \in [Byte -> Ops]
  /\ ByteBase \in Nat

\* InstrMap: how many items an instruction takes from the stack, and gives.
StackOut(op) ==
  CASE op \in {"POP", "JUMP", "DUP1", "SUICIDE"} -> 1
    [] op \in {"ADD", "JUMPI", "DUP2", "SWAP1", "RETURN", "REVERT"} -> 2
    [] op \in {"SWAP2", "CODECOPY"} -> 3
    [] OTHER -> 0

StackIn(op) ==
  CASE op \in {"ADD", "GAS", "PUSH1", "PUSH2"} -> 1
    [] op \in {"DUP1", "SWAP1"} -> 2
    [] op \in {"DUP2", "SWAP2"} -> 3
    [] OTHER -> 0

\* n of DUPn and SWAPn.
Rank(op) == IF op \in {"DUP2", "SWAP2"} THEN 2 ELSE 1

PushSize(op) == CASE op = "PUSH1" -> 1 [] op = "PUSH2" -> 2 [] OTHER -> 0

OpAt(c, p) == Mnemonic[c[p + 1]]

\* skipPushDataAndGetNext: push data is skipped, as far as there is any.
NextPc(c, p) ==
  LET n == PushSize(OpAt(c, p))
      left == Len(c) - p - 1
  IN p + 1 + IF n <= left THEN n ELSE left

\* readPushData: bytes missing at the end of the code are zero.
PushData(c, p) ==
  LET data(i) == IF p + i < Len(c) THEN c[p + i + 1] ELSE 0
  IN IF PushSize(OpAt(c, p)) = 1 THEN data(1) ELSE ByteBase * data(1) + data(2)

(***************************************************************************)
(* The positions at which an instruction starts: the least set that holds  *)
(* 0 and, with a position, the one after its push data.  The end of the    *)
(* code is in it too.                                                      *)
(***************************************************************************)
ClosedUnderNext(c, S) == 0 \in S /\ \A p \in S : p < Len(c) => NextPc(c, p) \in S

InstrStarts(c) ==
  LET closed == {S \in SUBSET (0..Len(c)) : ClosedUnderNext(c, S)}
  IN {p \in 0..Len(c) : \A S \in closed : p \in S}

\* After these the EVM never goes on to the next instruction.
NoFallThrough == {"STOP", "JUMP", "RETURN", "REVERT", "INVALID", "SUICIDE"}

\* What the EVM accepts as the target of a jump.
ValidJumpDests(c) == {p \in InstrStarts(c) : p < Len(c) /\ OpAt(c, p) = "JUMPDEST"}
=============================================================================
