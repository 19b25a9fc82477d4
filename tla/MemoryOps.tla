----------------------------- MODULE MemoryOps ------------------------------
(***************************************************************************)
(* How the Ethereum interface reaches the wasm memory (eei.cpp, Memory     *)
(* Operations): the bounds checks in 32-bit arithmetic, the byte-wise      *)
(* copies in memory order and reversed, and the copies of call data and    *)
(* code.  The engines' memorySet and memoryGet do not check anything, so   *)
(* every index must be right before they are called.                       *)
(***************************************************************************)
EXTENDS Integers, Sequences

CONSTANTS
  AddrSpace,  \* 2^32: the values of uint32_t
  Byte,
  Sizes,      \* the sizes the memory may have
  Buffers,    \* call data and code of contracts
  WordSize,   \* 32, the bytes of a uint256be
  HalfSize,   \* 16, the bytes of a 128-bit balance
  StackItems  \* 1024, the words of the EVM stack

ASSUME MemoryAssumption ==
  /\ AddrSpace \in Nat \ {0}
  /\ 0 \in Byte
  /\ Sizes \subseteq 0..AddrSpace
  /\ Buffers \subseteq Seq(Byte) /\ \A b \in Buffers : Len(b) < AddrSpace
  /\ WordSize \in Nat /\ HalfSize \in Nat /\ StackItems \in Nat
  /\ 0 < HalfSize /\ HalfSize < WordSize /\ WordSize < AddrSpace

Offset == 0..(AddrSpace - 1)
Word == [1..WordSize -> Byte]

VARIABLES
  size, mem,   \* the memory: bytes 0 to size - 1
  status,      \* "ok", or the exception that ended the call
  touched,     \* the indices the last operation handed to memorySet or memoryGet
  taken,       \* the positions it read of a source buffer, and the buffer's length
  stored       \* what the last operation stored where, for reading it back

vars == <<size, mem, status, touched, taken, stored>>

\* Sum and difference of two uint32_t.
Add32(a, b) == IF a + b < AddrSpace THEN a + b ELSE a + b - AddrSpace
Sub32(a, b) == IF a >= b THEN a - b ELSE a - b + AddrSpace

Range32(o, n) == {Add32(o, i) : i \in 0..(n - 1)}

\* (offset + length) >= offset and memorySize() >= (offset + length).
Within32(o, n, limit) == Add32(o, n) >= o /\ limit >= Add32(o, n)

\* loadMemory takes its length as a size_t: the sum is exact.
Within64(o, n, limit) == limit >= o + n

Nothing == <<"nothing">>
Fails(e) == status' = e /\ touched' = {} /\ taken' = <<{}, 0>> /\ stored' = Nothing /\ UNCHANGED mem

-----------------------------------------------------------------------------
\* storeBytes32, storeAddress: storeMemory.
StoreBytes(w, o) ==
  \/ /\ ~Within32(o, WordSize, size) /\ Fails("InvalidMemoryAccess")
  \/ /\ Within32(o, WordSize, size)
     /\ mem' = [j \in DOMAIN mem |->
                  IF j \in o..(o + WordSize - 1) THEN w[j - o + 1] ELSE mem[j]]
     /\ touched' = Range32(o, WordSize) /\ taken' = <<0..(WordSize - 1), WordSize>>
     /\ stored' = <<"bytes", o, w>> /\ UNCHANGED status

\* storeUint256: storeMemoryReverse.
ReversedNot(n, i) == i
Reversed(n, i) == n - (i + 1)
StoreUint256(w, o) ==
  \/ /\ ~Within32(o, WordSize, size) /\ Fails("InvalidMemoryAccess")
  \/ /\ Within32(o, WordSize, size)
     /\ mem' = [j \in DOMAIN mem |->
                  IF j \in o..(o + WordSize - 1) THEN w[Reversed(WordSize, j - o) + 1] ELSE mem[j]]
     /\ touched' = {Add32(o, Reversed(WordSize, i)) : i \in 0..(WordSize - 1)}
     /\ taken' = <<0..(WordSize - 1), WordSize>>
     /\ stored' = <<"uint256", o, w>> /\ UNCHANGED status

\* storeUint128: the low half of the word, which must be all there is of it.
ExceedsUint128(w) == \E i \in 1..(WordSize - HalfSize) : w[i] # 0
StoreUint128(w, o) ==
  \/ /\ ExceedsUint128(w) /\ Fails("ArgumentOutOfRange")
  \/ /\ ~ExceedsUint128(w) /\ ~Within32(o, HalfSize, size) /\ Fails("InvalidMemoryAccess")
  \/ /\ ~ExceedsUint128(w) /\ Within32(o, HalfSize, size)
     /\ mem' = [j \in DOMAIN mem |->
                  IF j \in o..(o + HalfSize - 1)
                  THEN w[WordSize - HalfSize + Reversed(HalfSize, j - o) + 1] ELSE mem[j]]
     /\ touched' = {Add32(o, Reversed(HalfSize, i)) : i \in 0..(HalfSize - 1)}
     /\ taken' = <<(WordSize - HalfSize)..(WordSize - 1), WordSize>>
     /\ stored' = <<"uint128", o, w>> /\ UNCHANGED status

\* storeMemory from a view of a buffer.
StoreView(src, s, d, n) ==
  \/ /\ ~(Within32(s, n, Len(src)) /\ Within32(d, n, size)) /\ Fails("InvalidMemoryAccess")
  \/ /\ Within32(s, n, Len(src)) /\ Within32(d, n, size)
     /\ mem' = [j \in DOMAIN mem |->
                  IF j \in d..(d + n - 1) THEN src[s + (j - d) + 1] ELSE mem[j]]
     /\ touched' = Range32(d, n) /\ taken' = <<Range32(s, n), Len(src)>>
     /\ stored' = <<"view", d, SubSeq(src, s + 1, s + n)>> /\ UNCHANGED status

\* eeiCodeCopy, eeiReturnDataCopy.
CodeCopy(src, resultOffset, codeOffset, length) == StoreView(src, codeOffset, resultOffset, length)

\* eeiExternalCodeCopy: copy_code fills a buffer of the length asked for, with
\* what the code has from the offset on, and must fill all of it.
ExternalCodeCopy(src, addressOffset, resultOffset, codeOffset, length) ==
  LET complete == length = 0 \/ codeOffset + length <= Len(src)
  IN \/ /\ ~(Within64(addressOffset, HalfSize, size) /\ complete)
        /\ Fails("InvalidMemoryAccess")
     \/ /\ Within64(addressOffset, HalfSize, size) /\ complete
        /\ StoreView(SubSeq(src, codeOffset + 1, codeOffset + length), 0, resultOffset, length)

\* eeiCallDataCopy: what lies beyond the call data is cut off the copy.
Copied(src, dataOffset, length) ==
  IF Add32(dataOffset, length) <= Len(src) THEN length ELSE Sub32(Len(src), dataOffset)
CallDataCopy(src, resultOffset, dataOffset, length) ==
  StoreView(src, dataOffset, resultOffset, Copied(src, dataOffset, length))

\* loadBytes32, loadAddress, loadUint256, loadUint128, eeiLog, eeiRevertOrFinish.
LoadUnchecked(o, n) ==
  /\ touched' = o..(o + n - 1) /\ taken' = <<{}, 0>> /\ UNCHANGED <<mem, status, stored>>
Load(o, n) ==
  \/ /\ ~Within64(o, n, size) /\ Fails("InvalidMemoryAccess")
  \/ /\ Within64(o, n, size)
     /\ touched' = o..(o + n - 1) /\ taken' = <<{}, 0>> /\ UNCHANGED <<mem, status, stored>>
LoadChecked(o, n) ==
  \/ Within32(o, n, size) /\ Load(o, n)
  \/ ~Within32(o, n, size) /\ Fails("InvalidMemoryAccess")

\* debugPrintMem: an empty range is an error too.
DebugPrintMem(o, n) ==
  \/ /\ ~(Add32(o, n) > o /\ size >= Add32(o, n)) /\ Fails("InternalError")
  \/ /\ Add32(o, n) > o /\ size >= Add32(o, n)
     /\ touched' = o..(Add32(o, n) - 1) /\ taken' = <<{}, 0>> /\ UNCHANGED <<mem, status, stored>>

\* debugEvmTrace prints the stack's words up to the one at sp.
DebugEvmTrace(opcode, sp) ==
  LET items == {i \in 0..sp : i % WordSize = 0}
      asserted == sp <= StackItems * WordSize /\ opcode \in 0..255
  IN \/ /\ ~asserted /\ Fails("InternalError")
     \/ /\ asserted /\ \E i \in items : ~Within64(i, WordSize, size)
        /\ Fails("InvalidMemoryAccess")
     \/ /\ asserted /\ \A i \in items : Within64(i, WordSize, size)
        /\ touched' = UNION {i..(i + WordSize - 1) : i \in items}
        /\ taken' = <<{}, 0>> /\ UNCHANGED <<mem, status, stored>>

\* The contract grows its memory (memory.grow).
Grow ==
  /\ \E n \in Sizes :
       /\ n > size /\ size' = n
       /\ mem' = [j \in 0..(n - 1) |-> IF j < size THEN mem[j] ELSE 0]
  /\ touched' = {} /\ taken' = <<{}, 0>> /\ UNCHANGED <<status, stored>>

\* What loadBytes32, loadUint256 and loadUint128 read at o.
LoadBytes32(o) == [i \in 1..WordSize |-> mem[o + i - 1]]
LoadUint256(o) == [i \in 1..WordSize |-> mem[o + WordSize - i]]
LoadUint128(o) ==
  [i \in 1..WordSize |-> IF i <= WordSize - HalfSize THEN 0 ELSE mem[o + WordSize - i]]

Init ==
  /\ size \in Sizes /\ mem = [j \in 0..(size - 1) |-> 0]
  /\ status = "ok" /\ touched = {} /\ taken = <<{}, 0>> /\ stored = Nothing

Operation ==
  \E o \in Offset, n \in Offset :
    \/ \E w \in Word : n = 0 /\ (StoreBytes(w, o) \/ StoreUint256(w, o) \/ StoreUint128(w, o))
    \/ Load(o, n) \/ LoadChecked(o, n) \/ DebugPrintMem(o, n)
    \/ n = 0 /\ \E opcode \in {0, 256} : DebugEvmTrace(opcode, o)
    \/ \E src \in Buffers, s \in Offset :
         \/ CodeCopy(src, o, s, n)
         \/ CallDataCopy(src, o, s, n)
         \/ \E a \in Offset : ExternalCodeCopy(src, a, o, s, n)

Next == status = "ok" /\ ((Operation /\ UNCHANGED size) \/ Grow)

Spec == Init /\ [][Next]_vars

-----------------------------------------------------------------------------
\* The memory has a byte at every index below its size.
TypeOK ==
  /\ size \in Sizes /\ mem \in [0..(size - 1) -> Byte]
  /\ status \in {"ok", "InvalidMemoryAccess", "ArgumentOutOfRange", "InternalError"}

\* No memory operation hands an index outside the memory to the engine, or
\* reads past the end of the buffer it copies from, whatever wraps around.
NoAccessOutside ==
  /\ touched \subseteq 0..(size - 1)
  /\ taken[1] \subseteq 0..(taken[2] - 1)

\* What the interface stores as a number or as bytes is what it loads again:
\* the reversal and the offset of the half word match.
ReadsBack ==
  LET o == stored[2]  w == stored[3] IN
  CASE stored[1] = "bytes"   -> LoadBytes32(o) = w
    [] stored[1] = "uint256" -> LoadUint256(o) = w
    [] stored[1] = "uint128" -> LoadUint128(o) = w
    [] stored[1] = "view"    -> \A i \in 1..Len(w) : mem[o + i - 1] = w[i]
    [] OTHER -> TRUE

\* Storing at o fails only where the bytes do not all lie in the memory; one
\* store is refused that would fit, the one that ends at 2^32 exactly.
StoreExact ==
  \A o \in Offset : Within32(o, WordSize, size) <=> o + WordSize <= size /\ o + WordSize < AddrSpace

\* eeiCallDataCopy copies the bytes that exist and no others, and fails only
\* where these do not fit the memory, the data offset is past the end of the
\* call data, or the sum of offset and length wraps around.
CallDataCopyExact ==
  \A src \in Buffers, r \in Offset, s \in Offset, n \in Offset :
    LET exist == IF s + n <= Len(src) THEN n ELSE Len(src) - s
        copied == Copied(src, s, n)
        succeeds == Within32(s, copied, Len(src)) /\ Within32(r, copied, size)
    IN /\ succeeds <=> /\ s <= Len(src) /\ s + n < AddrSpace
                       /\ r + exist <= size /\ r + exist < AddrSpace
       /\ succeeds => copied = exist

\* The interface moves the bytes it was asked to move, whatever was moved
\* before, and refuses no more than the sum at 2^32 makes it refuse.
CopiesExact == TypeOK /\ ReadsBack /\ StoreExact /\ CallDataCopyExact
=============================================================================
