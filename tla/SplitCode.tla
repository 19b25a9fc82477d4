----------------------------- MODULE SplitCode ------------------------------
(***************************************************************************)
(* Creation code: splitCode looks for the end of the deploy part (the      *)
(* first PUSH1 after a RETURN that follows a CODECOPY); the two parts are  *)
(* then translated one after the other, the runtime part first, each with  *)
(* positions that count from its own beginning.                            *)
(***************************************************************************)
EXTENDS Blocks, FiniteSets

VARIABLES
  part,           \* what main is doing: "split", "runtime", "deploy", "input", "failed"
  whole,          \* EntireBytecode
  offset,         \* curr of splitCode's loop
  existCodeCopy, existReturn,
  RETURNPC,
  splitPoint

splitVars == <<whole, offset, existCodeCopy, existReturn, RETURNPC, splitPoint>>
deployVars == <<part, splitVars, scanVars>>

DeployerBytecode == SubSeq(whole, 1, splitPoint)
RuntimerBytecode == SubSeq(whole, splitPoint + 1, Len(whole))

\* compileMain calls createBasicBlocks on the bytecode it is given.
Translate(c) ==
  /\ code' = c
  /\ curr' = 0 /\ begin' = 0 /\ isDead' = FALSE /\ blocks' = << >>

SplitNextByte(p) == p + 1
SplitNextHold(p) ==
  IF p + PushSize(OpAt(whole, p)) >= Len(whole) THEN p ELSE NextPc(whole, p)
SplitNext(p) == NextPc(whole, p)

Remembers(op) == existCodeCopy /\ op = "RETURN"

\* One round of the loop that does not find the split point.
SplitStep ==
  LET op == OpAt(whole, offset)
  IN /\ part = "split" /\ offset < Len(whole)
     /\ ~(op = "PUSH1" /\ existReturn)
     /\ offset' = SplitNext(offset)
     /\ existCodeCopy' = (existCodeCopy \/ op = "CODECOPY")
     /\ existReturn' = (existReturn \/ Remembers(op))
     /\ RETURNPC' = IF Remembers(op) THEN offset ELSE RETURNPC
     /\ UNCHANGED <<part, whole, splitPoint, scanVars>>

\* "success split"; RuntimeCC translates the runtime part.
SplitFound ==
  /\ part = "split" /\ offset < Len(whole)
  /\ OpAt(whole, offset) = "PUSH1" /\ existReturn
  /\ splitPoint' = offset
  /\ part' = "runtime"
  /\ Translate(SubSeq(whole, offset + 1, Len(whole)))
  /\ UNCHANGED <<whole, offset, existCodeCopy, existReturn, RETURNPC>>

\* splitCode returns -1 and main gives up.
SplitFails ==
  /\ part = "split" /\ offset = Len(whole)
  /\ part' = "failed"
  /\ UNCHANGED <<splitVars, scanVars>>

\* -runtime-input: nothing is split, and the translation ends with the runtime.
RuntimeInput ==
  /\ part = "split" /\ offset = 0
  /\ part' = "input"
  /\ Translate(whole)
  /\ UNCHANGED splitVars

ScanPart ==
  /\ part \in {"runtime", "deploy", "input"}
  /\ ScanNext
  /\ UNCHANGED <<part, splitVars>>

\* DeployerCC translates the deploy part with RETURNPC and the runtime's wasm.
TranslateDeployer ==
  /\ part = "runtime" /\ ~Scanning
  /\ part' = "deploy"
  /\ Translate(DeployerBytecode)
  /\ UNCHANGED splitVars

SplitInit ==
  /\ whole \in Programs
  /\ part = "split" /\ offset = 0
  /\ existCodeCopy = FALSE /\ existReturn = FALSE
  /\ RETURNPC = 0 /\ splitPoint = 0
  /\ code = << >> /\ curr = 0 /\ begin = 0 /\ isDead = FALSE /\ blocks = << >>

SplitNextState ==
  RuntimeInput \/ SplitStep \/ SplitFound \/ SplitFails \/ ScanPart \/ TranslateDeployer

SplitSpec == SplitInit /\ [][SplitNextState]_deployVars /\ WF_deployVars(SplitNextState)

-----------------------------------------------------------------------------
Split == part \in {"runtime", "deploy"}

\* The blocks whose RETURN compileBasicBlock lowers to a finish that hands the
\* runtime's wasm over (RetPC && firstInstrIdx() + it - begin() == RetPC).  They
\* do so if that wasm is not empty; one that could not be made is in Driver.
EmbeddingAtEnd ==
  {i \in 1..Len(blocks) : RETURNPC # 0 /\ blocks[i].first <= RETURNPC /\ RETURNPC <= blocks[i].end}
Embedding ==
  {i \in 1..Len(blocks) : RETURNPC # 0 /\ blocks[i].first <= RETURNPC /\ RETURNPC < blocks[i].end}

\* splitCode's loop and the two translations stay inside the creation code.
SplitTypeOK ==
  /\ part \in {"split", "runtime", "deploy", "input", "failed"}
  /\ whole \in Programs
  /\ offset \in 0..Len(whole)
  /\ existCodeCopy \in BOOLEAN /\ existReturn \in BOOLEAN
  /\ RETURNPC \in 0..Len(whole) /\ splitPoint \in 0..Len(whole)
  /\ curr \in 0..Len(code) /\ begin \in 0..Len(code)
  /\ isDead \in BOOLEAN /\ blocks \in Seq(Block)

\* Cutting the code in two moves no instruction: read from the split point on,
\* the runtime part has the instructions it has in the whole, and so has the
\* deploy part.
CutOnBoundary ==
  Split =>
    /\ InstrStarts(RuntimerBytecode) =
         {p - splitPoint : p \in {q \in InstrStarts(whole) : q >= splitPoint}}
    /\ InstrStarts(DeployerBytecode) = InstrStarts(whole) \intersect 0..splitPoint

\* Each part's jump table has the targets the whole has there, relative to the
\* part's beginning.
JumpTablesOfWhole ==
  Split /\ ~Scanning =>
    IF part = "runtime"
    THEN JumpTable = {p - splitPoint : p \in {q \in ValidJumpDests(whole) : q >= splitPoint}}
    ELSE JumpTable = {p \in ValidJumpDests(whole) : p < splitPoint}

\* The position splitCode remembers is the last RETURN instruction of the deploy
\* part, and it has a CODECOPY instruction before it.
ReturnPcIsReturn ==
  Split =>
    LET starts == InstrStarts(whole) IN
    /\ RETURNPC \in starts /\ RETURNPC < splitPoint /\ OpAt(whole, RETURNPC) = "RETURN"
    /\ \E p \in starts : p < RETURNPC /\ OpAt(whole, p) = "CODECOPY"
    /\ \A p \in starts : RETURNPC < p /\ p < splitPoint => OpAt(whole, p) # "RETURN"

\* The runtime's wasm is handed over by one block, which ends there, unless the
\* RETURN is unreachable: then the instruction before it does not go on to it.
RuntimeEmbedded ==
  part = "deploy" /\ ~Scanning =>
    /\ Cardinality(Embedding) <= 1
    /\ \A i \in Embedding : blocks[i].end = RETURNPC + 1
    /\ Embedding = {} =>
         \E q \in InstrStarts(code) :
           /\ q < RETURNPC /\ NextPc(code, q) = RETURNPC
           /\ OpAt(code, q) \in NoFallThrough \/ ~InBlock(q)

\* main gives up or has translated both parts, or all of a runtime input.
SplitEnds == <>(part = "failed" \/ (part \in {"deploy", "input"} /\ ~Scanning))

\* Scanning a part, or the whole, into blocks loses no instruction: blocks
\* begin and end at instructions, none has a JUMPDEST inside, and what is left
\* out between them can not be reached; no position leaves the code.
ScanSound == SplitTypeOK /\ OnBoundary /\ JumpdestStartsBlock /\ DroppedIsDead

\* What splitCode returns is right on both counts: where the cut is, and which
\* RETURN of the deploy part hands the runtime over.
CutSound == CutOnBoundary /\ ReturnPcIsReturn
=============================================================================
