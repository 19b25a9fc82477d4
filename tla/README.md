# A verification project for EthSema / EVMBT (evmtrans)

evmtrans translates EVM bytecode to eWASM and runs the result on hera, an
engine that offers contracts the Ethereum Environment Interface (EEI). This
directory holds TLA+ models of its core, TLC configurations that check them on
small instances, and TLAPS proofs of the properties that matter most.

## The system

| Part | State it keeps | Operations | Interacts with |
| --- | --- | --- | --- |
| EEI (`hera/eei.cpp`) | per message call: gas left, result, last return data, metering flag | one method per host function: gas, getters, storage, log, calls, create, self-destruct, finish/revert | the host (account state, nested calls), the engine (exceptions) |
| Message execution (`hera/hera.cpp`) | options, preloaded system contracts, engine | `hera_execute`, `set_option`, system contracts for metering and translation | EEI, engines, host |
| Engines (`hera/wabt.cpp`, `binaryen.cpp`, `wavm.cpp`) | wasm memory, the interface of the running frame | `execute`, `verifyContract` | EEI |
| Bytecode tables (`Instruction.*`) | none | stack effects, push data, next instruction | every scanner of bytecode |
| Block construction (`WASMCompiler::createBasicBlocks`) | list of blocks, dead-code flag | one pass over the code | dry run, lowering |
| Edge discovery (`WASMCompiler::dry_run`) | depth-first work list, visited set, edges | symbolic execution of blocks on constants | lowering |
| Lowering (`compileMain`, `compileBasicBlock`, `resolveJumps`, `GlobalStack`) | breadth-first work list, LLVM registers per block, globals `mstk`, `spPtr`, `target` | block lowering, register hand-over, jump resolution | emitted contract, EEI declarations |
| Deploy/runtime split (`splitCode`) | none | finds the runtime code in deploy code | command line tool |
| Hardening passes (`Optimizer.cpp`) | LLVM module | reentrancy mutex, send check, origin replacement, safe math | emitted contract |
| Command line tool (`standalone-evmtrans.cpp`) | options | translate a file | all of the translator |
| EVMC front end (`BinaryTrans.cpp`) | code map | `execute` | hera |
| Not compiled (`SECore`, `Tainter`, `Cache`, `ExecStats`, `Utils.cpp`) | | | |

A process has no threads. What is hard to get right is re-entrance (a message
call suspends its caller in the middle of a method, any sequence of methods may
run below it, and hera itself re-enters `hera_execute` through the host to
translate and meter code), failure in the middle of a method, gas accounting
across frames, files of fixed names that several translators share, the
agreement of independent walks over the same bytecode (scanner, `ctxDep`, dry
run, lowering, `splitCode`) on where instructions are, the agreement of six
tables on the host functions, and words that cross between LLVM types, byte
orders and uninitialised stack slots.

What makes each part correct:

* EEI: no frame spends gas it was not given; a static frame changes nothing,
  whoever it calls; the depth limit holds; a result code tells the caller what
  the host kept; a failed frame returns no gas.
* Blocks: instruction boundaries are never lost, only dead code is dropped, the
  jump table has exactly the valid targets, and a block that inherits registers
  has one way in.
* Dry run and lowering: the emitted contract refines the EVM, and the
  translation ends.
* Instructions: a word computed or exchanged with the host is the EVM's, or one
  of a short list of causes explains why not; the emitted 256-bit functions are
  exact and end.
* Calls: a contract never takes old return data for that of its last call.
* Memory: no access of the interface leaves the wasm memory or a source buffer.
* Hardening: a contract whose external call is followed by a store is guarded, a
  guarded contract is not re-entered, and the guard is given back.
* Split: both parts keep the instructions of the whole.
* Command line tool: what a run writes was translated from its own input, as far
  as it works in a directory of its own, and a failure leaves the output alone.
* hera and engines: only wasm reaches the engine, a frame uses its own
  interface, and a deployed contract can be loaded again.

## Modules

| Module | Models |
| --- | --- |
| `EEI` | `EthereumInterface` and the end of `hera_execute`. `cur` is the frame whose wasm code runs, `callers` the frames suspended in `eeiCall`/`eeiCreate`, `world` the host's account state, `result` the transaction's `evmc_result`. One action per method; a method is its list of `ensureCondition` checks in source order, then its effect. `EndFrame` is what happens after the wasm code ended or an exception was raised: `hera_execute` builds the result, the host keeps or restores the state, and the rest of `eeiCall`/`eeiCreate` runs in the caller. |
| `EEIProofs` | theorems about `EEI` |
| `Bytecode` | `Instruction.h/.cpp`: stack effects, push data, next instruction. Opcodes come from a constant `Mnemonic`; instructions the translator treats alike have one representative. |
| `Blocks` | `createBasicBlocks`, one action per kind of loop iteration (`SkipDead`, `Scan`), and the jump table |
| `DryRun` | `dry_run` and `dry_run_bb` on top of `Blocks`: `dfs`, `seen`, `edges` |
| `Lifter` | `compileMain` on top of `DryRun` (`queue`, `taken`) and the emitted contract (`at`, `pc`, `locals`, `mstk`, `sp`, `target`, `status`) |
| `EVM` | the abstract specification: the machine the bytecode is written for (external to this repository) |
| `SplitCode` | `splitCode` and the two translations that follow, on top of `Blocks`: `offset`, `existCodeCopy`, `existReturn`, `RETURNPC`, `splitPoint` |
| `BlocksProofs` | theorems about `Blocks` and `SplitCode` |
| `LifterProofs` | theorems about `Lifter`, on top of `BlocksProofs` |
| `MemoryOps` | the memory operations of `eei.cpp`: 32-bit bounds checks, byte-wise and reversed copies, the cut of `eeiCallDataCopy`, debug output |
| `Calls` | CALL, CALLCODE, DELEGATECALL, STATICCALL, CREATE, SHA3 and RETURNDATACOPY as lowered, with `m_lastReturnData` of the host, beside the EVM |
| `HostWords` | the instructions that exchange words with the host: types, byte order, stack slots, `emitEndianConvert`, storage |
| `WordMath` | operators on words of a width: wrapping, sign, the EVM's and LLVM's operations |
| `Words` | arithmetic, comparison, bit and shift instructions on values of three LLVM types, with `UseSafeMathPass` and `LowerEVMPass` |
| `Arith256` | the functions `Arith256.cpp` emits, one action per LLVM block |
| `WordsProofs` | theorems about `Words` and `Arith256` |
| `Selector` | CALLDATALOAD, `calldataCopyPass` and `eeiCallDataCopy` |
| `HostProofs` | theorems about `HostWords`, `Calls` and `Selector` |
| `Hardening` | the reentrancy analysis (`detectBug`), the reentrancy, EOA and send passes, and the contracts they changed, running against foreign code and code on their own storage |
| `HardeningProofs` | theorems about `Hardening` |
| `Hera` | `hera_execute`, `hera_set_option`, the system contracts for metering and translation, the engines' stack of interfaces |
| `EnginesProofs` | theorems about `Hera`, `MemoryOps` and `Linking` |
| `Linking` | the tables of host functions of `EEIModule` and the three engines, `verifyContract`, loading, calls of host functions, for the one engine a build has |
| `Driver` | `main` of the command line tool and `codeGenModule`, several processes in one directory or in several |
| `DriverProofs` | theorems about `Driver` |
| `MC*` | instances for TLC |

Composition: `Lifter` EXTENDS `DryRun` EXTENDS `Blocks` EXTENDS `Bytecode`, so
scanning, dry run, lowering and execution are one behaviour; `Lifter` is then
shown to implement `EVM` through `INSTANCE EVM WITH stack <- StackView`: the
EVM's stack is `mstk` below `spPtr` followed by the registers of the block that
runs. `SplitCode` EXTENDS `Blocks` too and runs it twice, once for each part.
`Words` and `Arith256` share `WordMath`: what `Arith256` shows of the emitted
functions block by block (`ResultsExact`) is what `Words` takes for them
(`UDivOf` and its like), the divisor zero included. `Calls`, `HostWords` and
`Selector` compose the lowering of an instruction with the host method behind
it and step the EVM's instruction at the same time.

### How the models correspond to the code

`EEI`. Memory contents are not modelled: a contract passes ranges that are
inside its memory or not (`mem`, `data`, `src`), so every bounds check can
fail. Gas arguments include negative numbers, which the code receives as signed
64-bit values. A C++ exception is two steps: the method sets `exc`, `EndFrame`
is the handler. Gas taken by a method before it raises is not tracked because
`hera_execute` returns a zeroed result then. The host is external: it snapshots
the state at a call, transfers value for `call` and `create`, restores the
snapshot unless the callee succeeded. `credit` is a ghost variable, the gas a
frame handed out without paying: everything in an unmetered frame, and the
stipend of a delegate call. Balances are assumed to fit in 128 bits, where
`safeLoadUint128` never throws. The sender, the input data and the code of a
frame carry no control and are left out.

`Blocks`, `DryRun`, `Lifter`. A step of the scanner or of a work list is one
iteration of its loop. Blocks are named by their index, 0 is `nullptr`. Values
of the dry run are constants or 0, as in the source. `Lower` keeps of each
register its value and whether LLVM sees a constant, because `resolveJumps`
treats constants differently. `mstk` holds only the words in use: `spPtr` is
raised before a store, so word 0 of the 512 never is. A contract that pops
below `mstk` or pushes past it has undefined behaviour, since the code has no
check; the model stops it with status `"undefined"` and claims nothing further.
`slim` mode, `no_ctx` and `resolve_phi` are dead code (constants in
`compileMain`).

`SplitCode`. `part` is where `main` is: splitting, translating the runtime part,
then the deploy part. The scan of each part is `Blocks` unchanged, so that the
jump tables of the parts can be compared with that of the whole code. That the
runtime code handed to the deploy part may be empty (`WASMCompiler.cpp:2365`) is
in `Driver`.

`MemoryOps`. Offsets and lengths are `uint32_t` with wrap-around sums, except in
`loadMemory`, whose length is a `size_t`. `touched` and `taken` record the
indices the last operation handed to the engine and to its source, which check
nothing themselves.

`Calls`. Return data is the number of the call it came from and its length; a
byte of the output range is the call whose data it holds. An early return of
`eeiCall` or `eeiCreate` leaves `m_lastReturnData` alone.

`HostWords`. An integer is the sequence of its bytes with the width of its LLVM
type; every value carries the word the EVM has in its place. A slot that was
not written has arbitrary contents. A value too narrow for its use (the key of
SLOAD, the gas or the value of a call) is broken IR, which `verifyModule`
refuses: the model ends with `"ill-typed"`. MSTORE8 of a constant asks LLVM to
swap one byte, which it cannot do, and ends with `"i8 swap"`. What a call takes
beside the account is chosen from the values of every type (`Operands`) instead
of from the modelled stack.

`Words`. A value is a number, a type and whether LLVM sees a constant: what PUSH
and CODESIZE push are constants, of types i256 and i32, and an instruction on
constants is computed at once. The `cast<Instruction>` of such a result, of
ADD among others, fails in a build with assertions; the Release build of the
Dockerfile goes on with the constant. The model has both. An ill-typed
instruction and poison end the contract. The safe math pass does not see what
was computed from constants. `UseSafeMathPass::detectBug` has no return where nothing
is found, which the model takes for either result. `Arith256` runs the emitted
blocks on words of `W` bits.

`Selector`. Of main only the conversions of byte order are kept: the pass tells
a load by the name `.reverse`, which LLVM gives to the first conversion emitted
and to no other.

`Hardening`. Of a block only its calls of host functions are kept. First the
depth-first search of `detectBug` runs, then the passes rewrite the graph, then
frames of the contract `"C"`, of foreign code `"E"` and of code on the
contract's storage `"D"` run. Foreign code runs in a call of any kind and in a
creation, and may call back at every point where it has control. `"D"` is what
CALLCODE and DELEGATECALL run: it may also write the contract's storage and its
mutex slot (`library` says which), delegate back, or destroy the contract.

`Hera`. `frames` are the activations of `hera_execute`, `answer` the result on
its way down. Codes are classes (wasm, EVM code, empty, wasm of an unknown
version). A contract may call, return any output or fail; a system contract
transforms its input.

`Linking`. The tables are transcribed entry by entry, grouped by type. A module
is the set of host instructions it was translated from and one oddity. A build
of hera compiles in one engine (`hera.cpp:69`), so `engine` never changes; a
behaviour is that of one build.

`Driver`. One action per step of `main` that touches a file or decides; code is
abstracted to what it was made from, and no code at all is also what a missing
file reads as. Every process has a working directory, which others may share,
and may be interleaved with any other at every step. With `--dump` a process
also writes the IR of each part before it is verified, and the runtime code.
Every file `main` writes may fail to open, the object file too, and the linker
may fail; the code notices none of it and the model goes on as the code does.
`wrote` has what a process has written and under which name.

## Runs

| Run | Shows |
| --- | --- |
| `eei` | All methods with good and bad arguments, two nested calls deep, metered and (for the root frame) unmetered. `GasBudget`: no frame and its callees hold more gas than was paid for. `StaticPure`: a static frame, and whatever runs below it, leaves the world alone. `DepthCounts` at the depth limit. The action properties `ResultCodeTellsOutcome` and `FailureBurnsGas` say what a caller learns when its callee ends. |
| `eei_stipend` (violation) | The comment "Add gas stipend for value transfers" (`eei.cpp:613`) against the code: a delegate call inherits its caller's value and its callee gets the stipend, although nothing is transferred or charged. |
| `split` | Bytecodes translated whole, and creation codes cut in two and then translated part by part. Of every scan: boundaries, dead code and block starts (`ScanSound`), the jump table (`JumpTableExact`), predecessors (`OnePredecessor`). Of the cut: it is on an instruction boundary and `RETURNPC` is the right RETURN (`CutSound`), both jump tables are the whole's (`JumpTablesOfWhole`), the runtime's wasm is handed over by that RETURN or it is unreachable (`RuntimeEmbedded`), and the loop ends (`SplitEnds`). |
| `lifter` | Contracts of 6 to 12 bytes: the emitted contract implements `EVM` (`ImplementsEVM`); `ctxDep` is exact enough that no block runs out of registers, and `mstk` is never left by a running contract (`StackSound`); under fairness neither the translation nor the contract hangs (`NeverHangs`) on programs with loops and traps. |
| `lifter_open` (violation) | The comment `If the last code block, that will be "stop" block.` (`WASMCompiler.cpp:185`): running off the end does not stop, it enters the jump table with a stale `target`. |
| `lifter_swap` (violation) | The comment "SWAP1: a b c d -> a b d c" (`WASMCompiler.cpp:801`): the dry run exchanges the wrong items and misses an edge. |
| `translator` | `Hardening`: contracts of three blocks under four option sets, against foreign code that calls back and code on the contract's storage: the analysis is exact (`DetectExact`), the mutex excludes re-entry (`GuardExcludes`) and is released (`MutexReleased`), no write rests on storage that changed while foreign code ran, with the exceptions listed below (`NoStaleWrite`), the EOA and send checks hold (`ChecksHold`). `Driver`: two translators in one directory or in two, all modes, all input faults, files that do not open, a linker that may fail: alone in its directory a process writes its own translation or nothing, and in a shared one never code that did not verify (`OutputIsOwn`); failure leaves the output alone and leaves behind only the dumps it got to, and a bad input is never reported as translated (`ExitCodeTells`). |
| `driver_passes` (violation) | A pass asked for on the command line does not run, because the options are built before the command line is parsed. |
| `engines` | `Hera`: all modes, with replaced, missing and broken system contracts: what reaches the engine (`EngineInput`), what is deployed (`DeployedMetered`), whose interface is in use (`InterfaceOfRunning`), which code a system contract has and when translation may recurse (`SystemContractsSound`). `Linking`: every pair of host instructions and every odd module, deployed and executed by the engine of each build: what is refused, what verification promises, that arguments reach their methods (`TablesAgree`). `MemoryOps`: every operation, offset and length of a two-bit address space: no access outside (`NoAccessOutside`), bounds checks exact (but for a range that ends at 2^32), what is stored is read back (`CopiesExact`). |
| `words` | `Words`: up to four instructions on operands of three types, with and without safe math: the exact conditions under which a result is the EVM's (`InstructionsAgree`) or not wrapped (`SafeResultsExact`). `Arith256`: every emitted function at the edges of 8-bit words, and the ones without a loop on all pairs: the invariant of the division loop, exact results, reverts exactly on overflow (`FunctionsExact`), termination (`Terminates`). |
| `words_zero` (violation) | The comment "The following algorithm also handles divisor of value 0 returning 0 for both quotient and remainder" (`Arith256.cpp:97`): the loop leaves all ones and the dividend. |
| `host` | `HostWords`: short contracts over every instruction that exchanges a word with the host, and longer ones through storage: words agree with the EVM's, the right account is reached, gas and value are passed as far as their types hold them, a module is refused only for a value left in a narrow type and the translator ends only on a constant in MSTORE8 (`ExchangesAgree`, `StorageAgrees`). `Calls`: up to five calls, creations and hashes with every outcome: the return data agrees with the EVM's unless the call was refused early (`ReturnDataAgrees`); output bytes differ only by stale data, traps have a known cause, gas is forwarded as asked, a hash is never stale (`CallsExplained`). `Selector`: the selector is exact whenever it was sent, and every other difference of a load has one of two causes (`LoadsAgree`). |

Several of these invariants are conjunctions, of a module's type invariant and
of parts that are defined and explained one by one in the module: `ScanSound`,
`CutSound`, `StackSound`, `ChecksHold`, `ExitCodeTells`,
`SystemContractsSound`, `TablesAgree`, `CopiesExact`, `InstructionsAgree`,
`FunctionsExact`, `ExchangesAgree`, `CallsExplained`, `LoadsAgree`.

`translator`, `engines`, `words` and `host` check several modules in one behaviour. The
modules share no variable, and a variable `machine`, chosen in the initial
state, says which of them steps: the others keep a fixed initial state. A
behaviour of the sum is thus a behaviour of one module, and the properties of
each are checked on all of its own states.

The runs set `CHECK_DEADLOCK FALSE`, because a transaction, a contract or a
function ends; only `driver_passes` leaves it on. The processes of `Driver` have
a last step that repeats.

`lifter` passes in spite of what `lifter_swap` shows: an edge that is missed or
invented leads to a block that begins with `JUMPDEST`, and those take nothing
over in registers. `lifter` leaves out programs that run off their end,
which is where `lifter_open` finds the difference.

### Disagreements that are conditions of passing properties

Some invariants hold only with an exception that names the code's behaviour:

* A message that ends with `selfDestruct` keeps the mutex
  (`Optimizer.cpp:441`, against the outline at 416): `MutexReleased` exempts
  a contract that destroyed itself.
* CREATE, CREATE2, DELEGATECALL and CALLCODE are no external calls to
  `detectBug` (`Optimizer.cpp:341`), so a contract with a store after one stays
  unguarded: an exception of `NoStaleWrite`. Code that a guarded contract
  delegates to shares its storage: if it writes there, `NoStaleWrite` is exempt,
  and if it writes the mutex slot, so are `GuardExcludes` and `MutexReleased`.
* The EOA check compares caller and origin, and a delegate call keeps the
  caller: the code a contract delegates to may delegate back and pass
  (`OnlyAccountsEnter`).
* `contract_preload_list[...]` inserts an empty replacement where none was
  supplied (`hera.cpp:325`): the exception of `ReplacedOnlyIfSupplied`.
* `metering=false` is accepted and has no effect (`hera.cpp:505`): `Hera`
  sets `metering' = (metering \/ value)`.
* binaryen verifies and loads `create2` and fails an assertion when it is called
  (`binaryen.cpp:470`): `OnlyCreate2Unanswered`.
* `createUDivRemFunc` returns ones and the dividend for the divisor zero.
  `ResultsExact` states it, because `Words` goes on from it; that it is not what
  the comment says is the run `words_zero`.
* The comment at `Optimizer.cpp:1490` shows the replacement of a quotient by
  2^224; the code replaces every masked quotient: `DifferenceExplained`.
* Two translators in one directory share the object file and the linked module,
  and a file that does not open or a link that fails is not noticed
  (`CodeGen.cpp:136`, 204, 208), the exit code being 0: in a shared directory the
  output may be another's code, in one's own it may be empty, or the runtime
  code in place of the deploy code. `OutputIsOwn` and `FaultsReported` say so.
* MSTORE8 of a constant ends the translator (`EEIModule.cpp:90`), and
  CALLVALUE, BALANCE or a size as an account, a key, gas or a value makes a module
  that is refused: `RefusedOnlyNarrow`.

### Bounds and why they are enough

* `EEI`: two accounts, one storage key, words 0..1, a small gas schedule with
  the source's inequalities (creation dearer than change, transfer surcharge no
  less than the stipend), depth limit 2, so that every check of every method
  both passes and fails and every kind of frame calls every kind. `MaxCredit`
  caps the ghost. `FramesBound` cuts two combinations: credit together with the
  deepest nesting, and a callee below an unmetered frame. The theorems hold
  without these bounds and cover what is cut.
* `Blocks` and `SplitCode`: all codes of up to four bytes, which hold a jump,
  truncated push data, dead code or a `JUMPDEST` byte in push data and a
  following block; and up to six bytes the ones with a CODECOPY, a RETURN and a
  PUSH1, with data bytes that look like them in between, and a runtime part with
  a block of its own.
* `Lifter`: the programs have a conditional jump over a fall-through block,
  forward and backward targets, constant and computed ones, loops that grow the
  stack, dead code and traps. `MstkWords = 3` lets contracts overflow; words are
  modulo 16; the environment returns 0 or the one valid target.
  `StackLimit = 8` is above what one block of these programs can push: a block
  that pushes more items than `mstk` and the EVM allow is outside the checked
  instances (the EVM would fail, the contract is undefined).
* `MemoryOps`: four addresses are enough for every sum to wrap; the memory may
  be the whole address space, where the checks differ from exact ones.
* `Arith256`: 8-bit words have halves and quarters, as the multiplication needs.
* `Words`: 8, 5 and 3 bits for i256, i128 and i32; bytes of two bits, so that
  BYTE and SIGNEXTEND have indices inside and past the word. Four instructions
  make a narrow value, combine it and use the result. The size of the code is 5,
  the sign bit of an i32 among its bits.
* `HostWords`: words of five bytes, accounts of four, i128, i64 and i32 of three,
  two and one, bytes of one bit, so that every extension, cut and reversal shows.
  Two accounts are told apart by any misplaced byte. Contracts have four instructions, or six if they go through
  storage (`LongOnlyWithStorage`): value, key, store, key again, load, use. The
  value below the top, which only SSTORE takes, is of four sources once three
  instructions are done.
* `Calls`: data up to two bytes longer and shorter than the range asked for; gas
  operands around both sign bits of the 64-bit operand.
* `Selector`: call data of every length from none to more than a word at every
  offset, selectors of two of four bytes, two conversions.
* `Hardening`: three blocks with loops and early ends, frames nested four deep:
  the contract, foreign code, the contract again and foreign code again. Two
  writes tell whether storage changed. Code on the contract's storage writes
  nothing, the mutex, the rest, or both.
* `Hera`: one ordinary and three system accounts, two ordinary activations; the
  native stack holds five, which only a translator that needs translation
  exceeds.
* `Linking`: pairs of instructions (a contract's imports are a union, and
  verification treats each on its own), one oddity per module.
* `Driver`: two processes, in one directory or in two; a file has at most two
  writers at any time.

### Fairness

`FairSpec` of `Lifter`, `SplitSpec`, and `ArithSpec` (`MCSpec` of `MCWords` for
the machine that runs a function) have weak fairness of their whole next-state
relation: translator and contract are one sequential program that never waits
for anybody, so it takes a step whenever it can. Nothing stronger is assumed.

## Proofs

The theorems hold for every value of the constants that the named assumptions
allow: any bytecode, any number of accounts, frames, processes or calls, any
width of a word. Each safety theorem `Spec => []P` is shown by an inductive
invariant with three facts (it holds initially, every action keeps it, it
implies `P`), and there is one lemma per action. Every invariant used was first
checked by TLC on the instances of the runs. Together the theorems state every
invariant of the passing runs and four of the seven action and temporal
properties. The other three are liveness properties; of each the theorems state the safety half,
a measure that falls with every step. The end of this section says what is left.

Three techniques recur. *Induction* is on a set of naturals, which needs no
operator as a parameter: a set that has zero and successors has all naturals
(`Induct`), since what it lacks would have a least member. *2^n* is the number
of subsets of n things, from which it follows that it doubles, grows and adds
exponents. *Recursive functions* (the loops of `ctxDep` and
`compileBasicBlock`, the power) satisfy their equation only if a function with
it exists, which the lemmas show first.

### `EEIProofs`

Assumptions `GasScheduleAssumption`, `ConstantsAssumption`, `WorldsAssumption`;
accounts, keys, frames and the gas schedule are arbitrary.

* `TypeCorrect`: `Spec => []TypeOK`.
* `GasConservation`: `Spec => []GasBudget`.
* `StaticMode`: `Spec => []StaticPure`.
* `DepthLimit`: `Spec => []DepthCounts`.
* `ResultCodeCorrect`: `Spec => ResultCodeTellsOutcome` (an action property).
* `FailureBurns`: `Spec => FailureBurnsGas` (an action property).

Every step has one of three shapes. In a *local* step the frame keeps its
identity, its gas does not grow, and a static frame leaves the world alone. In
an *enter* step a caller gives up at least what its callee starts with, up to
new credit, and a static caller starts a static callee in an unchanged world.
A *resume* step pops a frame and adds no more gas than the callee had. The
lemma `NextShape` shows this action by action; each invariant is then inductive
together with `TypeOK` and only the three shapes are considered. The inequality
valuetransfer >= stipend is what pays for the stipend of a value transfer. The
action properties look at the one step that resumes a caller.

### `BlocksProofs`

Assumptions `BytecodeAssumption`, `ProgramsAssumption`: any nonempty bytecode
over any opcode table.

* `ScanInvariant`: `ScanSpec => []ScanInv`.
* `JumpTableCorrect`: `ScanSpec => []JumpTableExact`.
* `BlockEntries`: `ScanSpec => []OnePredecessor /\ []JumpdestStartsBlock`.
* `DroppedCorrect`: `ScanSpec => []DroppedIsDead`.
* `CutIsOnBoundary`, `ReturnPcCorrect`, and from them `CutCorrect`:
  `SplitSpec => []CutSound`.
* `ScanCorrect`: `SplitSpec => []ScanSound`, and `PartTables`:
  `SplitSpec => []JumpTableExact /\ []OnePredecessor`.
* `TablesOfWhole`: `SplitSpec => []JumpTablesOfWhole`.
* `EmbeddingCorrect`: `SplitSpec => []RuntimeEmbedded`.
* `TranslationEnds`: under `SplitSpec` every step lowers `RoundsLeft`, a number
  of at most twice the length of the code and two.

*Blocks.* `JumpTableExact` says something only after the loop, so it is not
inductive. `ScanInv` adds what holds during it: the positions in hand are
instruction boundaries, blocks are ordered and end before `curr`, every `JUMPDEST` already
read starts a block or the open one, an instruction that may leave a block ends
it, the first block begins the code, the open block began at a `JUMPDEST` or
after a `JUMPI`. Instruction boundaries are the least set closed under "next
instruction"; the lemmas `StartsClosed` and `NoGap` get what is needed of it
without induction over the code.

*Split.* The loop's position is a boundary of the whole code, and `RETURNPC` is
the last RETURN before it (`SplitInv`); the part being translated satisfies
`ScanInv` (`PartsInv`). That the two parts have the boundaries of the whole is
shown by two lemmas, one for each part: the set of boundaries of one, shifted,
is closed under "next instruction" in the other.

*End.* The scan of the two parts reads the code once, and so does the loop of
`splitCode` before it: `RoundsLeft` counts the bytes of both. That every round
goes on in the code, whatever push data is cut off, is `NextPcBound`.

### `LifterProofs`

Further assumption `MachineAssumption`: a word size of at least one, any `mstk`
and any stack limit.

* `StackCorrect`: `Spec => []StackSound`.
* `Refinement`: `Spec /\ []InBounds => ImplementsEVM`.
* `TerminatedRefinement`:
  `Spec /\ Terminated(code) /\ [](Len(StackView) <= StackLimit) => ImplementsEVM`.
* `CompilerEnds`: under `Spec` every step of the compiler lowers the numbers
  `ScanLeft`, `DryLeft`, `LowerLeft`, compared in this order.
* `NeverIdles`: under `Spec /\ []InBounds` every step is an instruction of the
  EVM, or a step of the compiler, or lowers `IdleLeft`, which is at most 3.

*Sizes.* `StackSound` says that a block never pads its registers and a running
contract never leaves `mstk`. That depends on three walks over a block agreeing:
`ctxDep`, which foresees what the block needs, the size the compiler counts, and
the execution. `LifterInv` ties them together at every instruction (`Within`):
there is an accumulator of `ctxDep`'s loop such that the rest of the loop
from here ends in the block's result, the registers in hand are what
was loaded minus what was needed so far plus what the accumulator has, and the
rest of the compiler's count ends in `LocalsOut`. Between blocks (`AtBoundary`)
the registers of a block that falls through are as many as the compiler
counted. For the hand-over the invariant also describes what the translator
did: an edge of the dry run leads nowhere, to a `JUMPDEST` or to the next block
(`Edge`), the work list holds edges (`Pending`), and a block was given registers
only if it is entered by falling through from a block that leaves that many
(`Handed`). So the wrong edges of `lifter_swap` do no harm, for any program.

*Values.* `Refinement` says that the emitted contract takes the EVM's steps on
`StackView`, the words of `mstk` below `sp` with the registers on top. Its
hypothesis `InBounds` is what the translator does not look after: the contract
does not run off the end of its code (`lifter_open` shows what happens then),
and the stack stays within the EVM's limit, which the emitted code never
compares with anything. `InBounds` holds in every state of the programs of the
run `lifter`. `TerminatedRefinement` replaces its first half by a check of the
code: if the last instruction does not fall through, the contract never runs off
(`NeverRunsOff`). Bytecode that ends in data has another last instruction and
needs the general form.

`RefInv` adds two facts to `LifterInv`. The registers a block left are also in
`mstk` (`Stored`): a block may take some from there and some from registers and
gets the same stack. A block runs past no instruction that ends it (`Passed`):
what falls out at its end really falls through. Entering a block, spilling and
falling out then leave `StackView` as it is (`EnterView`, `SpillView`); each case
of `compileBasicBlock` is the EVM's instruction on it (`LowerView`); a jump finds
a case in the table exactly where the EVM accepts the target (`MachineDests`,
from `JumpTableExact`); and a block that falls through is followed by the block
that begins where it ends (`Adjacent`, from `DroppedIsDead`). The EVM does not
fail where the contract goes on, because `ctxDep` loaded what the instruction
takes (from `LifterInv`).

*End.* `dry_run` follows the loops of the contract; it ends because a block is
expanded once (`seen`) and adds at most two entries to its work list, and the
lowering because a block is lowered once (`taken`) and adds at most as many
entries as there are edges. The contract itself need not end, but it can not
loop where the EVM stands still: it leaves a block at its end, enters the next
one, and there is at an instruction, since no block is empty; at worst it has
then left `mstk` and does nothing more.

### `EnginesProofs`

About `Hera` (`StackAssumption`, `CodesAssumption`, `UsersAssumption`,
`WorldsAssumption`: any accounts, codes and depth of calls), `MemoryOps`
(`MemoryAssumption`: any sizes up to the address space) and `Linking`
(`ShapesAssumption`, `MaxUsesAssumption`: contracts with any number of
instructions).

* `SystemCalls`: `HeraSpec => []SystemContractsSound`.
* `EngineCorrect`: `HeraSpec => []EngineInput`.
* `InterfaceCorrect`: `HeraSpec => []InterfaceOfRunning`.
* `DeployCorrect`: `HeraSpec => DeployedMetered` (an action property).
* `MemorySafe`, `MemoryTyped`, `ChecksExact`: `[]NoAccessOutside`, `[]TypeOK`,
  `[]StoreExact /\ []CallDataCopyExact`.
* `MovesExact`: `Spec => []CopiesExact`.
* `TablesCorrect`: `LinkSpec => []TablesAgree`.

What an activation of `hera_execute` has checked is only known from where it
stands, and what an answer may be only from who asked. The invariant says the
first of each activation (`FrameInv`), the second of each pair of neighbours
(`Waits`) and of the answer (`AnswerInv`); the interfaces are those of the
activations inside an engine, in order (`Tracks`). In `MemoryOps` a passed
32-bit check means the exact sum fits (`Within32` rules the wrap out); each
operation is then one lemma that its indices lie inside, and `HoldsInv` adds
that memory still has what was stored last.

The tables of `Linking` are finite, but a contract may import any part of them.
Each table is merged from a few tables (`++`, of which the module has its own
because the prover does not know TLC's) whose entries have one type; so an entry
is looked up in one of them, and one lemma per engine says which imports of the
translator it provides with the type they are declared with. `LinkInv` adds to
`TablesAgree` why a contract is where it is: verified and loaded means that the
conditions of the engine held, which depend on the contract alone, and a call is
of something it imports.

### `HostProofs`

About `HostWords` (`ByteAssumption`, `WidthAssumption`, `DataAssumption`,
`MaxStepsAssumption`), `Calls` (`LenAssumption`, `GasAssumption`,
`MaxCallsAssumption`) and `Selector` (`SelectorAssumption`,
`ProgramsAssumption`).

* `ConvertTurns`: the shifts, masks and ors of `initBswapI256` and
  `emitEndianConvert` reverse the bytes of a value of every width up to a word.
* `ExchangesCorrect`, `StorageCorrect`: `Spec => []ExchangesAgree`,
  `Spec => []StorageAgrees`.
* `ReturnDataCorrect`, `CallsCorrect`: `CallsSpec => []ReturnDataAgrees`,
  `CallsSpec => []CallsExplained`.
* `LoadsCorrect`: `SelectorSpec => []LoadsAgree`.

The properties of `HostWords` speak of the last exchange; the invariant
`WordsInv` speaks of every value on the stack, in memory and in storage: how it
relates to the EVM's word follows from the source it is marked with. That of
`Selector` remembers which of its two reasons the pass had for each load it
changed, and of what the loaded word was made.

### `DriverProofs`

Assumptions `DriverAssumption`, `NamesAssumption` (the fixed names and the
outputs are different files); any number of processes and directories.

* `ExitCodeCorrect`: `DriverSpec => []ExitCodeTells`.
* `OutputCorrect`: `DriverSpec => []OutputIsOwn`.

The invariant says of each process what `main` has decided by the time it is at
a label (`Control`, `Faults`), that before the end it wrote at most what `--dump`
asks for (`Dumped`), that all code in its memory and its output is verified code
of its directory (`Known`), and, if nobody shares the directory, that the object
file, the linked file and the code are its own (`Lone`). A step writes at most
one file, and one lemma says which content under which name (`FilesStep`).

### `HardeningProofs`

Assumption `HardeningAssumption`; contracts of any finite number of blocks,
frames nested as deep as the host allows.

* `DetectCorrect`: `Spec => []DetectExact`.
* `GuardCorrect`: `Spec => []GuardExcludes`.
* `MutexCorrect`: `Spec => []MutexReleased`.
* `NoStale`: `Spec => []NoStaleWrite`.
* `ChecksCorrect`: `Spec => []ChecksHold`.

For the search, what can be reached from a call is searched, listed, or behind
what is listed (`SearchInv`); an empty list then means everything is searched.
For the mutex it is not enough that it agrees with the frames now: a frame that
fails gives the storage back as it was, so `MutexInv` says that the snapshot of
every frame agrees with the frames below it (`Agrees`), as long as nobody else
writes the slot (`Safe`). `NoStale` has a second case, a contract that stays
unguarded and has no calls the analysis does not see: there a frame can only
store where it has not called yet, or has seen the present storage (`QuietInv`).

### `WordsProofs`

About `Words` (`WordAssumption`, `WidthAssumption`, `StepsAssumption`) and
`Arith256` (`OperandsAssumption`, `HalvesAssumption`: the width is a multiple of
eight, as 256 is).

* `InstructionsCorrect`: `Spec => []InstructionsAgree`.
* `FunctionsCorrect`: `ArithSpec => []FunctionsExact`. For the divisor zero this
  says what the loop leaves, which is neither the EVM's result nor the comment's.
* `FunctionsEnd`: under `ArithSpec` every block lowers the number `StepsLeft`.
* `SafeMath`: `Spec => []SafeResultsExact`.
* `NarrowTypes`: `Spec => []NarrowHistory`.

`ArithInv` has an assertion for each LLVM block: the loops that count leading
zeros halve, the shifted divisor is the divisor times a power of two, quotient
times divisor plus remainder is the dividend with the remainder below the
shifted divisor (`Subtracted`), and the power multiplies what it has by what is
left. The product by halves and the reverts of the checked operations are
lemmas on integers. The blocks come in phases, and each loop counts down
(`tmp`, `i`, `e`), so that a function ends whatever it is given, zero too.

`InstructionsAgree` speaks of the last instruction, whose operands a history of
others has made. `WordsInv` says of every value on the stack that it fits its
type, and that a narrow value is made of values of its
type. Each instruction is then a lemma about two values of given types: what the
code computes in the type it chooses, and what the EVM computes in a word, are
both a sum, product or quotient modulo a power of two, and the smaller power
divides the larger. Bits are handled as sums: and, or and xor of two values are
sums over their bits, in which the bits above the narrower type are zero; a mask
of low bits is a remainder and one of high bits what that leaves (SIGNEXTEND);
BYTE is a quotient and a remainder by powers of 256, a shift a product or a
quotient by a power of two.

### Only model-checked

Liveness under fairness, which needs ENABLED: `NeverHangs`, `SplitEnds` and
`Terminates`. What the prover can say of them is proved: nothing goes on for
ever (`NeverIdles` with `CompilerEnds`, `TranslationEnds`,
`FunctionsEnd`). That a program which is not at its end has a next step, so that
fairness makes it take one, is what TLC adds.

## Where the project ends

Every part the table above has a module for has its runs, and every invariant of
a run its theorem. A next step would be to model more of what the following list
leaves out; proving more of the liveness properties needs a prover for ENABLED.

## Not modelled

* `BinaryTrans.cpp`: `BTImpl::compile` is a stub that returns `nullptr`, so
  every `execute` ends in `EVMC_INTERNAL_ERROR` after bumping a hit counter.
* Of `Optimizer.cpp`: `EstimateOriginPass` and `ProxyWrapperPass` recognise
  code by counting instructions in LLVM's list and by layouts of stack memory
  that only LLVM determines; `KleePass` prepares a run of another tool;
  `DetectSuicidePass` and the z3 experiments change nothing; `CodecopyPass` is
  never added. LLVM's own passes are external.
* `NEARModule.cpp`: declarations that nothing calls. Of `EEIModule.cpp` the
  emitted `memcpy`; its declarations are in `Linking`, its byte swap in
  `HostWords`, its hash contract in `Calls`.
* Of `CodeGen.cpp` the set-up of LLVM's target; of `hera/helpers.cpp` file and
  hex conversions. Logging everywhere.
* The interpreters behind the three engines (third-party code).
* CODECOPY: `Lifter` has what it does to the stack; the `memcpy` from the code
  embedded in the module (`WASMCompiler.cpp:2126`), and a range past the end of
  the code, are not modelled.
  CALLDATACOPY, EXTCODECOPY and LOG are modelled on the host's side
  (`MemoryOps`, `EEI`); their lowering only passes the operands on.
* `SECore`, `Tainter`, `Cache`, `ExecStats`, `Utils.cpp`: in no build target.
* `tests/`, `evmc/`, `benchmarks/`: copies, vendored code and data.
