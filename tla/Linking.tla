------------------------------ MODULE Linking ------------------------------
(***************************************************************************)
(* The host functions on the three sides that have to agree on them:       *)
(* EEIModule.cpp declares what translated contracts import, each engine    *)
(* (wabt.cpp, wavm.cpp, binaryen.cpp) binds names and types once to run a  *)
(* contract and once to verify it, and eei.h declares the methods behind.  *)
(* A build of hera contains exactly one of the engines.                    *)
(* A contract is deployed (verifyContract) and then executed; what it      *)
(* imports follows from the instructions it was translated from.           *)
(* A table maps an import to its type.  The tables follow the sources      *)
(* entry by entry, grouped by type.                                        *)
(***************************************************************************)
EXTENDS Naturals, Sequences

CONSTANTS
  MaxUses,   \* bound on the host instructions of a contract
  Shapes     \* what may be odd about a module: "sound" and some of Faults

(***************************************************************************)
(* What a module other than the translator's may have wrong: a start       *)
(* function, no exported main or memory, a main that is not a function or  *)
(* takes parameters, a further export, a second memory, an import from a   *)
(* module other than "ethereum".                                           *)
(***************************************************************************)
Faults == {"start", "noMain", "noMemory", "mainNotFunc", "mainParams", "extraExport",
           "twoMemories", "foreignImport"}

ASSUME ShapesAssumption == Shapes \subseteq (Faults \union {"sound"})
ASSUME MaxUsesAssumption == MaxUses \in Nat \ {0}

(***************************************************************************)
(* Types and tables.  A pointer of the translator is an i32 in wasm.  The  *)
(* first of two tables that are merged goes before the second.             *)
(***************************************************************************)
Sig(params, result) == [params |-> params, result |-> result]
Of(names, params, result) == [n \in names |-> Sig(params, result)]
Merged(pair) == [n \in DOMAIN pair[1] \union DOMAIN pair[2] |->
                   IF n \in DOMAIN pair[1] THEN pair[1][n] ELSE pair[2][n]]
f ++ g == Merged(<<f, g>>)
Lowered(sig) == [sig EXCEPT !.params =
                   [i \in DOMAIN sig.params |->
                      IF sig.params[i] = "ptr" THEN "i32" ELSE sig.params[i]]]

I32s(n) == [i \in 1..n |-> "i32"]
CallParams(n) == <<"i64">> \o I32s(n)

(***************************************************************************)
(* EEIModule::initEEIDeclaration.                                          *)
(***************************************************************************)
DeclaredCalls ==
  Of({"callDataCopy"}, <<"ptr", "i32", "i32">>, "none")
  ++ Of({"call", "callCode"}, <<"i64", "ptr", "ptr", "ptr", "i32">>, "i32")
  ++ Of({"callStatic", "callDelegate"}, <<"i64", "ptr", "ptr", "i32">>, "i32")
  ++ Of({"create"}, <<"ptr", "ptr", "i32", "ptr">>, "i32")
  ++ Of({"create2"}, <<"ptr", "ptr", "i32", "ptr", "ptr">>, "i32")
  ++ Of({"finish"}, <<"ptr", "i32">>, "none")
  ++ Of({"getCallDataSize"}, <<>>, "i32")
  ++ Of({"getCallValue", "getCaller"}, <<"ptr">>, "none")
  ++ Of({"codeCopy"}, <<"ptr", "i32", "i32">>, "none")

DeclaredData ==
  Of({"externalCodeCopy"}, <<"ptr", "ptr", "i32", "i32">>, "none")
  ++ Of({"getGasLeft"}, <<>>, "i64")
  ++ Of({"log"}, <<"ptr", "i32", "i32", "ptr", "ptr", "ptr", "ptr">>, "none")
  ++ Of({"returnDataSize"}, <<>>, "i32")
  ++ Of({"returnDataCopy"}, <<"ptr", "i32", "i32">>, "none")
  ++ Of({"revert"}, <<"ptr", "i32">>, "none")
  ++ Of({"selfDestruct", "getTxGasPrice", "getTxOrigin", "getBlockCoinbase",
         "getBlockDifficulty"}, <<"ptr">>, "none")
  ++ Of({"storageLoad", "storageStore"}, <<"ptr", "ptr">>, "none")

DeclaredBlock ==
  Of({"getBlockGasLimit", "getBlockNumber", "getBlockTimestamp", "getBasefee",
      "getChainID"}, <<>>, "i64")
  ++ Of({"getBlockHash"}, <<"i64", "ptr">>, "i32")
  ++ Of({"getExternalBalance", "getExternalCodeHash"}, <<"ptr", "ptr">>, "none")
  ++ Of({"getAddress", "getSelfBalance"}, <<"ptr">>, "none")
  ++ Of({"getCodeSize", "getReturnDataSize"}, <<>>, "i32")
  ++ Of({"getExternalCodeSize"}, <<"ptr">>, "i32")

Declared == DeclaredCalls ++ DeclaredData ++ DeclaredBlock

(***************************************************************************)
(* What the lowering of an instruction imports, and what every contract    *)
(* imports for its exit and abort blocks.                                  *)
(***************************************************************************)
Always == {"finish", "revert"}

ImportsOfStorage == [SLOAD |-> {"storageLoad"}, SSTORE |-> {"storageStore"}]

ImportsOfMessage ==
  [GAS |-> {"getGasLeft"}, ADDRESS |-> {"getAddress"}, CALLER |-> {"getCaller"},
   ORIGIN |-> {"getTxOrigin"}, COINBASE |-> {"getBlockCoinbase"},
   GASPRICE |-> {"getTxGasPrice"}, DIFFICULTY |-> {"getBlockDifficulty"}]

ImportsOfBlock ==
  [GASLIMIT |-> {"getBlockGasLimit"}, CHAINID |-> {"getChainID"},
   SELFBALANCE |-> {"getSelfBalance"}, BASEFEE |-> {"getBasefee"},
   NUMBER |-> {"getBlockNumber"}, TIMESTAMP |-> {"getBlockTimestamp"},
   CALLVALUE |-> {"getCallValue"}]

\* The code and its size are constants of the translated module.
ImportsOfSizes ==
  [CODESIZE |-> {}, CALLDATASIZE |-> {"getCallDataSize"},
   RETURNDATASIZE |-> {"getReturnDataSize"}, BLOCKHASH |-> {"getBlockHash"},
   BALANCE |-> {"getExternalBalance"}, EXTCODESIZE |-> {"getExternalCodeSize"},
   EXTCODEHASH |-> {"getExternalCodeHash"}]

ImportsOfCopies ==
  [CALLDATACOPY |-> {"callDataCopy"}, RETURNDATACOPY |-> {"returnDataCopy"},
   CODECOPY |-> {}, EXTCODECOPY |-> {"externalCodeCopy"}, CALLDATALOAD |-> {"callDataCopy"}]

ImportsOfCalls ==
  [CREATE |-> {"create"}, CREATE2 |-> {"create2"},
   CALL |-> {"call", "returnDataCopy"}, CALLCODE |-> {"callCode", "returnDataCopy"},
   DELEGATECALL |-> {"callDelegate", "returnDataCopy"},
   STATICCALL |-> {"callStatic", "returnDataCopy"}]

\* SHA3 calls the precompiled contract 9.
ImportsOfSha3 == [SHA3 |-> {"getGasLeft", "callStatic", "returnDataCopy"}]

ImportsOfEnds ==
  [RETURN |-> {"finish"}, REVERT |-> {"revert"}, SUICIDE |-> {"selfDestruct"},
   LOG |-> {"log"}]

ImportsOf == ImportsOfStorage ++ ImportsOfMessage ++ ImportsOfBlock ++ ImportsOfSizes
             ++ ImportsOfCopies ++ ImportsOfCalls ++ ImportsOfSha3 ++ ImportsOfEnds
Instructions == DOMAIN ImportsOf
Imports(uses) == Always \union UNION {ImportsOf[i] : i \in uses}

(***************************************************************************)
(* WabtEngine::execute, WabtEngine::verifyContract.                        *)
(***************************************************************************)
WabtCalls ==
  Of({"useGas"}, <<"i64">>, "none")
  ++ Of({"getAddress"}, I32s(1), "none")
  ++ Of({"getExternalBalance"}, I32s(2), "none")
  ++ Of({"getBlockHash"}, CallParams(1), "i32")
  ++ Of({"call", "callCode"}, CallParams(4), "i32")
  ++ Of({"callDataCopy"}, I32s(3), "none")
  ++ Of({"getCallDataSize"}, <<>>, "i32")
  ++ Of({"callDelegate"}, CallParams(3), "i32")

WabtData ==
  Of({"callStatic"}, CallParams(3), "i32")
  ++ Of({"storageStore", "storageLoad"}, I32s(2), "none")
  ++ Of({"getCaller", "getCallValue", "getBlockCoinbase"}, I32s(1), "none")
  ++ Of({"codeCopy"}, I32s(3), "none")
  ++ Of({"getCodeSize"}, <<>>, "i32")
  ++ Of({"create"}, I32s(4), "i32")

WabtBlock ==
  Of({"create2"}, I32s(5), "i32")
  ++ Of({"getBlockDifficulty", "getTxGasPrice"}, I32s(1), "none")
  ++ Of({"externalCodeCopy"}, I32s(4), "none")
  ++ Of({"getExternalCodeSize"}, I32s(1), "i32")
  ++ Of({"getGasLeft", "getBlockGasLimit", "getBlockNumber"}, <<>>, "i64")
  ++ Of({"log"}, I32s(7), "none")

WabtEnd ==
  Of({"getTxOrigin", "selfDestruct"}, I32s(1), "none")
  ++ Of({"finish", "revert"}, I32s(2), "none")
  ++ Of({"getReturnDataSize"}, <<>>, "i32")
  ++ Of({"returnDataCopy"}, I32s(3), "none")
  ++ Of({"getBlockTimestamp"}, <<>>, "i64")

WabtExecute == WabtCalls ++ WabtData ++ WabtBlock ++ WabtEnd

WabtVerifyCalls ==
  Of({"useGas"}, <<"i64">>, "none")
  ++ Of({"getAddress"}, I32s(1), "none")
  ++ Of({"getExternalBalance", "storageStore"}, I32s(2), "none")
  ++ Of({"getBlockHash"}, CallParams(1), "i32")
  ++ Of({"call", "callCode"}, CallParams(4), "i32")
  ++ Of({"callDataCopy"}, I32s(3), "none")
  ++ Of({"getCallDataSize"}, <<>>, "i32")
  ++ Of({"callDelegate", "callStatic"}, CallParams(3), "i32")

WabtVerifyData ==
  Of({"storageLoad"}, I32s(2), "none")
  ++ Of({"getCaller", "getCallValue", "getBlockCoinbase", "getBlockDifficulty"},
        I32s(1), "none")
  ++ Of({"codeCopy"}, I32s(3), "none")
  ++ Of({"getCodeSize"}, <<>>, "i32")
  ++ Of({"create"}, I32s(4), "i32")
  ++ Of({"externalCodeCopy"}, I32s(4), "none")
  ++ Of({"getExternalCodeSize"}, I32s(1), "i32")

WabtVerifyBlock ==
  Of({"getGasLeft", "getBlockGasLimit", "getBlockNumber", "getBlockTimestamp"}, <<>>, "i64")
  ++ Of({"getTxGasPrice", "getTxOrigin", "selfDestruct"}, I32s(1), "none")
  ++ Of({"log"}, I32s(7), "none")
  ++ Of({"finish", "revert"}, I32s(2), "none")
  ++ Of({"getReturnDataSize"}, <<>>, "i32")
  ++ Of({"returnDataCopy"}, I32s(3), "none")

WabtVerify == WabtVerifyCalls ++ WabtVerifyData ++ WabtVerifyBlock

(***************************************************************************)
(* The intrinsics of wavm.cpp and the types its verifyContract expects.    *)
(***************************************************************************)
WavmData ==
  Of({"useGas"}, <<"i64">>, "none")
  ++ Of({"getGasLeft", "getBlockGasLimit", "getBlockNumber", "getBlockTimestamp"}, <<>>, "i64")
  ++ Of({"getAddress", "getCaller", "getCallValue", "getBlockCoinbase",
         "getBlockDifficulty", "getTxGasPrice", "getTxOrigin"}, I32s(1), "none")
  ++ Of({"getExternalBalance"}, I32s(2), "none")
  ++ Of({"getBlockHash"}, CallParams(1), "i32")
  ++ Of({"getCallDataSize", "getCodeSize"}, <<>>, "i32")
  ++ Of({"callDataCopy", "codeCopy"}, I32s(3), "none")
  ++ Of({"getExternalCodeSize"}, I32s(1), "i32")
  ++ Of({"externalCodeCopy"}, I32s(4), "none")
  ++ Of({"log"}, I32s(7), "none")

WavmCalls ==
  Of({"storageStore", "storageLoad", "finish", "revert"}, I32s(2), "none")
  ++ Of({"getReturnDataSize"}, <<>>, "i32")
  ++ Of({"returnDataCopy"}, I32s(3), "none")
  ++ Of({"call", "callCode"}, CallParams(4), "i32")
  ++ Of({"callDelegate", "callStatic"}, CallParams(3), "i32")
  ++ Of({"create"}, I32s(4), "i32")
  ++ Of({"selfDestruct"}, I32s(1), "none")

WavmExecute == WavmData ++ WavmCalls

WavmVerify ==
  Of({"useGas"}, <<"i64">>, "none")
  ++ Of({"getGasLeft", "getBlockGasLimit", "getBlockNumber", "getBlockTimestamp"}, <<>>, "i64")
  ++ Of({"getAddress", "getCaller", "getCallValue", "getBlockCoinbase", "getTxOrigin",
         "getBlockDifficulty", "getTxGasPrice", "selfDestruct"}, I32s(1), "none")
  ++ Of({"getExternalBalance", "storageStore", "storageLoad", "finish", "revert"},
        I32s(2), "none")
  ++ Of({"getBlockHash"}, CallParams(1), "i32")
  ++ Of({"getCallDataSize", "getCodeSize", "getReturnDataSize"}, <<>>, "i32")
  ++ Of({"callDataCopy", "codeCopy", "returnDataCopy"}, I32s(3), "none")
  ++ Of({"getExternalCodeSize"}, I32s(1), "i32")
  ++ Of({"externalCodeCopy"}, I32s(4), "none")
  ++ Of({"log"}, I32s(7), "none")
  ++ Of({"call", "callCode"}, CallParams(4), "i32")
  ++ Of({"callDelegate", "callStatic"}, CallParams(3), "i32")
  ++ Of({"create"}, I32s(4), "i32")

(***************************************************************************)
(* binaryen.cpp: callImport dispatches on the name when the contract makes *)
(* the call, counting its arguments and reading them with geti32 and       *)
(* geti64; verifyContract, which execute runs too, has the types.          *)
(***************************************************************************)
BinaryenData ==
  Of({"useGas"}, <<"i64">>, "none")
  ++ Of({"getGasLeft"}, <<>>, "i64")
  ++ Of({"getAddress", "getCaller", "getCallValue", "getBlockCoinbase"}, I32s(1), "none")
  ++ Of({"getExternalBalance"}, I32s(2), "none")
  ++ Of({"getBlockHash"}, CallParams(1), "i32")
  ++ Of({"getCallDataSize", "getCodeSize"}, <<>>, "i32")
  ++ Of({"callDataCopy", "codeCopy"}, I32s(3), "none")
  ++ Of({"externalCodeCopy"}, I32s(4), "none")
  ++ Of({"getExternalCodeSize"}, I32s(1), "i32")

BinaryenBlock ==
  Of({"getBlockDifficulty", "getTxGasPrice", "getTxOrigin"}, I32s(1), "none")
  ++ Of({"getBlockGasLimit", "getBlockNumber", "getBlockTimestamp"}, <<>>, "i64")
  ++ Of({"log"}, I32s(7), "none")
  ++ Of({"storageStore", "storageLoad", "finish", "revert"}, I32s(2), "none")
  ++ Of({"getReturnDataSize"}, <<>>, "i32")
  ++ Of({"returnDataCopy"}, I32s(3), "none")

BinaryenCalls ==
  Of({"call", "callCode"}, CallParams(4), "i32")
  ++ Of({"callDelegate", "callStatic"}, CallParams(3), "i32")
  ++ Of({"create"}, I32s(4), "i32")
  ++ Of({"selfDestruct"}, I32s(1), "none")

BinaryenImports == BinaryenData ++ BinaryenBlock ++ BinaryenCalls

BinaryenVerify ==
  Of({"useGas"}, <<"i64">>, "none")
  ++ Of({"getGasLeft", "getBlockGasLimit", "getBlockNumber", "getBlockTimestamp"}, <<>>, "i64")
  ++ Of({"getAddress", "getCaller", "getCallValue", "getBlockCoinbase", "getTxOrigin",
         "getBlockDifficulty", "getTxGasPrice", "selfDestruct"}, I32s(1), "none")
  ++ Of({"getExternalBalance", "storageStore", "storageLoad", "finish", "revert"},
        I32s(2), "none")
  ++ Of({"getBlockHash"}, CallParams(1), "i32")
  ++ Of({"getCallDataSize", "getCodeSize", "getReturnDataSize"}, <<>>, "i32")
  ++ Of({"callDataCopy", "codeCopy", "returnDataCopy"}, I32s(3), "none")
  ++ Of({"getExternalCodeSize"}, I32s(1), "i32")
  ++ Of({"externalCodeCopy"}, I32s(4), "none")
  ++ Of({"log"}, I32s(7), "none")
  ++ Of({"call", "callCode"}, CallParams(4), "i32")
  ++ Of({"callDelegate", "callStatic"}, CallParams(3), "i32")
  ++ Of({"create"}, I32s(4), "i32")
  ++ Of({"create2"}, I32s(5), "i32")

(***************************************************************************)
(* The methods of EthereumInterface and what the host functions pass: the  *)
(* position of the argument, or 0 for a literal zero.                      *)
(***************************************************************************)
Method ==
  Of({"useGas"}, <<"i64">>, "none")
  ++ Of({"getGasLeft", "getBlockGasLimit", "getBlockNumber", "getBlockTimestamp"}, <<>>, "i64")
  ++ Of({"getAddress", "getCaller", "getCallValue", "getBlockCoinbase", "getTxOrigin",
         "getBlockDifficulty", "getTxGasPrice", "selfDestruct"}, I32s(1), "none")
  ++ Of({"getExternalBalance", "storageStore", "storageLoad", "finish", "revert"},
        I32s(2), "none")
  ++ Of({"getBlockHash"}, CallParams(1), "i32")
  ++ Of({"getCallDataSize", "getCodeSize", "getReturnDataSize"}, <<>>, "i32")
  ++ Of({"callDataCopy", "codeCopy", "returnDataCopy"}, I32s(3), "none")
  ++ Of({"getExternalCodeSize"}, I32s(1), "i32")
  ++ Of({"externalCodeCopy"}, I32s(4), "none")
  ++ Of({"log"}, I32s(7), "none")
  ++ Of({"call", "callCode", "callDelegate", "callStatic"}, CallParams(4), "i32")
  ++ Of({"create"}, I32s(4), "i32")
  ++ Of({"create2"}, I32s(5), "i32")

Passed(name) ==
  IF name \in {"callDelegate", "callStatic"} THEN <<1, 2, 0, 3, 4>>
  ELSE [i \in DOMAIN Declared[name].params |-> i]

-----------------------------------------------------------------------------
VARIABLES
  engine,      \* the engine hera is built with
  uses,        \* the host instructions of the contract
  shape,       \* what is odd about its module
  verified,    \* whether verifyContract has admitted it at deployment
  at,          \* "idle"; "unverified", refused by verifyContract; "refused" by
               \* execute; "running", "trapped", "asserted", "unresolved", "ended"
  calling      \* the host function called last, or "none"

linkVars == <<engine, uses, shape, verified, at, calling>>

Engines == {"wabt", "wavm", "binaryen"}
None == "none"

\* Init code is executed unverified; deployed code is verified first.
LinkInit ==
  /\ engine \in Engines
  /\ uses \in {{f[i] : i \in 1..MaxUses} : f \in [1..MaxUses -> Instructions]}
  /\ shape \in Shapes
  /\ verified = FALSE /\ at = "idle" /\ calling = None

\* Every import is bound under its name with its type.
Binds(table) ==
  \A n \in Imports(uses) : n \in DOMAIN table /\ table[n] = Lowered(Declared[n])

(***************************************************************************)
(* The conditions of each engine, first to verify and then to run.         *)
(***************************************************************************)
WabtVerifies ==
  /\ shape \notin {"foreignImport", "twoMemories", "noMemory", "start", "noMain", "mainNotFunc"}
  /\ Binds(WabtVerify)
WabtLoads ==
  /\ shape \notin {"foreignImport", "twoMemories", "noMemory", "start", "noMain", "mainNotFunc"}
  /\ Binds(WabtExecute)

\* The loop looks at the exports there are; it requires none.
WavmVerifiesStart ==
  /\ shape \notin {"twoMemories", "mainNotFunc", "extraExport", "foreignImport"}
  /\ Binds(WavmVerify)
WavmVerifies ==
  /\ shape \notin {"start", "twoMemories", "mainNotFunc", "extraExport", "foreignImport"}
  /\ Binds(WavmVerify)
WavmLoads ==
  /\ shape \notin {"foreignImport", "start", "noMemory", "noMain", "mainNotFunc"}
  /\ Binds(WavmExecute)

\* Exactly the exports main and memory, and main :: () -> ().
BinaryenVerifies ==
  /\ shape = "sound"
  /\ Binds(BinaryenVerify)

Verifies == CASE engine = "wabt" -> WabtVerifies
              [] engine = "wavm" -> WavmVerifies
              [] engine = "binaryen" -> BinaryenVerifies
Loads == CASE engine = "wabt" -> WabtLoads
           [] engine = "wavm" -> WavmLoads
           [] engine = "binaryen" -> BinaryenVerifies

\* What answers a call once the contract runs.
Dispatched == CASE engine = "wabt" -> DOMAIN WabtExecute
                [] engine = "wavm" -> DOMAIN WavmExecute
                [] engine = "binaryen" -> DOMAIN BinaryenImports

(***************************************************************************)
(* verifyContract on the code a creation returned.                         *)
(***************************************************************************)
Verify ==
  /\ at = "idle" /\ ~verified
  /\ IF Verifies THEN verified' = TRUE /\ at' = at
                  ELSE verified' = verified /\ at' = "unverified"
  /\ UNCHANGED <<engine, uses, shape, calling>>

\* execute up to the call of main; main cannot be called without arguments
\* when it has parameters.
Execute ==
  /\ at = "idle"
  /\ at' = IF ~Loads THEN "refused" ELSE IF shape = "mainParams" THEN "trapped" ELSE "running"
  /\ UNCHANGED <<engine, uses, shape, verified, calling>>

\* eei.cpp defines every method of eei.h but eeiCreate2.
Defined == DOMAIN Method \ {"create2"}

Ending == {"finish", "revert", "selfDestruct"}

\* finish, revert and selfDestruct throw EndExecution.
CallHost(n) ==
  /\ at = "running" /\ n \in Imports(uses)
  /\ calling' = n
  /\ at' = IF n \notin Dispatched THEN "asserted"
           ELSE IF n \notin Defined THEN "unresolved"
           ELSE IF n \in Ending THEN "ended" ELSE "running"
  /\ UNCHANGED <<engine, uses, shape, verified>>

LinkNext ==
  \/ Verify \/ Execute
  \/ \E n \in DOMAIN Declared : CallHost(n)

LinkSpec == LinkInit /\ [][LinkNext]_linkVars
-----------------------------------------------------------------------------
(***************************************************************************)
(* Properties.                                                             *)
(***************************************************************************)

\* Every variable keeps its type.
LinkTypeOK ==
  /\ engine \in Engines /\ verified \in BOOLEAN
  /\ uses \subseteq Instructions /\ shape \in Shapes
  /\ at \in {"idle", "running", "unverified", "refused", "trapped", "asserted", "unresolved",
            "ended"}
  /\ calling \in DOMAIN Declared \union {None}
  /\ at = "idle" => calling = None

\* Instructions whose host function no engine provides.
Unprovided == {"CHAINID", "BASEFEE", "SELFBALANCE", "EXTCODEHASH"}

\* The names and types declared in EEIModule.cpp agree with those of every
\* engine, to verify and to run: a translated contract is refused exactly for
\* CHAINID, BASEFEE, SELFBALANCE or EXTCODEHASH, and for CREATE2 by wavm (both
\* ways) and by wabt's verifyContract, though wabt's execute provides it.
RefusedOnlyUnprovided ==
  shape = "sound" =>
    LET unprovided == uses \intersect Unprovided # {}
        create2 == "CREATE2" \in uses
    IN  /\ at = "unverified" => unprovided \/ (create2 /\ engine \in {"wabt", "wavm"})
        /\ at = "refused" => unprovided \/ (create2 /\ engine = "wavm")
        /\ at \in {"running", "ended"} => ~unprovided /\ ~(create2 /\ engine = "wavm")
        /\ verified => ~unprovided /\ ~(create2 /\ engine \in {"wabt", "wavm"})

\* A contract that verifyContract admitted at deployment is not refused when
\* it is executed, with one exception: wavm verifies modules that export no
\* main or no memory, which its execute refuses.
VerifiedLoads ==
  (verified /\ at = "refused") => engine = "wavm" /\ shape \in {"noMain", "noMemory"}

\* Every host function reads its arguments from the positions its method in
\* eei.h takes them: each parameter of the method gets a value of its type,
\* no argument is lost, and callDelegate and callStatic pass a zero value.
ArgumentsFit ==
  (calling # None /\ at \notin {"asserted", "unresolved"}) =>
    LET given == Lowered(Declared[calling]).params
        passed == Passed(calling)
        wanted == Method[calling].params
    IN  /\ DOMAIN passed = DOMAIN wanted
        /\ \A i \in DOMAIN wanted :
             wanted[i] = IF passed[i] = 0 THEN "i32" ELSE given[passed[i]]
        /\ DOMAIN given \subseteq {passed[i] : i \in DOMAIN passed}
        /\ Lowered(Declared[calling]).result = Method[calling].result

\* Once a contract has loaded, every call it can make is answered, except
\* create2: binaryen's callImport has no case for it, and the method wabt
\* binds it to is declared and nowhere defined.
OnlyCreate2Unanswered ==
  at \in {"asserted", "unresolved"} => calling = "create2" /\ engine \in {"wabt", "binaryen"}

\* The six tables of host functions agree with each other, up to the entries
\* that are named: to verify, to load, to pass arguments and to answer.
TablesAgree ==
  /\ LinkTypeOK
  /\ RefusedOnlyUnprovided
  /\ VerifiedLoads
  /\ ArgumentsFit
  /\ OnlyCreate2Unanswered
=============================================================================
