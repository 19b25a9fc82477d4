-------------------------------- MODULE Hera --------------------------------
(***************************************************************************)
(* The EVMC front end (evmtrans/hera/hera.cpp): the options of an instance *)
(* and hera_execute, which replaces, translates, meters and checks code    *)
(* around the wasm engine.  Translation and metering are done by system    *)
(* contracts that hera reaches through the host, so that hera_execute is   *)
(* entered again while it runs: `frames' are its activations, innermost    *)
(* last, and `answer' is the result on its way to the activation below.    *)
(* What a contract does is its own choice; a system contract only          *)
(* transforms its input and makes no calls.                                *)
(***************************************************************************)
EXTENDS Naturals, Sequences, FiniteSets, SequencesExt

CONSTANTS
  Users,        \* addresses of ordinary accounts
  Revisions,    \* revisions the client asks for
  FileCodes,    \* contents of the files named by sys: options
  InitialWorlds, \* the code of every account at the start
  InitCodes,    \* codes of creation messages
  Outputs,      \* what a contract may return
  MaxFiles,     \* bound on the addresses named by sys: options
  MaxCalls,     \* bound on ordinary activations of hera_execute under way
  StackLimit    \* activations the native stack holds

ASSUME StackAssumption ==
  MaxCalls \in Nat \ {0} /\ StackLimit \in Nat /\ StackLimit > MaxCalls + 2

\* empty; EVM code; a wasm header of eight bytes; the header without its magic
\* but with its version; another wasm version; a contract; a metered contract
Codes == {"empty", "evm", "header", "headless", "version2", "wasm", "metered"}

ASSUME CodesAssumption ==
  /\ FileCodes \subseteq Codes /\ InitCodes \subseteq Codes
  /\ MaxFiles \in Nat /\ Outputs \subseteq Codes

System == {"sentinel", "evm2wasm", "runevm"}
Address == Users \union System
Modes == {"reject", "fallback", "evm2wasm", "runevm"}
Absent == "absent"

ASSUME UsersAssumption == Users \intersect System = {}

ASSUME WorldsAssumption == InitialWorlds \subseteq [Address -> Codes]

VARIABLES
  evm1mode, metering,
  preload,    \* contract_preload_list
  world,      \* the code of each account, kept by the host
  frames,     \* activations of hera_execute
  interfaces, \* the stack of interfaces of wavm.cpp, as positions in frames
  answer,     \* the result of the activation that just ended
  crashed,    \* the native stack overflowed
  supplied    \* ghost: the addresses a sys: option named

heraVars == <<evm1mode, metering, preload, world, frames, interfaces, answer,
          crashed, supplied>>
options == <<evm1mode, metering, preload, supplied>>

Statuses == {"SUCCESS", "REVERT", "REJECTED", "FAILURE",
             "CONTRACT_VALIDATION_FAILURE", "INTERNAL_ERROR"}
NoAnswer == [status |-> "none", out |-> "empty"]

\* The locals of hera_execute; `at' is where it stands.
Frame ==
  [at : {"start", "evm2wasm", "runevm", "checked", "meterCreate", "run",
         "meterDeploy"},
   kind : {"CALL", "CREATE"}, dest : Address, rev : Revisions,
   state : Codes, run : Codes, isWasm : BOOLEAN, meter : BOOLEAN]

HeraTypeOK ==
  /\ evm1mode \in Modes /\ metering \in BOOLEAN
  /\ preload \in [Address -> Codes \union {Absent}]
  /\ world \in [Address -> Codes]
  /\ frames \in Seq(Frame)
  /\ interfaces \in Seq(Nat)
  /\ answer \in [status : Statuses, out : Codes] \union {NoAnswer}
  /\ crashed \in BOOLEAN
  /\ supplied \subseteq Address

HeraInit ==
  /\ evm1mode = "reject" /\ metering = FALSE
  /\ preload = [a \in Address |-> Absent]
  /\ world \in InitialWorlds
  /\ frames = <<>> /\ interfaces = <<>> /\ answer = NoAnswer
  /\ crashed = FALSE
  /\ supplied = {}

(***************************************************************************)
(* Code.                                                                   *)
(***************************************************************************)
hasWasmPreamble(code) == code \in {"header", "version2", "wasm", "metered"}
hasWasmVersion1(code) == code \in {"header", "headless", "wasm", "metered"}
LongerThan8(code) == code \in {"evm", "headless", "version2", "wasm", "metered"}

\* What the engine loads and what verifyContract accepts: a module with main and
\* memory, here the whole contracts.
Loadable(code) == code \in {"wasm", "metered"}

(***************************************************************************)
(* Options, set by the client between messages.                            *)
(***************************************************************************)
Idle == ~crashed /\ frames = <<>> /\ answer = NoAnswer

Keep == UNCHANGED <<world, frames, interfaces, answer, crashed>>

SetEvm1Mode(mode) ==
  /\ Idle
  /\ evm1mode' = mode
  /\ UNCHANGED <<metering, preload, supplied>> /\ Keep

\* "true" turns it on; "false" is accepted and does nothing.
SetMetering(value) ==
  /\ Idle
  /\ metering' = (metering \/ value)
  /\ UNCHANGED <<evm1mode, preload, supplied>> /\ Keep

\* An empty or missing file is refused.
hera_parse_sys_option(address, contents) ==
  /\ Idle
  /\ contents # "empty"
  /\ Cardinality(supplied \union {address}) <= MaxFiles
  /\ preload' = [preload EXCEPT ![address] = contents]
  /\ supplied' = supplied \union {address}
  /\ UNCHANGED <<evm1mode, metering>> /\ Keep

SetOption ==
  \/ \E mode \in Modes : SetEvm1Mode(mode)
  \/ \E value \in BOOLEAN : SetMetering(value)
  \/ \E address \in Address, contents \in FileCodes :
       hera_parse_sys_option(address, contents)

(***************************************************************************)
(* Entering hera_execute.                                                  *)
(***************************************************************************)
Top == frames[Len(frames)]
At(where) == ~crashed /\ answer = NoAnswer /\ frames # <<>> /\ Top.at = where

Enter(below, kind, dest, rev, code) ==
  Append(below, [at |-> "start", kind |-> kind, dest |-> dest, rev |-> rev,
                 state |-> code, run |-> code, isWasm |-> FALSE, meter |-> TRUE])

Replace(frame) == [frames EXCEPT ![Len(frames)] = frame]

\* The client's message.
hera_execute(kind, dest, rev, code) ==
  /\ Idle
  /\ frames' = Enter(<<>>, kind, dest, rev, code)
  /\ UNCHANGED <<options, world, interfaces, answer, crashed>>

\* The host runs the account's code; an account without code it may answer itself.
callSystemContract(address, waiting) ==
  \/ /\ Len(frames) < StackLimit
     /\ frames' = Enter(Replace(waiting), "CALL", address, waiting.rev, world[address])
     /\ UNCHANGED <<options, world, interfaces, answer, crashed>>
  \/ /\ world[address] = "empty"
     /\ frames' = Replace(waiting)
     /\ answer' = [status |-> "SUCCESS", out |-> "empty"]
     /\ UNCHANGED <<options, world, interfaces, crashed>>
  \/ /\ Len(frames) >= StackLimit
     /\ crashed' = TRUE
     /\ UNCHANGED <<options, world, frames, interfaces, answer>>

sentinel(waiting) == callSystemContract("sentinel", waiting)
evm2wasm(waiting) == callSystemContract("evm2wasm", waiting)

\* The end of hera_execute: the result, or the status of the exception caught.
Return(status, out) ==
  /\ frames' = Front(frames)
  /\ answer' = [status |-> status, out |-> out]

Fail(status) ==
  /\ Return(status, "empty")
  /\ UNCHANGED <<options, world, interfaces, crashed>>

Invalid == Fail("CONTRACT_VALIDATION_FAILURE")

(***************************************************************************)
(* The steps of hera_execute up to the engine.                             *)
(***************************************************************************)
ReplacementIgnored(frame) == frame.state
Replacement(frame) ==
  IF preload[frame.dest] # Absent THEN preload[frame.dest] ELSE frame.state

Continue(frame) ==
  /\ frames' = Replace(frame)
  /\ UNCHANGED <<options, world, interfaces, answer, crashed>>

\* runevm: operator[] of the map creates an entry when there is none, and a
\* second engine runs what it holds, under an interface of its own.
Held == IF preload["runevm"] = Absent THEN "empty" ELSE preload["runevm"]

RunRunevm(frame) ==
  LET held == Held
  IN /\ preload' = [preload EXCEPT !["runevm"] = held]
     /\ UNCHANGED <<evm1mode, metering, supplied, world, crashed>>
     /\ \/ /\ Loadable(held)
           /\ frames' = Replace([frame EXCEPT !.at = "runevm"])
           /\ interfaces' = Append(interfaces, Len(frames))
           /\ UNCHANGED answer
        \/ /\ ~Loadable(held)
           /\ Return("CONTRACT_VALIDATION_FAILURE", "empty")
           /\ UNCHANGED interfaces

Start ==
  LET code == Replacement(Top)
      frame == [Top EXCEPT !.run = code, !.isWasm = hasWasmPreamble(code)]
  IN /\ At("start")
     /\ \/ /\ Top.rev # "BYZANTIUM"
           /\ Fail("INTERNAL_ERROR")
        \/ /\ Top.rev = "BYZANTIUM"
           /\ \/ /\ frame.isWasm
                 /\ Continue([frame EXCEPT !.at = "checked"])
              \/ /\ ~frame.isWasm
                 /\ \/ evm1mode = "fallback" /\ Fail("REJECTED")
                    \/ evm1mode = "reject" /\ Fail("FAILURE")
                    \/ evm1mode = "runevm" /\ RunRunevm(frame)
                    \/ /\ evm1mode = "evm2wasm"
                       /\ evm2wasm([frame EXCEPT !.at = "evm2wasm"])

\* The runevm contract ends; hera goes on with the interpreter it returned.
FinishRunevm(status, out) ==
  LET good == status = "SUCCESS" /\ hasWasmPreamble(out) /\ LongerThan8(out)
  IN /\ At("runevm")
     /\ interfaces' = Front(interfaces)
     /\ UNCHANGED <<options, world, crashed>>
     /\ \/ /\ good
           /\ frames' = Replace([Top EXCEPT !.run = out, !.meter = FALSE, !.at = "checked"])
           /\ UNCHANGED answer
        \/ /\ ~good
           /\ Return(IF status = "TRAP" THEN "FAILURE" ELSE "CONTRACT_VALIDATION_FAILURE",
                     "empty")

Checked(code) == hasWasmPreamble(code) /\ hasWasmVersion1(code)

\* engine.execute: WavmInterfaceKeeper puts the interface on the stack.
RunEngine(frame) ==
  \/ /\ Loadable(frame.run)
     /\ frames' = Replace([frame EXCEPT !.at = "run"])
     /\ interfaces' = Append(interfaces, Len(frames))
     /\ UNCHANGED <<options, world, answer, crashed>>
  \/ ~Loadable(frame.run) /\ Invalid

\* Version check; the code of a creation is metered before it runs.
MeterCreationNever(frame) == FALSE
MeterCreation(frame) == frame.kind = "CREATE" /\ frame.isWasm /\ metering

RunChecked ==
  /\ At("checked")
  /\ \/ ~hasWasmVersion1(Top.run) /\ Invalid
     \/ /\ hasWasmVersion1(Top.run)
        /\ \/ /\ MeterCreation(Top)
              /\ sentinel([Top EXCEPT !.at = "meterCreate"])
           \/ ~MeterCreation(Top) /\ RunEngine(Top)

(***************************************************************************)
(* The running contract.                                                   *)
(***************************************************************************)
IsSystem(frame) == frame.dest \in System /\ frame.kind = "CALL"

\* eeiCall and eeiCreate: the host enters hera_execute again.
Call(kind, dest, code) ==
  /\ At("run") /\ ~IsSystem(Top)
  /\ Len(frames) < MaxCalls
  /\ frames' = Enter(frames, kind, dest, Top.rev, code)
  /\ UNCHANGED <<options, world, interfaces, answer, crashed>>

\* The keeper's destructor, on return and on an exception alike.
PopOnReturnOnly(status) == IF status = "TRAP" THEN interfaces ELSE Front(interfaces)
PopInterface(status) == Front(interfaces)

DeploysUnseen(frame, status, out) == FALSE
Deploys(frame, status, out) ==
  frame.kind = "CREATE" /\ status = "SUCCESS" /\ hasWasmPreamble(out)

\* The host stores what a creation returns.
Stored(frame, status, out) ==
  world' = IF frame.kind = "CREATE" /\ status = "SUCCESS"
           THEN [world EXCEPT ![frame.dest] = out] ELSE world

\* The engine returns, or the contract traps.  Deployed wasm code is checked and,
\* with metering on, handed to the sentinel.
FinishRun(status, out) ==
  /\ At("run")
  /\ interfaces' = PopInterface(status)
  /\ UNCHANGED options
  /\ \/ /\ status = "TRAP"
        /\ Return("FAILURE", "empty")
        /\ UNCHANGED <<world, crashed>>
     \/ /\ status # "TRAP" /\ ~Deploys(Top, status, out)
        /\ Return(status, out)
        /\ Stored(Top, status, out)
        /\ UNCHANGED crashed
     \/ /\ Deploys(Top, status, out)
        /\ ~hasWasmVersion1(out) \/ (~metering /\ ~Loadable(out))
        /\ Return("CONTRACT_VALIDATION_FAILURE", "empty")
        /\ UNCHANGED <<world, crashed>>
     \/ /\ Deploys(Top, status, out)
        /\ ~metering /\ Loadable(out)
        /\ Return("SUCCESS", out)
        /\ Stored(Top, "SUCCESS", out)
        /\ UNCHANGED crashed
     \/ /\ Deploys(Top, status, out)
        /\ hasWasmVersion1(out) /\ metering
        /\ frames' = Replace([Top EXCEPT !.run = out, !.at = "meterDeploy"])
        /\ UNCHANGED <<world, answer, crashed>>

\* sentinel() on the deployed code, once the interface is gone.
MeterDeployed ==
  /\ At("meterDeploy")
  /\ sentinel(Top)

(***************************************************************************)
(* The activation below takes the answer.                                  *)
(***************************************************************************)
Taking(where) == ~crashed /\ answer # NoAnswer /\ frames # <<>> /\ Top.at = where

Succeeded == answer.status = "SUCCESS"

Take(frame) ==
  /\ frames' = Replace(frame)
  /\ answer' = NoAnswer
  /\ UNCHANGED <<options, world, interfaces, crashed>>

TakeTranslation ==
  /\ Taking("evm2wasm")
  /\ \/ /\ Succeeded /\ LongerThan8(answer.out)
        /\ Take([Top EXCEPT !.run = answer.out, !.at = "checked"])
     \/ ~(Succeeded /\ LongerThan8(answer.out)) /\ Invalid

TakeMeteredCreation ==
  /\ Taking("meterCreate")
  /\ \/ /\ Succeeded /\ Checked(answer.out) /\ Loadable(answer.out)
        /\ frames' = Replace([Top EXCEPT !.run = answer.out, !.at = "run"])
        /\ interfaces' = Append(interfaces, Len(frames))
        /\ answer' = NoAnswer
        /\ UNCHANGED <<options, world, crashed>>
     \/ ~(Succeeded /\ Checked(answer.out) /\ Loadable(answer.out)) /\ Invalid

TakeMeteredDeploy ==
  /\ Taking("meterDeploy")
  /\ \/ /\ Succeeded /\ Checked(answer.out) /\ Loadable(answer.out)
        /\ Return("SUCCESS", answer.out)
        /\ Stored(Top, "SUCCESS", answer.out)
        /\ UNCHANGED <<options, interfaces, crashed>>
     \/ ~(Succeeded /\ Checked(answer.out) /\ Loadable(answer.out)) /\ Invalid

\* An ordinary call: eeiCall hands the result to the contract.
TakeCall == Taking("run") /\ Take(Top)

\* The client takes the result of its message.
Done ==
  /\ ~crashed /\ frames = <<>> /\ answer # NoAnswer
  /\ answer' = NoAnswer
  /\ UNCHANGED <<options, world, frames, interfaces, crashed>>

\* Metered code comes from the sentinel, which returns nothing else.
Honest(frame, status, out) ==
  IF frame.dest = "sentinel" /\ status = "SUCCESS"
  THEN out \in {"metered", "empty"}
  ELSE out # "metered"

Ends == {"SUCCESS", "REVERT", "TRAP"}

HeraNext ==
  \/ SetOption
  \/ \E dest \in Address, rev \in Revisions :
       \/ hera_execute("CALL", dest, rev, world[dest])
       \/ \E code \in InitCodes : dest \in Users /\ hera_execute("CREATE", dest, rev, code)
  \/ Start
  \/ \E status \in Ends, out \in Outputs :
       FinishRunevm(status, IF status = "SUCCESS" THEN out ELSE "empty")
  \/ RunChecked
  \/ \E dest \in Users :
       \/ Call("CALL", dest, world[dest])
       \/ \E code \in InitCodes : Call("CREATE", dest, code)
  \/ \E status \in Ends, out \in Outputs :
       /\ frames # <<>> /\ Honest(Top, status, out)
       /\ FinishRun(status, IF status = "SUCCESS" THEN out ELSE "empty")
  \/ MeterDeployed
  \/ TakeTranslation \/ TakeMeteredCreation \/ TakeMeteredDeploy \/ TakeCall
  \/ Done

HeraSpec == HeraInit /\ [][HeraNext]_heraVars

(***************************************************************************)
(* Properties.                                                             *)
(***************************************************************************)
Running == frames # <<>> /\ Top.at = "run"

\* The engine runs nothing but whole contracts of version 1, creation code only
\* after the sentinel when metering is on, and a contract runs without interface
\* metering only when it is the interpreter of runevm mode that stands in for
\* code that is not wasm (the checks on run_code and the flag
\* meterInterfaceGas, set on one path of three).
EngineInput ==
  \A i \in DOMAIN frames :
    frames[i].at = "run" =>
      /\ hasWasmPreamble(frames[i].run) /\ hasWasmVersion1(frames[i].run)
      /\ ~frames[i].meter => evm1mode = "runevm" /\ ~frames[i].isWasm
      /\ frames[i].kind = "CREATE" /\ frames[i].isWasm /\ metering =>
           frames[i].run = "metered"

\* While metering is on, the wasm code a creation deploys comes from the sentinel,
\* whatever was replaced or translated on the way; and no code of another wasm
\* version, and nothing the engine could not load, is ever deployed.
DeployedMetered ==
  [][\A a \in Address :
       world'[a] # world[a] /\ hasWasmPreamble(world'[a]) =>
         world'[a] \in (IF metering THEN {"metered"} ELSE {"wasm", "metered"})]_heraVars

Ascending(seq) == \A j, k \in DOMAIN seq : j < k => seq[j] < seq[k]
InEngine(seq) == {i \in DOMAIN seq : seq[i].at \in {"run", "runevm"}}

\* The interface that host functions use is the running activation's: the stack
\* of wavm.cpp holds one entry for each activation inside an engine, in order,
\* again after a nested execution returned or threw.
InterfaceOfRunning ==
  /\ Ascending(interfaces)
  /\ Range(interfaces) = InEngine(frames)
  /\ Running => Last(interfaces) = Len(frames)

\* Translation is not entered without end: the system contracts are called at
\* depth 0, so that no depth limit stops hera from translating the translator,
\* and the stack overflows only when the code of the evm2wasm address, replaced
\* or not, is itself not wasm.
TranslatorEnds ==
  crashed => LET code == IF preload["evm2wasm"] = Absent THEN world["evm2wasm"]
                         ELSE preload["evm2wasm"]
             IN evm1mode = "evm2wasm" /\ ~hasWasmPreamble(code)

\* The code of an account is replaced only at addresses that a sys: option
\* named, or, at the address of runevm, by nothing: reading the list there
\* creates the entry (contract_preload_list[runevmAddress]).
ReplacedOnlyIfSupplied ==
  \A a \in Address :
    preload[a] # Absent /\ a \notin supplied => a = "runevm" /\ preload[a] = "empty"

\* The system contracts of hera are the accounts' own or the ones supplied, and
\* calling them ends, in every mode and after every sequence of options.
SystemContractsSound == HeraTypeOK /\ TranslatorEnds /\ ReplacedOnlyIfSupplied
=============================================================================
