------------------------------- MODULE Driver -------------------------------
(***************************************************************************)
(* standalone-evmtrans: main of the command line translator, with          *)
(* codeGenModule, whose object file and linked module have fixed names in  *)
(* the working directory.  Several processes work at once, in directories  *)
(* of their own or in the same.  Files may fail to open and the linker may *)
(* fail; main looks at none of it.                                         *)
(* Code is abstracted to what it was made from; << >> is no code at all,   *)
(* which is also what reading a missing file gives.                        *)
(***************************************************************************)
EXTENDS Integers, FiniteSets

CONSTANTS
  Procs,        \* the processes
  Dirs,         \* working directories, empty at first
  Argvs,        \* their possible command lines: sets of flags
  Inputs        \* their possible inputs: subsets of InputFaults

\* What the options ask of prepare.
PassFlags == {"enableKlee", "check-reentrancy", "detect-suicide", "EOAonly", "check-send",
  "rm-origin", "use-safeMath", "enable-upgrade"}
ModeFlags == {"runtime-input", "onlyRt", "dump", "o"}

\* A file that is not there, code splitCode gives up on, IR that verifyModule
\* rejects in one of the modules.
InputFaults == {"missing", "unsplittable", "runtime", "deploy"}

ASSUME DriverAssumption ==
  /\ Argvs \subseteq SUBSET (PassFlags \union ModeFlags)
  /\ Inputs \subseteq SUBSET InputFaults

CodeGenFile == ".code_gen.wasm"
LinkFile == ".link.wasm"
RuntimeFile == "./runtime.wasm"
ResFile == "./res.wasm"
RtIRFile == "./rt.ll"
ResIRFile == "./res.ll"
FixedNames == {CodeGenFile, LinkFile, RuntimeFile, ResFile, RtIRFile, ResIRFile}

\* A process is also the name it gives its output with -o, none of the above.
ASSUME NamesAssumption == Procs \intersect FixedNames = {}

VARIABLES
  argv, input,  \* of each process
  cwd,          \* its working directory
  pc,           \* where it is in main, or its exit code once it has ended
  flags,        \* the cl::opt globals
  options,      \* the Options handed to prepare
  module,       \* the module being compiled: "runtime" or "deploy"
  passes,       \* the passes prepare added for each module
  rtCode,       \* runtimeCodeGen
  code,         \* deployCodeGen, or the result codeGenModule is building
  wrote,        \* what main has written so far: <<name, content>>
  files         \* the content of each file of each directory

started == <<argv, input, cwd>>
local == <<started, flags, options, module, passes, rtCode, code>>
driverVars == <<pc, local, wrote, files>>

\* The translation of a module: whose, which, and the runtime code it hands
\* over; and its IR.
Runtime(p) == <<p, "runtime">>
Deploy(p, rt) == <<p, "deploy", rt>>
IR(p, m) == <<p, "IR", m>>
Source(p) == IF module[p] = "runtime" THEN Runtime(p) ELSE Deploy(p, rtCode[p])

\* -o, or the name main falls back on; every process gives its own name.
OutputFilename(p) ==
  IF "o" \in flags[p] THEN p
  ELSE IF "runtime-input" \in flags[p] THEN RuntimeFile ELSE ResFile

Exited(p) == pc[p] \in {"exit0", "exit1", "exitMinus1"}
Goto(p, l) == pc' = [pc EXCEPT ![p] = l]
At(p, l) == pc[p] = l

\* Every name is relative to the working directory.
PathShared(p, name) == <<CHOOSE d \in Dirs : TRUE, name>>
Path(p, name) == <<cwd[p], name>>
Write(p, name, c) == files' = [files EXCEPT ![Path(p, name)] = c]

\* main writes a file of its own; a stream that does not open writes nothing.
Save(p, name, c) ==
  \/ /\ Write(p, name, c)
     /\ wrote' = [wrote EXCEPT ![p] = @ \union {<<name, c>>}]
  \/ UNCHANGED <<files, wrote>>

\* Options are taken from the globals, isRtcode is FALSE.
TakeOptions(p) ==
  /\ At(p, "options")
  /\ options' = [options EXCEPT ![p] = flags[p] \intersect PassFlags]
  /\ Goto(p, "parse")
  /\ UNCHANGED <<started, flags, module, passes, rtCode, code, wrote, files>>

ParseCommandLineOptions(p) ==
  /\ At(p, "parse")
  /\ flags' = [flags EXCEPT ![p] = argv[p]]
  /\ Goto(p, "read")
  /\ UNCHANGED <<started, options, module, passes, rtCode, code, wrote, files>>

\* getFile and splitCode: what does not load ends with 1, what cannot be
\* split with -1, unless the input is runtime code.
ReadInputUnsplit(p) ==
  /\ At(p, "read")
  /\ Goto(p, IF "missing" \in input[p] THEN "exit1" ELSE "compile")
  /\ UNCHANGED <<local, wrote, files>>
ReadInput(p) ==
  /\ At(p, "read")
  /\ Goto(p, CASE "missing" \in input[p] -> "exit1"
               [] /\ "missing" \notin input[p] /\ "unsplittable" \in input[p]
                  /\ "runtime-input" \notin flags[p] -> "exitMinus1"
               [] OTHER -> "compile")
  /\ UNCHANGED <<local, wrote, files>>

\* The passes prepare adds for the options o when isRtcode is rt.
Prepare(o, rt) ==
  {"LowerEVM"}
  \union (IF rt THEN (o \ {"enable-upgrade"}) \union {"calldataCopy"}
                ELSE o \intersect {"enable-upgrade"})

\* compileMain, prepare and, with --dump, exportIR.
Compile(p) ==
  /\ At(p, "compile")
  /\ passes' = [passes EXCEPT ![p][module[p]] = Prepare(options[p], FALSE)]
  /\ IF "dump" \in flags[p]
     THEN Save(p, IF module[p] = "runtime" THEN RtIRFile ELSE ResIRFile, IR(p, module[p]))
     ELSE UNCHANGED <<wrote, files>>
  /\ Goto(p, "open")
  /\ UNCHANGED <<started, flags, options, module, rtCode, code>>

\* Where main goes on with the result of codeGenModule.
Returned(p) == IF module[p] = "runtime" THEN "dump" ELSE "write"

\* codeGenModule opens and so truncates the object file; if it does not open,
\* the empty result is returned and the module never verified.
OpenCodeGen(p) ==
  /\ At(p, "open")
  /\ code' = [code EXCEPT ![p] = << >>]
  /\ \/ Write(p, CodeGenFile, << >>) /\ Goto(p, "emit")
     \/ UNCHANGED files /\ Goto(p, Returned(p))
  /\ UNCHANGED <<started, flags, options, module, passes, rtCode, wrote>>

\* verifyModule ends the process; otherwise the object file is written.
Emit(p) ==
  /\ At(p, "emit")
  /\ \/ /\ module[p] \in input[p]
        /\ Goto(p, "exitMinus1") /\ UNCHANGED files
     \/ /\ module[p] \notin input[p]
        /\ Goto(p, "link") /\ Write(p, CodeGenFile, Source(p))
  /\ UNCHANGED <<local, wrote>>

\* lld::wasm::link: on failure there is no output; the result is ignored.
\* An object file that another process has just truncated is an error too.
Link(p) ==
  /\ At(p, "link")
  /\ \/ /\ files[Path(p, CodeGenFile)] # << >>
        /\ Write(p, LinkFile, files[Path(p, CodeGenFile)])
     \/ UNCHANGED files
  /\ Goto(p, "load")
  /\ UNCHANGED <<local, wrote>>

\* The linked module is read back, whoever wrote it.
Load(p) ==
  /\ At(p, "load")
  /\ code' = [code EXCEPT ![p] = files[Path(p, LinkFile)]]
  /\ Goto(p, Returned(p))
  /\ UNCHANGED <<started, flags, options, module, passes, rtCode, wrote, files>>

\* --dump writes the runtime code; then main ends, or goes on to the deploy part.
DumpRuntime(p) ==
  /\ At(p, "dump")
  /\ rtCode' = [rtCode EXCEPT ![p] = code[p]]
  /\ IF "dump" \in flags[p] THEN Save(p, RuntimeFile, code[p]) ELSE UNCHANGED <<wrote, files>>
  /\ Goto(p, CASE "runtime-input" \in flags[p] -> "write"
               [] "runtime-input" \notin flags[p] /\ "onlyRt" \in flags[p] -> "exit0"
               [] OTHER -> "deploy")
  /\ UNCHANGED <<started, flags, options, module, passes, code>>

\* DeployerCC gets the runtime code.
StartDeploy(p) ==
  /\ At(p, "deploy")
  /\ module' = [module EXCEPT ![p] = "deploy"]
  /\ Goto(p, "compile")
  /\ UNCHANGED <<started, flags, options, passes, rtCode, code, wrote, files>>

WriteOutput(p) ==
  /\ At(p, "write")
  /\ Save(p, OutputFilename(p), code[p])
  /\ Goto(p, "exit0")
  /\ UNCHANGED local

Step(p) ==
  \/ TakeOptions(p) \/ ParseCommandLineOptions(p) \/ ReadInput(p) \/ Compile(p)
  \/ OpenCodeGen(p) \/ Emit(p) \/ Link(p) \/ Load(p) \/ DumpRuntime(p) \/ StartDeploy(p)
  \/ WriteOutput(p)

\* All processes have ended.
Done == (\A p \in Procs : Exited(p)) /\ UNCHANGED driverVars

DriverInit ==
  /\ argv \in [Procs -> Argvs] /\ input \in [Procs -> Inputs] /\ cwd \in [Procs -> Dirs]
  /\ pc = [p \in Procs |-> "options"]
  /\ flags = [p \in Procs |-> {}] /\ options = [p \in Procs |-> {}]
  /\ module = [p \in Procs |-> "runtime"]
  /\ passes = [p \in Procs |-> [x \in {"runtime", "deploy"} |-> {}]]
  /\ rtCode = [p \in Procs |-> << >>] /\ code = [p \in Procs |-> << >>]
  /\ wrote = [p \in Procs |-> {}]
  /\ files = [f \in Dirs \X (FixedNames \union Procs) |-> << >>]

DriverNext == Done \/ \E p \in Procs : Step(p)

DriverSpec == DriverInit /\ [][DriverNext]_driverVars

-----------------------------------------------------------------------------
NoDeploy == {"runtime-input", "onlyRt"}

\* No code, or a module translated in directory d that passed verifyModule,
\* whatever code it hands over.
VerifiedIn(d, c) ==
  \/ c = << >>
  \/ c[1] \in Procs /\ c[2] \in {"runtime", "deploy"} /\ cwd[c[1]] = d /\ c[2] \notin input[c[1]]

\* The steps of main write nothing but IR of their own and code that verified.
DriverTypeOK ==
  /\ \A p \in Procs : options[p] \subseteq PassFlags /\ flags[p] \in {{}, argv[p]}
  /\ \A f \in DOMAIN files :
       IF f[2] \in {RtIRFile, ResIRFile}
       THEN files[f] = << >> \/ \E p \in Procs, m \in {"runtime", "deploy"} : files[f] = IR(p, m)
       ELSE VerifiedIn(f[1], files[f])

Alone(p) == \A q \in Procs \ {p} : cwd[q] # cwd[p]

\* What main can write for p in a directory of its own: nothing where a file
\* did not open or the first link failed, the runtime code also where the
\* second link failed, and, for deploy code, whatever runtime code it got.
Own(p) ==
  {<< >>, Runtime(p), IR(p, "runtime")}
  \union (IF argv[p] \intersect NoDeploy # {} THEN {}
          ELSE {Deploy(p, << >>), Deploy(p, Runtime(p)), IR(p, "deploy")})

\* A translation in a fresh directory of its own (deployment/bulk.sh makes one
\* for every input) never yields another's code, wherever a file does not open
\* or the linker fails: with --runtime-input, output that is not empty is the
\* translation of the input, which is what bulk.sh counts as ok.  In a
\* directory shared with others it may be another's code, but never that of a
\* module that did not verify, or of another directory.
OutputIsOwn ==
  \A p \in Procs : \A o \in wrote[p] :
    /\ Alone(p) => o[2] \in Own(p)
    /\ o[1] \notin {RtIRFile, ResIRFile} => VerifiedIn(cwd[p], o[2])

\* A process that reports failure has not touched its output.  With --dump it
\* may leave the IR of the runtime part, and once it got to the deploy part,
\* which then is the one that failed, the runtime code and the deploy part's IR.
FailureWritesNothing ==
  \A p \in Procs : pc[p] \in {"exit1", "exitMinus1"} =>
    \A o \in wrote[p] :
      /\ "dump" \in argv[p] /\ o[1] # OutputFilename(p)
      /\ input[p] \intersect {"missing", "unsplittable"} = {} \/ "runtime-input" \in argv[p]
      /\ \/ o = <<RtIRFile, IR(p, "runtime")>>
         \/ "deploy" \in input[p] /\ o \in {<<RuntimeFile, rtCode[p]>>, <<ResIRFile, IR(p, "deploy")>>}

\* Success is reported for no input that does not load or does not split, and
\* for a module that does not verify only with no code at all, because the
\* object file did not open.
FaultsReported ==
  \A p \in Procs : pc[p] = "exit0" =>
    /\ "missing" \notin input[p]
    /\ "unsplittable" \in input[p] => "runtime-input" \in argv[p]
    /\ "runtime" \in input[p] => rtCode[p] = << >>
    /\ "deploy" \in input[p] => code[p] = << >> \/ argv[p] \intersect NoDeploy # {}

\* An exit code tells the user which it was: failure, with the output as it was
\* before, or success, and then code only of an input that could be translated.
ExitCodeTells == DriverTypeOK /\ FailureWritesNothing /\ FaultsReported

\* "Also we can fix the reentrancy vulnerability using this cmd" (README):
\* the passes asked for have run on the runtime module once there is output.
RequestedPassesRun ==
  \A p \in Procs : wrote[p] # {} =>
    (argv[p] \intersect PassFlags) \ {"enable-upgrade"} \subseteq passes[p]["runtime"]
=============================================================================
