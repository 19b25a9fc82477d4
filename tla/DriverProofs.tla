---------------------------- MODULE DriverProofs ----------------------------
(***************************************************************************)
(* For any number of translators at work in any directories, any command   *)
(* lines and any faulty inputs: an exit code tells whether there is        *)
(* output, and what a process in a directory of its own has written is     *)
(* its own.                                                                *)
(***************************************************************************)
EXTENDS Driver, TLAPS

FileNames == FixedNames \union Procs
IRFiles == {RtIRFile, ResIRFile}
Modules == {"runtime", "deploy"}
Labels == {"options", "parse", "read", "compile", "open", "emit", "link", "load", "dump", "write",
           "deploy", "exit0", "exit1", "exitMinus1"}

\* The domains of the state.
Shape ==
  /\ DOMAIN pc = Procs /\ DOMAIN flags = Procs /\ DOMAIN options = Procs /\ DOMAIN module = Procs
  /\ DOMAIN rtCode = Procs /\ DOMAIN code = Procs /\ DOMAIN wrote = Procs
  /\ DOMAIN files = Dirs \X FileNames
  /\ argv \in [Procs -> Argvs] /\ input \in [Procs -> Inputs] /\ cwd \in [Procs -> Dirs]

\* Where a process can be with the module it is compiling, and what main has
\* already decided about the command line and the input.
Control(p) ==
  /\ pc[p] \in Labels /\ module[p] \in Modules
  /\ flags[p] = IF pc[p] \in {"options", "parse"} THEN {} ELSE argv[p]
  /\ options[p] \subseteq PassFlags
  /\ module[p] = "deploy" =>
       /\ pc[p] \in {"compile", "open", "emit", "link", "load", "write", "exit0", "exitMinus1"}
       /\ argv[p] \intersect NoDeploy = {}
  /\ pc[p] = "deploy" => argv[p] \intersect NoDeploy = {}
  /\ pc[p] = "write" /\ module[p] = "runtime" => "runtime-input" \in argv[p]
  /\ pc[p] = "exit0" /\ module[p] = "runtime" => argv[p] \intersect NoDeploy # {}

\* What got past the input, past verifyModule, or past both with no code.
Faults(p) ==
  /\ pc[p] \notin {"options", "parse", "read", "exit1", "exitMinus1"} \/ module[p] = "deploy"
       \/ wrote[p] # {} =>
       "missing" \notin input[p] /\ ("unsplittable" \in input[p] => "runtime-input" \in argv[p])
  /\ pc[p] \in {"link", "load"} => module[p] \notin input[p]
  /\ pc[p] \in {"dump", "write", "exit0"} => module[p] \notin input[p] \/ code[p] = << >>
  /\ module[p] = "deploy" \/ pc[p] \in {"deploy", "write", "exit0"} =>
       "runtime" \notin input[p] \/ rtCode[p] = << >>
  /\ pc[p] = "exitMinus1" /\ module[p] = "deploy" => "deploy" \in input[p]

\* What there may be before the output is written.
Early(p, o) ==
  /\ "dump" \in argv[p]
  /\ \/ o = <<RtIRFile, IR(p, "runtime")>>
     \/ o = <<RuntimeFile, rtCode[p]>> /\ (module[p] = "deploy" \/ pc[p] \in {"write", "deploy"})
     \/ o = <<ResIRFile, IR(p, "deploy")>> /\ module[p] = "deploy"
Dumped(p) == pc[p] # "exit0" => \A o \in wrote[p] : Early(p, o)

\* What a process has in memory and has written is code of its directory.
Known(p) ==
  /\ VerifiedIn(cwd[p], code[p]) /\ VerifiedIn(cwd[p], rtCode[p])
  /\ \A o \in wrote[p] : o[1] \notin IRFiles => VerifiedIn(cwd[p], o[2])

\* The code a process makes, in a directory of its own, up to the module it is at.
OwnCode(p) ==
  {<< >>, Runtime(p)}
  \union (IF module[p] = "runtime" THEN {} ELSE {Deploy(p, << >>), Deploy(p, Runtime(p))})
Lone(p) ==
  Alone(p) =>
    /\ pc[p] = "link" => files[Path(p, CodeGenFile)] = Source(p)
    /\ files[Path(p, LinkFile)] \in OwnCode(p) /\ code[p] \in OwnCode(p)
    /\ rtCode[p] \in {<< >>, Runtime(p)}
    /\ \A o \in wrote[p] : o[2] \in Own(p)

ProcInv(p) == Control(p) /\ Faults(p) /\ Dumped(p) /\ Known(p) /\ Lone(p)
Inv == Shape /\ DriverTypeOK /\ \A p \in Procs : ProcInv(p)

\* What a step of p may write, and where.
Writable(p, n, c) ==
  \/ n = CodeGenFile /\ c = << >>
  \/ n = CodeGenFile /\ c = Source(p) /\ module[p] \notin input[p]
  \/ n = LinkFile /\ c = files[Path(p, CodeGenFile)]
  \/ n \in {RuntimeFile, OutputFilename(p)} /\ c = code[p]
  \/ n \in IRFiles /\ c = IR(p, module[p])

\* The fixed names and the outputs are different files.
LEMMA Names ==
  /\ CodeGenFile # LinkFile /\ RuntimeFile \notin {CodeGenFile, LinkFile}
  /\ ResFile \notin {CodeGenFile, LinkFile, RuntimeFile}
  /\ IRFiles \intersect {CodeGenFile, LinkFile, RuntimeFile, ResFile} = {} /\ RtIRFile # ResIRFile
  /\ \A p \in Procs : p \notin FixedNames
BY NamesAssumption DEF CodeGenFile, LinkFile, RuntimeFile, ResFile, IRFiles, RtIRFile, ResIRFile

\* No output goes to one of codeGenModule's files or over IR.
LEMMA OutputName ==
  ASSUME NEW p \in Procs
  PROVE  OutputFilename(p) \in FileNames \ ({CodeGenFile, LinkFile} \union IRFiles)
<1>1. OutputFilename(p) \in {p, RuntimeFile, ResFile}
  BY DEF OutputFilename
<1>2. IRFiles \subseteq FixedNames /\ {CodeGenFile, LinkFile, RuntimeFile, ResFile} \subseteq FixedNames
  BY DEF FixedNames, IRFiles
<1> QED BY <1>1, <1>2, Names DEF FileNames

\* Everything writable is a file of the directory.
LEMMA WritableName ==
  ASSUME NEW p \in Procs, NEW n, NEW c, Writable(p, n, c)
  PROVE  n \in FileNames
BY OutputName DEF Writable, FileNames, FixedNames, IRFiles

\* A step leaves the other processes' locals alone and writes at most one file,
\* which main remembers if it is its own.
LEMMA Frame ==
  ASSUME Shape, NEW p \in Procs, Step(p)
  PROVE  /\ UNCHANGED started /\ Shape'
         /\ \A q \in Procs \ {p} :
              /\ pc'[q] = pc[q] /\ flags'[q] = flags[q] /\ options'[q] = options[q]
              /\ module'[q] = module[q] /\ rtCode'[q] = rtCode[q] /\ code'[q] = code[q]
              /\ wrote'[q] = wrote[q]
<1>1. UNCHANGED started
  BY DEF Step, TakeOptions, ParseCommandLineOptions, ReadInput, Compile, OpenCodeGen, Emit, Link,
    Load, DumpRuntime, StartDeploy, WriteOutput, local
<1>2. \E l : pc' = [pc EXCEPT ![p] = l]
  BY DEF Step, TakeOptions, ParseCommandLineOptions, ReadInput, Compile, OpenCodeGen, Emit, Link,
    Load, DumpRuntime, StartDeploy, WriteOutput, Goto
<1>3. flags' = flags \/ \E x : flags' = [flags EXCEPT ![p] = x]
  BY DEF Step, TakeOptions, ParseCommandLineOptions, ReadInput, Compile, OpenCodeGen, Emit, Link,
    Load, DumpRuntime, StartDeploy, WriteOutput, local
<1>4. options' = options \/ \E x : options' = [options EXCEPT ![p] = x]
  BY DEF Step, TakeOptions, ParseCommandLineOptions, ReadInput, Compile, OpenCodeGen, Emit, Link,
    Load, DumpRuntime, StartDeploy, WriteOutput, local
<1>5. module' = module \/ \E x : module' = [module EXCEPT ![p] = x]
  BY DEF Step, TakeOptions, ParseCommandLineOptions, ReadInput, Compile, OpenCodeGen, Emit, Link,
    Load, DumpRuntime, StartDeploy, WriteOutput, local
<1>6. rtCode' = rtCode \/ \E x : rtCode' = [rtCode EXCEPT ![p] = x]
  BY DEF Step, TakeOptions, ParseCommandLineOptions, ReadInput, Compile, OpenCodeGen, Emit, Link,
    Load, DumpRuntime, StartDeploy, WriteOutput, local
<1>7. code' = code \/ \E x : code' = [code EXCEPT ![p] = x]
  BY DEF Step, TakeOptions, ParseCommandLineOptions, ReadInput, Compile, OpenCodeGen, Emit, Link,
    Load, DumpRuntime, StartDeploy, WriteOutput, local
<1>8. wrote' = wrote \/ \E x : wrote' = [wrote EXCEPT ![p] = x]
  BY DEF Step, TakeOptions, ParseCommandLineOptions, ReadInput, Compile, OpenCodeGen, Emit, Link,
    Load, DumpRuntime, StartDeploy, WriteOutput, Save, local
<1>9. files' = files \/ \E f, x : files' = [files EXCEPT ![f] = x]
  BY DEF Step, TakeOptions, ParseCommandLineOptions, ReadInput, Compile, OpenCodeGen, Emit, Link,
    Load, DumpRuntime, StartDeploy, WriteOutput, Save, Write, local
<1>10. Shape'
  BY <1>1, <1>2, <1>3, <1>4, <1>5, <1>6, <1>7, <1>8, <1>9 DEF Shape, started
<1>11. ASSUME NEW q \in Procs \ {p}
       PROVE  /\ pc'[q] = pc[q] /\ flags'[q] = flags[q] /\ options'[q] = options[q]
              /\ module'[q] = module[q] /\ rtCode'[q] = rtCode[q] /\ code'[q] = code[q]
              /\ wrote'[q] = wrote[q]
  BY <1>2, <1>3, <1>4, <1>5, <1>6, <1>7, <1>8 DEF Shape
<1> QED BY <1>1, <1>10, <1>11

\* What a step does to the files.
LEMMA FilesStep ==
  ASSUME NEW p \in Procs, Step(p)
  PROVE  \/ files' = files
         \/ \E n, c : Writable(p, n, c) /\ files' = [files EXCEPT ![Path(p, n)] = c]
<1>1. CASE TakeOptions(p) \/ ParseCommandLineOptions(p) \/ ReadInput(p) \/ Load(p) \/ StartDeploy(p)
  BY <1>1 DEF TakeOptions, ParseCommandLineOptions, ReadInput, Load, StartDeploy
<1>2. CASE Compile(p)
  BY <1>2 DEF Compile, Save, Write, Writable, IRFiles
<1>3. CASE OpenCodeGen(p)
  BY <1>3 DEF OpenCodeGen, Write, Writable
<1>4. CASE Emit(p)
  BY <1>4 DEF Emit, Write, Writable
<1>5. CASE Link(p)
  BY <1>5 DEF Link, Write, Writable
<1>6. CASE DumpRuntime(p)
  BY <1>6 DEF DumpRuntime, Save, Write, Writable
<1>7. CASE WriteOutput(p)
  BY <1>7 DEF WriteOutput, Save, Write, Writable
<1> QED BY <1>1, <1>2, <1>3, <1>4, <1>5, <1>6, <1>7 DEF Step

\* What a step may write is code that verified in its directory, or IR.
LEMMA WritableKnown ==
  ASSUME Inv, NEW p \in Procs, NEW n, NEW c, Writable(p, n, c)
  PROVE  /\ n \in IRFiles => c = IR(p, module[p]) /\ module[p] \in Modules
         /\ n \notin IRFiles => VerifiedIn(cwd[p], c)
<1>0. Shape /\ DriverTypeOK /\ Control(p) /\ Known(p)
  BY DEF Inv, ProcInv
<1>1. {CodeGenFile, LinkFile, RuntimeFile, OutputFilename(p)} \intersect IRFiles = {}
  BY Names, OutputName
<1>2. VerifiedIn(cwd[p], << >>)
  BY DEF VerifiedIn
<1>3. module[p] \notin input[p] => VerifiedIn(cwd[p], Source(p))
  <2>1. CASE module[p] = "runtime"
    BY <2>1 DEF Source, Runtime, VerifiedIn
  <2>2. CASE module[p] = "deploy"
    BY <2>2 DEF Source, Deploy, VerifiedIn
  <2> QED BY <1>0, <2>1, <2>2 DEF Control, Modules
<1>4. VerifiedIn(cwd[p], files[Path(p, CodeGenFile)])
  <2>1. Path(p, CodeGenFile) \in DOMAIN files
    BY <1>0 DEF Shape, Path, FileNames, FixedNames
  <2>2. Path(p, CodeGenFile)[1] = cwd[p] /\ Path(p, CodeGenFile)[2] = CodeGenFile
    BY DEF Path
  <2> QED BY <1>0, <1>1, <2>1, <2>2 DEF DriverTypeOK, IRFiles
<1>5. VerifiedIn(cwd[p], code[p])
  BY <1>0 DEF Known
<1>6. module[p] \in Modules
  BY <1>0 DEF Control
<1> QED BY <1>1, <1>2, <1>3, <1>4, <1>5, <1>6 DEF Writable

\* Whether code verified is settled at the start.
LEMMA VerifiedKept ==
  ASSUME UNCHANGED started, NEW d, NEW c
  PROVE  VerifiedIn(d, c)' = VerifiedIn(d, c)
BY DEF started, VerifiedIn

\* The files hold code that verified, or IR.
LEMMA TypesKept ==
  ASSUME Inv, NEW p \in Procs, Step(p), \A q \in Procs : Control(q)'
  PROVE  DriverTypeOK'
<1>0. Shape /\ DriverTypeOK /\ UNCHANGED started /\ Shape'
  BY Frame DEF Inv
<1>1. ASSUME NEW q \in Procs PROVE options'[q] \subseteq PassFlags /\ flags'[q] \in {{}, argv'[q]}
  <2>1. Control(q)'
    OBVIOUS
  <2> QED BY <2>1 DEF Control
<1> DEFINE Good(f, c) == IF f[2] \in IRFiles
                         THEN c = << >> \/ \E q \in Procs, m \in Modules : c = IR(q, m)
                         ELSE VerifiedIn(f[1], c)
<1>2. \A f \in Dirs \X FileNames : Good(f, files[f])
  BY <1>0 DEF Shape, DriverTypeOK, IRFiles, Modules
<1>3. ASSUME NEW f \in Dirs \X FileNames PROVE Good(f, files'[f])
  <2>1. CASE files' = files
    BY <1>2, <2>1
  <2>2. CASE \E n, c : Writable(p, n, c) /\ files' = [files EXCEPT ![Path(p, n)] = c]
    <3>1. PICK n, c : Writable(p, n, c) /\ files' = [files EXCEPT ![Path(p, n)] = c]
      BY <2>2
    <3>2. CASE f = Path(p, n)
      <4>1. files'[f] = c
        BY <1>0, <3>1, <3>2 DEF Shape
      <4>2. f[1] = cwd[p] /\ f[2] = n
        BY <3>2 DEF Path
      <4>3. Good(f, c)
        BY <3>1, <4>2, WritableKnown
      <4> HIDE DEF Good
      <4> QED BY <4>1, <4>3
    <3>3. CASE f # Path(p, n)
      <4>1. files'[f] = files[f]
        BY <1>0, <3>1, <3>3 DEF Shape
      <4> HIDE DEF Good
      <4> QED BY <1>2, <4>1
    <3> QED BY <3>2, <3>3
  <2> QED BY <2>1, <2>2, FilesStep
<1>4. ASSUME NEW f \in DOMAIN files'
      PROVE  (IF f[2] \in IRFiles
              THEN files[f] = << >> \/ \E q \in Procs, m \in Modules : files[f] = IR(q, m)
              ELSE VerifiedIn(f[1], files[f]))'
  <2>1. f \in Dirs \X FileNames
    BY <1>0, <1>4 DEF Shape
  <2>2. Good(f, files'[f])
    BY <1>3, <2>1
  <2> QED BY <1>0, <2>2 DEF started, VerifiedIn
<1> QED BY <1>1, <1>4 DEF DriverTypeOK, IR, IRFiles, Modules

\* Another process keeps its invariant: its directory is its own, or it claims
\* nothing of the files.
LEMMA OthersInv ==
  ASSUME Inv, NEW p \in Procs, Step(p), NEW q \in Procs, q # p
  PROVE  ProcInv(q)'
<1>1. Shape /\ Control(q) /\ Faults(q) /\ Dumped(q) /\ Known(q) /\ Lone(q)
  BY DEF Inv, ProcInv
<1>2. /\ pc'[q] = pc[q] /\ flags'[q] = flags[q] /\ options'[q] = options[q]
      /\ module'[q] = module[q] /\ rtCode'[q] = rtCode[q] /\ code'[q] = code[q]
      /\ wrote'[q] = wrote[q] /\ UNCHANGED started
  BY <1>1, Frame
<1>3. Control(q)' /\ Faults(q)'
  BY <1>1, <1>2 DEF Control, Faults, started
<1>4. Dumped(q)'
  BY <1>1, <1>2 DEF Dumped, Early, started, IR
<1>5. Known(q)'
  BY <1>1, <1>2, VerifiedKept DEF Known, started, VerifiedIn
<1>6. Alone(q) => \A n \in FileNames : files'[Path(q, n)] = files[Path(q, n)]
  <2>1. SUFFICES ASSUME Alone(q), NEW n \in FileNames PROVE files'[Path(q, n)] = files[Path(q, n)]
    OBVIOUS
  <2>2. cwd[p] # cwd[q]
    BY <2>1 DEF Alone
  <2>3. \A m : Path(p, m) # Path(q, n)
    BY <2>2 DEF Path
  <2>4. Path(q, n) \in DOMAIN files
    BY <1>1 DEF Shape, Path
  <2> QED BY <2>3, <2>4, FilesStep
<1>7. Lone(q)'
  <2>1. SUFFICES ASSUME Alone(q)' PROVE Lone(q)'
    BY DEF Lone
  <2>2. Alone(q) /\ Source(q)' = Source(q) /\ OwnCode(q)' = OwnCode(q) /\ Own(q)' = Own(q)
    BY <1>2, <2>1 DEF Alone, started, Source, OwnCode, Own, Runtime, Deploy, IR
  <2>3. Path(q, CodeGenFile)' = Path(q, CodeGenFile) /\ Path(q, LinkFile)' = Path(q, LinkFile)
    BY <1>2 DEF Path, started
  <2>4. /\ files'[Path(q, CodeGenFile)] = files[Path(q, CodeGenFile)]
        /\ files'[Path(q, LinkFile)] = files[Path(q, LinkFile)]
    BY <1>6, <2>2 DEF FileNames, FixedNames
  <2> QED BY <1>1, <1>2, <2>2, <2>3, <2>4 DEF Lone, Runtime
<1> QED BY <1>3, <1>4, <1>5, <1>7 DEF ProcInv
(***************************************************************************)
(* The process that takes the step, action by action.                      *)
(***************************************************************************)

\* Up to the first module: nothing is written and nothing known.
LEMMA StartInv ==
  ASSUME Inv, NEW p \in Procs, TakeOptions(p) \/ ParseCommandLineOptions(p) \/ ReadInput(p)
  PROVE  ProcInv(p)'
<1>0. Shape /\ Control(p) /\ Faults(p) /\ Dumped(p) /\ Known(p) /\ Lone(p)
  BY DEF Inv, ProcInv
<1>1. pc[p] \in {"options", "parse", "read"} /\ module[p] = "runtime"
  BY <1>0 DEF TakeOptions, ParseCommandLineOptions, ReadInput, At, Control, Modules
<1>2. UNCHANGED <<module, wrote, rtCode, code, files>> /\ UNCHANGED started
  BY DEF TakeOptions, ParseCommandLineOptions, ReadInput, local
<1>3. Control(p)' /\ pc'[p] \in {"parse", "read", "compile", "exit1", "exitMinus1"}
      /\ (pc'[p] = "compile" => /\ "missing" \notin input[p]
                                /\ "unsplittable" \in input[p] => "runtime-input" \in argv[p])
  <2>1. CASE TakeOptions(p)
    <3>1. pc'[p] = "parse" /\ flags' = flags /\ flags[p] = {} /\ options'[p] \subseteq PassFlags
      BY <1>0, <2>1 DEF TakeOptions, At, Goto, Shape, Control
    <3> QED BY <1>1, <1>2, <3>1 DEF Control, Labels, Modules
  <2>2. CASE ParseCommandLineOptions(p)
    <3>1. pc'[p] = "read" /\ flags'[p] = argv[p] /\ options' = options
      BY <1>0, <2>2 DEF ParseCommandLineOptions, Goto, Shape
    <3> QED BY <1>0, <1>1, <1>2, <3>1 DEF Control, Labels, Modules, started
  <2>3. CASE ReadInput(p)
    <3>1. UNCHANGED <<flags, options>> /\ flags[p] = argv[p]
      BY <1>0, <2>3 DEF ReadInput, At, Control, local
    <3>2. \/ pc'[p] = "exit1" \/ pc'[p] = "exitMinus1"
          \/ /\ pc'[p] = "compile" /\ "missing" \notin input[p]
             /\ "unsplittable" \in input[p] => "runtime-input" \in argv[p]
      BY <1>0, <2>3, <3>1 DEF ReadInput, Goto, Shape
    <3> QED BY <1>0, <1>1, <1>2, <3>1, <3>2 DEF Control, Labels, Modules, started
  <2> QED BY <2>1, <2>2, <2>3
<1>4. Faults(p)'
  BY <1>0, <1>1, <1>2, <1>3 DEF Faults, started
<1>5. Dumped(p)'
  BY <1>0, <1>1, <1>2, <1>3 DEF Dumped, Early, IR, started
<1>6. Known(p)'
  BY <1>0, <1>2 DEF Known, VerifiedIn, started
<1>7. Lone(p)'
  BY <1>0, <1>2, <1>3
  DEF Lone, Alone, Path, Source, OwnCode, Own, Runtime, Deploy, IR, started
<1> QED BY <1>3, <1>4, <1>5, <1>6, <1>7 DEF ProcInv

\* A step that writes no file of its own.
LEMMA KeptWrites ==
  ASSUME Inv, NEW p \in Procs, UNCHANGED started, wrote'[p] = wrote[p],
         rtCode'[p] = rtCode[p], module'[p] = module[p], pc[p] # "exit0",
         pc'[p] \in {"write", "deploy"} \/ pc[p] \notin {"write", "deploy"}
  PROVE  Dumped(p)' /\ Own(p)' = Own(p) /\ (Alone(p)' = Alone(p))
         /\ (Source(p)' = Source(p)) /\ (OwnCode(p)' = OwnCode(p))
<1>1. Dumped(p)
  BY DEF Inv, ProcInv
<1>2. Dumped(p)'
  BY <1>1 DEF Dumped, Early, IR, started
<1> QED BY <1>2 DEF Own, Alone, Source, OwnCode, Runtime, Deploy, IR, started

\* --dump leaves the IR, and nothing else changes.
LEMMA CompileInv ==
  ASSUME Inv, NEW p \in Procs, Compile(p)
  PROVE  ProcInv(p)'
<1>0. Shape /\ Control(p) /\ Faults(p) /\ Dumped(p) /\ Known(p) /\ Lone(p)
  BY DEF Inv, ProcInv
<1> DEFINE n == IF module[p] = "runtime" THEN RtIRFile ELSE ResIRFile
<1>1. /\ pc[p] = "compile" /\ pc'[p] = "open" /\ UNCHANGED started
      /\ UNCHANGED <<flags, options, module, rtCode, code>>
  BY <1>0 DEF Compile, At, Goto, Shape
<1>2. \/ UNCHANGED <<wrote, files>>
      \/ /\ "dump" \in flags[p] /\ wrote'[p] = wrote[p] \union {<<n, IR(p, module[p])>>}
         /\ files' = [files EXCEPT ![Path(p, n)] = IR(p, module[p])]
  <2>1. \/ UNCHANGED <<wrote, files>>
        \/ "dump" \in flags[p] /\ Save(p, n, IR(p, module[p]))
    BY DEF Compile
  <2> QED BY <1>0, <2>1 DEF Save, Write, Shape
<1>3. n \in IRFiles /\ module[p] \in Modules /\ flags[p] = argv[p]
  BY <1>0, <1>1 DEF Control, IRFiles
<1>4. \A o \in wrote'[p] :
        \/ o \in wrote[p]
        \/ o = <<n, IR(p, module[p])>> /\ "dump" \in argv[p]
  BY <1>2, <1>3
<1>5. Control(p)'
  BY <1>0, <1>1 DEF Control, Labels, started
<1>6. Faults(p)'
  BY <1>0, <1>1 DEF Faults, started
<1>7. Dumped(p)'
  <2>1. \A o \in wrote[p] : Early(p, o)
    BY <1>0, <1>1 DEF Dumped
  <2>2. ASSUME NEW o \in wrote'[p] PROVE Early(p, o)
    <3>1. CASE o \in wrote[p]
      BY <2>1, <3>1
    <3>2. CASE o = <<n, IR(p, module[p])>> /\ "dump" \in argv[p]
      BY <1>3, <3>2 DEF Early, Modules
    <3> QED BY <1>4, <3>1, <3>2
  <2>3. \A o \in wrote'[p] : Early(p, o)'
    BY <1>1, <2>2 DEF Early, IR, started
  <2> QED BY <2>3 DEF Dumped
<1>8. Known(p)'
  <2>1. \A o \in wrote'[p] : o[1] \notin IRFiles => VerifiedIn(cwd[p], o[2])
    <3>1. SUFFICES ASSUME NEW o \in wrote'[p], o[1] \notin IRFiles PROVE VerifiedIn(cwd[p], o[2])
      OBVIOUS
    <3>2. o \in wrote[p]
      BY <1>3, <1>4, <3>1
    <3> QED BY <1>0, <3>1, <3>2 DEF Known
  <2> QED BY <1>0, <1>1, <2>1 DEF Known, VerifiedIn, started
<1>9. Lone(p)'
  <2>1. SUFFICES ASSUME Alone(p) PROVE Lone(p)'
    BY <1>1 DEF Lone, Alone, started
  <2>2. files'[Path(p, LinkFile)] = files[Path(p, LinkFile)]
    <3>1. Path(p, LinkFile) # Path(p, n) /\ Path(p, LinkFile) \in DOMAIN files
      BY <1>0, <1>3, Names DEF Path, Shape, FileNames, FixedNames
    <3> QED BY <1>2, <3>1
  <2>3. IR(p, module[p]) \in Own(p)
    BY <1>0, <1>3 DEF Own, Control, Modules
  <2>4. \A o \in wrote'[p] : o[2] \in Own(p)
    <3>1. \A o \in wrote[p] : o[2] \in Own(p)
      BY <1>0, <2>1 DEF Lone
    <3> QED BY <1>4, <2>3, <3>1
  <2>5. Own(p)' = Own(p) /\ OwnCode(p)' = OwnCode(p) /\ Path(p, LinkFile)' = Path(p, LinkFile)
    BY <1>1 DEF Own, OwnCode, Path, Runtime, Deploy, IR, started
  <2> QED BY <1>0, <1>1, <2>1, <2>2, <2>4, <2>5 DEF Lone, Runtime
<1> QED BY <1>5, <1>6, <1>7, <1>8, <1>9 DEF ProcInv

\* codeGenModule up to its object file.
LEMMA EmitInv ==
  ASSUME Inv, NEW p \in Procs, OpenCodeGen(p) \/ Emit(p)
  PROVE  ProcInv(p)'
<1>0. Shape /\ Control(p) /\ Faults(p) /\ Dumped(p) /\ Known(p) /\ Lone(p)
  BY DEF Inv, ProcInv
<1>1. /\ pc[p] \in {"open", "emit"} /\ UNCHANGED started
      /\ UNCHANGED <<flags, options, module, rtCode, wrote>> /\ (code'[p] = code[p] \/ code'[p] = << >>)
  BY <1>0 DEF OpenCodeGen, Emit, local, At, Shape
<1>2. \/ pc'[p] = "emit"
      \/ pc'[p] = Returned(p) /\ code'[p] = << >>
      \/ pc'[p] = "exitMinus1" /\ module[p] \in input[p]
      \/ pc'[p] = "link" /\ module[p] \notin input[p] /\ files'[Path(p, CodeGenFile)] = Source(p)
  <2>1. Path(p, CodeGenFile) \in DOMAIN files
    BY <1>0 DEF Path, Shape, FileNames, FixedNames
  <2> QED BY <1>0, <2>1 DEF OpenCodeGen, Emit, Goto, Write, Shape
<1>3. Returned(p) = IF module[p] = "runtime" THEN "dump" ELSE "write"
  BY DEF Returned
<1>4. Control(p)'
  BY <1>0, <1>1, <1>2, <1>3 DEF Control, Labels, Modules, started
<1>5. Faults(p)'
  BY <1>0, <1>1, <1>2, <1>3 DEF Faults, Control, Modules, started
<1>6. Dumped(p)' /\ Own(p)' = Own(p) /\ (Alone(p)' = Alone(p))
      /\ (Source(p)' = Source(p)) /\ (OwnCode(p)' = OwnCode(p))
  BY <1>1, KeptWrites
<1>7. Known(p)'
  BY <1>0, <1>1 DEF Known, VerifiedIn, started
<1>8. files'[Path(p, LinkFile)] = files[Path(p, LinkFile)]
  <2>1. Path(p, LinkFile) # Path(p, CodeGenFile) /\ Path(p, LinkFile) \in DOMAIN files
    BY <1>0, Names DEF Path, Shape, FileNames, FixedNames
  <2> QED BY <2>1 DEF OpenCodeGen, Emit, Write
<1>9. Lone(p)'
  <2>1. /\ Path(p, LinkFile)' = Path(p, LinkFile) /\ Path(p, CodeGenFile)' = Path(p, CodeGenFile)
        /\ << >> \in OwnCode(p)
        /\ pc'[p] = "link" => files'[Path(p, CodeGenFile)] = Source(p)
    BY <1>1, <1>2, <1>3 DEF Path, OwnCode, started
  <2> QED BY <1>0, <1>1, <1>6, <1>8, <2>1 DEF Lone, Runtime
<1> QED BY <1>4, <1>5, <1>6, <1>7, <1>9 DEF ProcInv

\* Linking it and reading the result back.
LEMMA LinkInv ==
  ASSUME Inv, NEW p \in Procs, Link(p) \/ Load(p)
  PROVE  ProcInv(p)'
<1>0. Shape /\ DriverTypeOK /\ Control(p) /\ Faults(p) /\ Dumped(p) /\ Known(p) /\ Lone(p)
  BY DEF Inv, ProcInv
<1>1. /\ pc[p] \in {"link", "load"} /\ UNCHANGED started
      /\ UNCHANGED <<flags, options, module, rtCode, wrote>>
  BY DEF Link, Load, local, At
<1>2. /\ module[p] \notin input[p] /\ module[p] \in Modules
      /\ "missing" \notin input[p] /\ ("unsplittable" \in input[p] => "runtime-input" \in argv[p])
  BY <1>0, <1>1 DEF Faults, Control
<1>3. Path(p, LinkFile) \in DOMAIN files /\ Path(p, LinkFile)[1] = cwd[p] /\ Path(p, LinkFile)[2] = LinkFile
      /\ Path(p, LinkFile)' = Path(p, LinkFile) /\ Path(p, CodeGenFile)' = Path(p, CodeGenFile)
  BY <1>0, <1>1 DEF Path, Shape, FileNames, FixedNames, started
<1>4. /\ pc'[p] = IF pc[p] = "link" THEN "load" ELSE IF module[p] = "runtime" THEN "dump" ELSE "write"
      /\ code'[p] = code[p] \/ (code'[p] = files[Path(p, LinkFile)] /\ files' = files)
      /\ \/ files'[Path(p, LinkFile)] = files[Path(p, LinkFile)]
         \/ pc[p] = "link" /\ files'[Path(p, LinkFile)] = files[Path(p, CodeGenFile)]
  BY <1>0, <1>3 DEF Link, Load, Goto, At, Returned, Shape, local, Write
<1>5. Control(p)'
  BY <1>0, <1>1, <1>2, <1>4 DEF Control, Labels, Modules, started
<1>6. Faults(p)'
  BY <1>0, <1>1, <1>2, <1>4 DEF Faults, Modules, started
<1>7. Dumped(p)' /\ Own(p)' = Own(p) /\ (Alone(p)' = Alone(p))
      /\ (Source(p)' = Source(p)) /\ (OwnCode(p)' = OwnCode(p))
  BY <1>1, KeptWrites
<1>8. VerifiedIn(cwd[p], files[Path(p, LinkFile)])
  BY <1>0, <1>3, Names DEF DriverTypeOK, IRFiles
<1>9. Known(p)'
  BY <1>0, <1>1, <1>4, <1>8 DEF Known, VerifiedIn, started
<1>10. Lone(p)'
  <2>1. SUFFICES ASSUME Alone(p) PROVE Lone(p)'
    BY <1>7 DEF Lone
  <2>2. Source(p) \in OwnCode(p)
    BY <1>0, <1>2, <2>1 DEF Lone, Source, OwnCode, Modules
  <2>3. files'[Path(p, LinkFile)] \in OwnCode(p) /\ code'[p] \in OwnCode(p)
    BY <1>0, <1>4, <2>1, <2>2 DEF Lone
  <2>4. pc'[p] # "link"
    BY <1>4
  <2> QED BY <1>0, <1>1, <1>3, <1>7, <2>1, <2>3, <2>4 DEF Lone, Runtime
<1> QED BY <1>5, <1>6, <1>7, <1>9, <1>10 DEF ProcInv

\* What main saves: one more file of its own, or nothing.
LEMMA Saved ==
  ASSUME Inv, NEW p \in Procs, NEW n, NEW c, Save(p, n, c) \/ UNCHANGED <<files, wrote>>,
         n \notin {CodeGenFile, LinkFile}
  PROVE  /\ \A o \in wrote'[p] : o \in wrote[p] \/ (o = <<n, c>> /\ Save(p, n, c))
         /\ files'[Path(p, LinkFile)] = files[Path(p, LinkFile)]
<1>0. Shape
  BY DEF Inv
<1>1. Path(p, LinkFile) # Path(p, n) /\ Path(p, LinkFile) \in DOMAIN files
  BY <1>0 DEF Path, Shape, FileNames, FixedNames
<1>2. CASE UNCHANGED <<files, wrote>>
  BY <1>2
<1>3. CASE Save(p, n, c) /\ ~UNCHANGED <<files, wrote>>
  <2>1. wrote' = [wrote EXCEPT ![p] = @ \union {<<n, c>>}] /\ Write(p, n, c)
    BY <1>3 DEF Save
  <2>2. wrote'[p] = wrote[p] \union {<<n, c>>}
    BY <1>0, <2>1 DEF Shape
  <2> QED BY <1>1, <1>3, <2>1, <2>2 DEF Write
<1> QED BY <1>2, <1>3

\* After the runtime module main dumps, ends, writes or goes on.
LEMMA DumpInv ==
  ASSUME Inv, NEW p \in Procs, DumpRuntime(p)
  PROVE  ProcInv(p)'
<1>0. Shape /\ Control(p) /\ Faults(p) /\ Dumped(p) /\ Known(p) /\ Lone(p)
  BY DEF Inv, ProcInv
<1>1. /\ pc[p] = "dump" /\ UNCHANGED started /\ UNCHANGED <<flags, options, module, code>>
      /\ rtCode'[p] = code[p]
  BY <1>0 DEF DumpRuntime, At, Shape
<1>2. /\ module[p] = "runtime" /\ flags[p] = argv[p] /\ ("runtime" \notin input[p] \/ code[p] = << >>)
      /\ "missing" \notin input[p] /\ ("unsplittable" \in input[p] => "runtime-input" \in argv[p])
  BY <1>0, <1>1 DEF Control, Faults, Modules
<1>3. /\ files'[Path(p, LinkFile)] = files[Path(p, LinkFile)]
      /\ \A o \in wrote'[p] :
           \/ o \in wrote[p]
           \/ o = <<RuntimeFile, code[p]>> /\ "dump" \in argv[p]
  <2>1. CASE "dump" \in flags[p]
    <3>1. Save(p, RuntimeFile, code[p])
      BY <2>1 DEF DumpRuntime
    <3> QED BY <1>2, <2>1, <3>1, Names, Saved
  <2>2. CASE "dump" \notin flags[p]
    BY <2>2 DEF DumpRuntime
  <2> QED BY <2>1, <2>2
<1>4. \/ pc'[p] = "write" /\ "runtime-input" \in argv[p]
      \/ pc'[p] = "exit0" /\ "onlyRt" \in argv[p]
      \/ pc'[p] = "deploy" /\ argv[p] \intersect NoDeploy = {}
  <2>1. CASE "runtime-input" \in argv[p]
    BY <1>0, <1>2, <2>1 DEF DumpRuntime, Goto, Shape
  <2>2. CASE "runtime-input" \notin argv[p] /\ "onlyRt" \in argv[p]
    BY <1>0, <1>2, <2>2 DEF DumpRuntime, Goto, Shape, NoDeploy
  <2>3. CASE "runtime-input" \notin argv[p] /\ "onlyRt" \notin argv[p]
    BY <1>0, <1>2, <2>3 DEF DumpRuntime, Goto, Shape, NoDeploy
  <2> QED BY <2>1, <2>2, <2>3
<1>5. Control(p)'
  BY <1>0, <1>1, <1>2, <1>4 DEF Control, Labels, Modules, started, NoDeploy
<1>6. Faults(p)'
  BY <1>1, <1>2, <1>4 DEF Faults, started
<1>7. Dumped(p)'
  <2>1. SUFFICES ASSUME pc'[p] # "exit0", NEW o \in wrote'[p] PROVE Early(p, o)'
    BY DEF Dumped
  <2>2. CASE o \in wrote[p]
    <3>1. Early(p, o)
      BY <1>0, <1>1, <2>2 DEF Dumped
    <3>2. o = <<RtIRFile, IR(p, "runtime")>> /\ "dump" \in argv[p]
      BY <1>1, <1>2, <3>1 DEF Early
    <3> QED BY <1>1, <3>2 DEF Early, IR, started
  <2>3. CASE o = <<RuntimeFile, code[p]>> /\ "dump" \in argv[p]
    BY <1>1, <1>4, <2>1, <2>3 DEF Early, started
  <2> QED BY <1>3, <2>2, <2>3
<1>8. Known(p)'
  <2>1. \A o \in wrote'[p] : o[1] \notin IRFiles => VerifiedIn(cwd[p], o[2])
    BY <1>0, <1>3 DEF Known
  <2> QED BY <1>0, <1>1, <2>1 DEF Known, VerifiedIn, started
<1>9. Lone(p)'
  <2>1. SUFFICES ASSUME Alone(p) PROVE Lone(p)'
    BY <1>1 DEF Lone, Alone, started
  <2>2. code[p] \in {<< >>, Runtime(p)}
    BY <1>0, <1>2, <2>1 DEF Lone, OwnCode
  <2>3. \A o \in wrote'[p] : o[2] \in Own(p)
    <3>1. \A o \in wrote[p] : o[2] \in Own(p)
      BY <1>0, <2>1 DEF Lone
    <3>2. code[p] \in Own(p)
      BY <2>2 DEF Own
    <3> QED BY <1>3, <3>1, <3>2
  <2>4. Own(p)' = Own(p) /\ OwnCode(p)' = OwnCode(p) /\ Path(p, LinkFile)' = Path(p, LinkFile)
    BY <1>1 DEF Own, OwnCode, Path, Runtime, Deploy, IR, started
  <2> QED BY <1>0, <1>1, <1>3, <1>4, <2>1, <2>2, <2>3, <2>4 DEF Lone, Runtime
<1> QED BY <1>5, <1>6, <1>7, <1>8, <1>9 DEF ProcInv

\* The deploy module.
LEMMA DeployInv ==
  ASSUME Inv, NEW p \in Procs, StartDeploy(p)
  PROVE  ProcInv(p)'
<1>0. Shape /\ Control(p) /\ Faults(p) /\ Dumped(p) /\ Known(p) /\ Lone(p)
  BY DEF Inv, ProcInv
<1>1. /\ module'[p] = "deploy" /\ pc[p] = "deploy" /\ pc'[p] = "compile" /\ UNCHANGED started
      /\ UNCHANGED <<flags, options, rtCode, code, wrote, files>>
  BY <1>0 DEF StartDeploy, At, Goto, Shape
<1>2. module[p] = "runtime"
  BY <1>0, <1>1 DEF Control, Modules
<1>3. Control(p)'
  BY <1>0, <1>1 DEF Control, Labels, Modules, started
<1>4. Faults(p)'
  BY <1>0, <1>1 DEF Faults, started
<1>5. Dumped(p)'
  BY <1>0, <1>1 DEF Dumped, Early, IR, started
<1>6. Known(p)'
  BY <1>0, <1>1 DEF Known, VerifiedIn, started
<1>7. Lone(p)'
  <2>1. /\ Alone(p)' = Alone(p) /\ Own(p)' = Own(p) /\ Path(p, LinkFile)' = Path(p, LinkFile)
    BY <1>1 DEF Alone, Own, Path, Runtime, Deploy, IR, started
  <2>2. OwnCode(p) \subseteq OwnCode(p)'
    BY <1>1, <1>2 DEF OwnCode, Runtime, Deploy, started
  <2> QED BY <1>0, <1>1, <2>1, <2>2 DEF Lone, Runtime
<1> QED BY <1>3, <1>4, <1>5, <1>6, <1>7 DEF ProcInv

\* The output.
LEMMA WriteInv ==
  ASSUME Inv, NEW p \in Procs, WriteOutput(p)
  PROVE  ProcInv(p)'
<1>0. Shape /\ Control(p) /\ Faults(p) /\ Dumped(p) /\ Known(p) /\ Lone(p)
  BY DEF Inv, ProcInv
<1>1. /\ pc[p] = "write" /\ pc'[p] = "exit0" /\ UNCHANGED started
      /\ UNCHANGED <<flags, options, module, rtCode, code>> /\ Save(p, OutputFilename(p), code[p])
  BY <1>0 DEF WriteOutput, At, Goto, Shape, local
<1>2. module[p] \in Modules /\ (module[p] = "runtime" => argv[p] \intersect NoDeploy # {})
  BY <1>0, <1>1 DEF Control, NoDeploy
<1>3. /\ files'[Path(p, LinkFile)] = files[Path(p, LinkFile)]
      /\ \A o \in wrote'[p] : o \in wrote[p] \/ o = <<OutputFilename(p), code[p]>>
  <2>1. OutputFilename(p) \notin {CodeGenFile, LinkFile}
    BY OutputName
  <2> QED BY <1>1, <2>1, Saved
<1>4. Control(p)'
  BY <1>0, <1>1, <1>2 DEF Control, Labels, started
<1>5. Faults(p)'
  BY <1>0, <1>1 DEF Faults, started
<1>6. Dumped(p)'
  BY <1>1 DEF Dumped
<1>7. Known(p)'
  <2>1. \A o \in wrote'[p] : o[1] \notin IRFiles => VerifiedIn(cwd[p], o[2])
    BY <1>0, <1>3 DEF Known
  <2> QED BY <1>0, <1>1, <2>1 DEF Known, VerifiedIn, started
<1>8. Lone(p)'
  <2>1. SUFFICES ASSUME Alone(p) PROVE Lone(p)'
    BY <1>1 DEF Lone, Alone, started
  <2>2. code[p] \in Own(p)
    BY <1>0, <1>2, <2>1 DEF Lone, OwnCode, Own, Control, Modules
  <2>3. \A o \in wrote'[p] : o[2] \in Own(p)
    <3>1. \A o \in wrote[p] : o[2] \in Own(p)
      BY <1>0, <2>1 DEF Lone
    <3> QED BY <1>3, <2>2, <3>1
  <2>4. Own(p)' = Own(p) /\ OwnCode(p)' = OwnCode(p) /\ Path(p, LinkFile)' = Path(p, LinkFile)
    BY <1>1 DEF Own, OwnCode, Path, Runtime, Deploy, IR, started
  <2> QED BY <1>0, <1>1, <1>3, <2>1, <2>3, <2>4 DEF Lone, Runtime
<1> QED BY <1>4, <1>5, <1>6, <1>7, <1>8 DEF ProcInv

\* Every step keeps the invariant.
LEMMA StepInv == Inv /\ [DriverNext]_driverVars => Inv'
<1> SUFFICES ASSUME Inv, [DriverNext]_driverVars PROVE Inv'
  OBVIOUS
<1>1. CASE UNCHANGED driverVars
  <2>0. UNCHANGED <<pc, flags, options, module, rtCode, code, wrote, files>> /\ UNCHANGED started
    BY <1>1 DEF driverVars, local
  <2>1. Shape' /\ DriverTypeOK'
    BY <2>0 DEF started, Inv, Shape, DriverTypeOK, VerifiedIn, IR
  <2>2. ASSUME NEW p \in Procs PROVE ProcInv(p)'
    <3>1. ProcInv(p)
      BY DEF Inv
    <3>2. Control(p)' /\ Faults(p)' /\ Dumped(p)' /\ Known(p)'
      BY <2>0, <3>1 DEF started, ProcInv, Control, Faults, Dumped, Early, IR, Known, VerifiedIn
    <3>3. Lone(p)'
      BY <2>0, <3>1
      DEF started, ProcInv, Lone, Alone, Path, Source, Own, OwnCode, Runtime, Deploy, IR
    <3> QED BY <3>2, <3>3 DEF ProcInv
  <2> QED BY <2>1, <2>2 DEF Inv
<1>2. ASSUME NEW p \in Procs, Step(p) PROVE Inv'
  <2>1. ProcInv(p)'
    BY <1>2, StartInv, CompileInv, EmitInv, LinkInv, DumpInv, DeployInv, WriteInv DEF Step
  <2>2. \A q \in Procs : q # p => ProcInv(q)'
    BY <1>2, OthersInv
  <2>3. \A q \in Procs : Control(q)'
    BY <2>1, <2>2 DEF ProcInv
  <2>4. Shape' /\ DriverTypeOK'
    BY <1>2, <2>3, Frame, TypesKept DEF Inv
  <2> QED BY <2>1, <2>2, <2>4 DEF Inv
<1> QED BY <1>1, <1>2 DEF DriverNext, Done

\* Every process starts at the top of main, in directories without files.
LEMMA InitInv == DriverInit => Inv
<1> SUFFICES ASSUME DriverInit PROVE Inv
  OBVIOUS
<1>1. Shape
  BY DEF DriverInit, Shape, FileNames
<1>2. DriverTypeOK
  BY DEF DriverInit, DriverTypeOK, VerifiedIn
<1>3. ASSUME NEW p \in Procs PROVE ProcInv(p)
  <2>1. /\ pc[p] = "options" /\ module[p] = "runtime" /\ flags[p] = {} /\ options[p] = {}
        /\ wrote[p] = {} /\ code[p] = << >> /\ rtCode[p] = << >>
    BY DEF DriverInit
  <2>2. files[Path(p, LinkFile)] = << >>
    BY DEF DriverInit, Path, FixedNames
  <2> QED
    BY <2>1, <2>2
    DEF ProcInv, Control, Faults, Dumped, Known, VerifiedIn, Lone, OwnCode, Labels, Modules
<1> QED BY <1>1, <1>2, <1>3 DEF Inv

\* A process that failed has not got to its output.
LEMMA InvFailure == Inv => FailureWritesNothing
<1> SUFFICES ASSUME Inv, NEW p \in Procs, pc[p] \in {"exit1", "exitMinus1"}, NEW o \in wrote[p]
             PROVE  /\ "dump" \in argv[p] /\ o[1] # OutputFilename(p)
                    /\ \/ input[p] \intersect {"missing", "unsplittable"} = {}
                       \/ "runtime-input" \in argv[p]
                    /\ \/ o = <<RtIRFile, IR(p, "runtime")>>
                       \/ /\ "deploy" \in input[p]
                          /\ o \in {<<RuntimeFile, rtCode[p]>>, <<ResIRFile, IR(p, "deploy")>>}
  BY DEF FailureWritesNothing
<1>0. Control(p) /\ Faults(p) /\ Dumped(p)
  BY DEF Inv, ProcInv
<1>1. Early(p, o)
  BY <1>0 DEF Dumped
<1>2. "missing" \notin input[p] /\ ("unsplittable" \in input[p] => "runtime-input" \in argv[p])
  BY <1>0 DEF Faults
<1>3. CASE o = <<RtIRFile, IR(p, "runtime")>>
  <2>1. o[1] \in IRFiles
    BY <1>3 DEF IRFiles
  <2> QED BY <1>1, <1>2, <1>3, <2>1, OutputName DEF Early
<1>4. CASE o # <<RtIRFile, IR(p, "runtime")>>
  <2>1. /\ module[p] = "deploy" /\ "dump" \in argv[p]
        /\ o = <<RuntimeFile, rtCode[p]>> \/ o = <<ResIRFile, IR(p, "deploy")>>
    BY <1>1, <1>4 DEF Early
  <2>2. "deploy" \in input[p] /\ flags[p] = argv[p] /\ "runtime-input" \notin argv[p]
    BY <1>0, <2>1 DEF Control, Faults, NoDeploy
  <2>3. OutputFilename(p) \notin {RuntimeFile} \union IRFiles
    <3>1. OutputFilename(p) \in {p, ResFile}
      BY <2>2 DEF OutputFilename
    <3>2. RuntimeFile # p /\ RuntimeFile # ResFile
      BY Names DEF FixedNames
    <3> QED BY <3>1, <3>2, OutputName
  <2>4. o[1] \in {RuntimeFile} \union IRFiles
    BY <2>1 DEF IRFiles
  <2> QED BY <1>2, <2>1, <2>2, <2>3, <2>4
<1> QED BY <1>3, <1>4

\* A process that succeeded got past every check, or has no code.
LEMMA InvSuccess == Inv => FaultsReported
<1> SUFFICES ASSUME Inv, NEW p \in Procs, pc[p] = "exit0"
             PROVE  /\ "missing" \notin input[p]
                    /\ "unsplittable" \in input[p] => "runtime-input" \in argv[p]
                    /\ "runtime" \in input[p] => rtCode[p] = << >>
                    /\ "deploy" \in input[p] => code[p] = << >> \/ argv[p] \intersect NoDeploy # {}
  BY DEF FaultsReported
<1>0. Control(p) /\ Faults(p)
  BY DEF Inv, ProcInv
<1>1. module[p] = "deploy" \/ argv[p] \intersect NoDeploy # {}
  BY <1>0 DEF Control, Modules
<1> QED BY <1>0, <1>1 DEF Faults

\* Both properties follow from where main has been.
LEMMA InvTells == Inv => ExitCodeTells /\ OutputIsOwn
<1> SUFFICES ASSUME Inv PROVE ExitCodeTells /\ OutputIsOwn
  OBVIOUS
<1>1. OutputIsOwn
  <2>1. ASSUME NEW p \in Procs PROVE Known(p) /\ Lone(p)
    BY DEF Inv, ProcInv
  <2> QED BY <2>1 DEF OutputIsOwn, Known, Lone, IRFiles
<1> QED BY <1>1, InvFailure, InvSuccess DEF ExitCodeTells, Inv

\* The invariant holds however the processes are interleaved.
LEMMA Invariance == DriverSpec => []Inv
BY InitInv, StepInv, PTL DEF DriverSpec

\* For any number of processes and directories, whichever files fail to open and
\* links fail: failure leaves the output alone, and success with code is reported
\* for translatable input only.
THEOREM ExitCodeCorrect == DriverSpec => []ExitCodeTells
<1> QED BY Invariance, InvTells, PTL

\* For any number of processes and directories, whichever files fail to open and
\* links fail: a process alone in its directory writes nothing that is not its
\* own, and one that is not, nothing that did not verify there.
THEOREM OutputCorrect == DriverSpec => []OutputIsOwn
<1> QED BY Invariance, InvTells, PTL
=============================================================================
