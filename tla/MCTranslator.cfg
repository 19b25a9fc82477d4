SPECIFICATION MCSpec
CONSTANTS
  NumBlocks = 3
  Contracts <- MCContracts
  OptionSets <- MCOptionSets
  Libraries <- MCLibraries
  MaxDepth = 4
  MaxWrites = 2
  Extra = {"selfDestruct", "callDelegate", "callCode", "callStatic", "create", "create2"}
  p1 = p1
  p2 = p2
  d1 = d1
  d2 = d2
  Procs = {p1, p2}
  Dirs = {d1, d2}
  Argvs <- MCArgvs
  Inputs <- MCInputs
INVARIANTS
  ChecksHold
  DetectExact
  GuardExcludes
  NoStaleWrite
  MutexReleased
  ExitCodeTells
  OutputIsOwn
SYMMETRY MCSymmetry
CHECK_DEADLOCK FALSE
