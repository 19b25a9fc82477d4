SPECIFICATION DriverSpec
CONSTANTS
  p1 = p1
  p2 = p2
  d1 = d1
  d2 = d2
  Procs = {p1}
  Dirs = {d1}
  Argvs <- MCHardeningArgvs
  Inputs <- MCGoodInputs
INVARIANTS
  RequestedPassesRun
