\* One process, every operation, link() refused at any two calls.
SPECIFICATION Spec
CONSTANTS
  n1 = n1
  n2 = n2
  n3 = n3
  d1 = d1
  d2 = d2
  NoName = NoName
  Names = {n1, n2, n3}
  Bases = {n1, n2, n3}
  BaseOf <- OwnBase
  Data = {d1, d2}
  Procs = {p1}
  MaxGen = 2
  MaxCount = 4
  InitDir <- TwoFiles
  InitEnabled = {p1}
  Ops = {"create", "link", "unlink", "rename", "noreplace", "exchange", "stat"}
  Exclusive = TRUE
  FaultAt <- LinkSteps
  MaxFaults = 2
  CrashAt = {}
  MaxCrashes = 0
  TornAt = {}
INVARIANTS Consistent
PROPERTIES Refinement NothingOverwritten
