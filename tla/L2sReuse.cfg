\* One basename in use twice: two names whose chains share their paths.
SPECIFICATION Spec
CONSTANTS
  n1 = n1
  n2 = n2
  n3 = n3
  d1 = d1
  d2 = d2
  NoName = NoName
  Names = {n1, n2, n3}
  Bases = {n1, n2, n3}
  BaseOf <- OwnBase
  Data = {d1, d2}
  Procs = {p1, p2}
  MaxGen = 2
  MaxCount = 3
  InitDir <- TwoFiles
  InitEnabled = {p1, p2}
  Ops = {"create", "link", "unlink", "rename"}
  Exclusive = TRUE
  FaultAt = {}
  MaxFaults = 0
  CrashAt = {}
  MaxCrashes = 0
  TornAt = {}
PROPERTY NewChainSafe
