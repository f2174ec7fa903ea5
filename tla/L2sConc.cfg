\* Three processes; guests never work on one name at the same time.
SPECIFICATION Spec
CONSTANTS
  n1 = n1
  n2 = n2
  n3 = n3
  d1 = d1
  d2 = d2
  NoName = NoName
  Names = {n1, n2, n3}
  Bases = {n1, n2, n3}
  BaseOf <- OwnBase
  Data = {d1, d2}
  Procs = {p1, p2, p3}
  MaxGen = 1
  MaxCount = 4
  InitDir <- OneFile
  InitEnabled = {p1, p2, p3}
  Ops = {"link", "unlink", "rename"}
  Exclusive = TRUE
  FaultAt = {}
  MaxFaults = 0
  CrashAt = {}
  MaxCrashes = 0
  TornAt = {}
INVARIANTS Consistent
PROPERTIES Refinement
CHECK_DEADLOCK FALSE
