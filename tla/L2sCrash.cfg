\* Nobody starts enabled: link, stat and rename turn the layer on; processes
\* are killed, and a call is refused, at every point of L2sCrashSafe.
SPECIFICATION Spec
CONSTANTS
  n1 = n1
  n2 = n2
  n3 = n3
  d1 = d1
  d2 = d2
  NoName = NoName
  Names = {n1, n2, n3}
  Bases = {n1, n2, n3}
  BaseOf <- OwnBase
  Data = {d1, d2}
  Procs = {p1, p2}
  MaxGen = 1
  MaxCount = 3
  InitDir <- OneFile
  InitEnabled = {}
  Ops = {"link", "unlink", "rename", "stat"}
  Exclusive = TRUE
  FaultAt <- CallSteps
  MaxFaults = 1
  CrashAt <- CrashSteps
  MaxCrashes = 2
  TornAt <- AllCounts
INVARIANTS CrashSafe
CHECK_DEADLOCK FALSE
