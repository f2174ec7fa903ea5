\* Two processes get and remove segments by key; a call is refused and a
\* process is killed.
SPECIFICATION OneRuns
CONSTANTS
  p1 = p1
  NoProc = NoProc
  NoKey = NoKey
  NoId = NoId
  Nothing = Nothing
  Failed = Failed
  EEXIST = EEXIST
  ENOENT = ENOENT
  Procs = {p1, p2}
  Keys = {k1, k2}
  Ids = {i1, i2, i3}
  Ops = {"get", "rmid"}
  MaxFaults = 1
  MaxCrashes = 1
INVARIANTS IdsSound NoOrphan
PROPERTIES NeverReborn Refinement OneReturns
