\* Keyed and private segments beside the official runtime; calls are refused.
SPECIFICATION Spec
CONSTANTS
  p1 = p1
  NoProc = NoProc
  NoKey = NoKey
  NoId = NoId
  Nothing = Nothing
  Failed = Failed
  EEXIST = EEXIST
  ENOENT = ENOENT
  Procs = {p1, p2}
  Keys = {k1}
  Ids = {i1, i2, i3}
  Ops = {"get", "private", "official"}
  MaxFaults = 2
  MaxCrashes = 0
PROPERTIES Refinement
