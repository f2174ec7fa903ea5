\* Two threads attach, detach, fork in every way, map and unmap behind the layer's back.
SPECIFICATION AttSpec
CONSTANTS
  NoProc = NoProc
  Procs = {q1, q2}
  Threads = {t1, t2, t3}
  Root = q1
  RootThreads = {t1, t2}
  s1 = s1
  s2 = s2
  Segs = {s1, s2}
  SegLen <- MCLen
  Pages <- MCPages
  MaxAtt = 2
  MaxCalls = 3
  MaxActs = 1
  MaxDeeds = 4
  Meddlers = {q1}
INVARIANTS GateSound TableTrue DetachRight
PROPERTIES GateKept UnmapsOwn ExecDetaches
CHECK_DEADLOCK FALSE
