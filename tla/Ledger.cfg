\* Every call; an allocation may be refused.  The process may exit.
SPECIFICATION Spec
CONSTANTS
  NoThread = NoThread
  NoPid = NoPid
  t1 = t1
  Threads = {t1, t2}
  Pids = {p1, p2}
  Old = 1
  InitCap = 4
  MaxCap = 8
  Ops <- EveryOp
  Refusable = {"compact", "grow"}
INVARIANTS LedgerSound NoStranger OwnKillable
PROPERTIES CallsReturn
CHECK_DEADLOCK FALSE
