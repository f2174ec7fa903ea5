\* Two threads, five colliding files in a table of four slots.
SPECIFICATION Spec
CONSTANTS
  k1 = k1
  k2 = k2
  k3 = k3
  k4 = k4
  k5 = k5
  u1 = u1
  g1 = g1
  t1 = t1
  t2 = t2
  Threads = {t1, t2}
  Keys = {k1, k2, k3, k4, k5}
  Ids = {u1, g1}
  Unset = Unset
  Calls <- TwoGuests
  Cap = 4
  Home <- Collisions
  LoadPercent = 75
  EvictBatch = 2
  Empty = Empty
  Tomb = Tomb
  Nowhere = Nowhere
  NoKey = NoKey
  MaxRefused = 1
INVARIANTS OneInside TableSound
PROPERTIES Refinement CriticalEnds
CHECK_DEADLOCK FALSE
