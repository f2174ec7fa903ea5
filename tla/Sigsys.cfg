\* One process: two new images or identities, two handlers deep.
SPECIFICATION Spec
CONSTANTS
  Ids = {0, 1, 2}
  MaxGroups = 2
  FakeUid = 0
  FakeGid = 1
  Word = 4
  OuterTraps <- HostTraps
  Ranges <- ImageRanges
  Away <- Elsewhere
  Hosts = {TRUE, FALSE}
  Handlers = {"dfl", "fn"}
  Args = {2}
  MaxFrames = 2
  MaxChanges = 2
INVARIANTS TrapsSound OwnHandler NothingSlipsBy OneIdentity
CHECK_DEADLOCK FALSE
