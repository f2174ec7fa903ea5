\* One process, two binds, two changes, any number of chdir and opendir.
SPECIFICATION Spec
CONSTANTS
  Rootfs <- R
  Binds <- BindList
  TmpBase <- Tmp
  Compat <- NoCompat
  GuestExe <- Exe
  NoFd <- NoDirectory
  Tree0 <- Host0
  Cwd0 <- RA
  HostExe <- Loader
  Paths <- Used
  Probes <- Args
  Texts <- LinkTexts
  ShmNames = {"f"}
  MaxOps = 2
INVARIANTS CallsReachTheMeant ChangesHitTheMeant ChangesStayInside ReadOnlyByName NamesHold
CHECK_DEADLOCK FALSE
