\* A launch and two starts after it; one environment changed or refused on the way.
SPECIFICATION Spec
CONSTANTS
  sh = sh
  app = app
  st = st
  ln = ln
  lns = lns
  scr = scr
  scr2 = scr2
  scrl = scrl
  scrs = scrs
  loop = loop
  ldr = ldr
  lib = lib
  mounts = mounts
  away = away
  Runtime = Runtime
  Root = Root
  Ulx = Ulx
  Ldso = Ldso
  Files <- AllFiles
  Kind <- Kinds
  Interp <- Interps
  Shell = sh
  Loader = ldr
  First <- Commands
  Called <- ByCalls
  HostFiles <- Shared
  Binds <- Mounts
  Given <- Assigned
  MaxStarts = 2
  MaxEdits = 1
INVARIANTS Contained EnvironmentKept RightProgram NamesKept
PROPERTIES ReexecSame
CHECK_DEADLOCK FALSE
