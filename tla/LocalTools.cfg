\* Sandboxes: two threads, room for one.  Loops: two threads, room for one and for two runs' warnings.
SPECIFICATION BothSpec
CHECK_DEADLOCK FALSE
SYMMETRY Symmetry
CONSTANTS
  Threads = {t1, t2}
  Calls = {c1, c2}
  None = None
  Mounts <- MountTable
  Paths <- PathTable
  OtherPaths <- OtherTable
  Contents <- ContentTable
  MaxCache = 1
  MaxObjects = 2
  Runs = {r1, r2, r3}
  CallSets <- CallTable
  Warn = 2
  HardLimit = 3
  WindowSize = 3
  FreqWarn <- WarnTable
  FreqHard <- HardTable
  MaxTrackedThreads = 1
  MaxPerRun = 2
INVARIANTS
  CacheKeepsSandboxes
  WrittenReadsBack
  ShownNamesResolve
  LoopsAreCut
PROPERTIES
  WritesStayInBounds
