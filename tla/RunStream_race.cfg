\* Two runs of one thread: replacements, cancels and their late store writes.
\* Two connections over a window of one: reconnection, eviction, cleanup.
\* The stream ends and every subscriber is served or gone: then nothing is left to do.
SPECIFICATION BothSpec
CHECK_DEADLOCK FALSE
CONSTANTS
  Runs = {r1, r2}
  Threads = {t1}
  Agents = {a1}
  AgentOf <- OneAgent
  NoRun = NoRun
  Actions = {"interrupt", "rollback"}
  MaxSteps = 1
  MaxFaults = 0
  MaxRestarts = 0
  UnguardedCreate = FALSE
  ReconcileWhileServing = FALSE
  Subs = {s1, s2}
  MaxSize = 1
  MaxEvents = 3
  MaxStreams = 2
  MaxCloses = 0
SYMMETRY Symmetry
INVARIANTS
  AtMostOneLive
  RunsEndAsTold
  LoneTurnsAreExact
  ReadsInOrder
PROPERTIES
  FinalStatusSticks
  ImplementsEventLog
