\* One run and the requests around it: two steps, a crash, a failing store call, requests
\* during reconciliation.  One subscriber, attached early or late.
\* The stream ends and its subscriber is served or gone: then nothing is left to do.
SPECIFICATION BothFairSpec
CHECK_DEADLOCK FALSE
CONSTANTS
  Runs = {r1}
  Threads = {t1}
  Agents = {r1}
  AgentOf <- OwnAgents
  NoRun = NoRun
  Actions = {"interrupt", "rollback"}
  MaxSteps = 2
  MaxFaults = 1
  MaxRestarts = 1
  UnguardedCreate = TRUE
  ReconcileWhileServing = TRUE
  Subs = {s1}
  MaxSize = 2
  MaxEvents = 4
  MaxStreams = 2
  MaxCloses = 1
PROPERTIES
  RunSettles
  AbortSettles
  OrphansAreResolved
  EventsAreDelivered
