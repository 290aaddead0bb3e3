\* An aborted worker rolls back under its successor.
SPECIFICATION Spec
CONSTANTS
  Runs = {r1, r2}
  Threads = {t1}
  Agents = {r1, r2}
  AgentOf <- OwnAgents
  NoRun = NoRun
  Actions = {"interrupt", "rollback"}
  MaxSteps = 1
  MaxFaults = 0
  MaxRestarts = 0
  UnguardedCreate = FALSE
  ReconcileWhileServing = FALSE
INVARIANT FinishedTurnIsKept
