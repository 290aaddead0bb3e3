\* Two turns of two steps over four calls, two of which read a skill file.
\* After the last turn nothing is left to do.
SPECIFICATION Spec
CHECK_DEADLOCK FALSE
CONSTANTS
  MaxCalls = 4
  SkillPath <- OneSkill
  MaxSteps = 2
  MaxBatch = 2
  MaxTurns = 2
  RescueCount = 1
  Compacting = TRUE
  Patching = TRUE
  Detecting = TRUE
INVARIANTS
  CallsAreAnswered
  NoFalseInterruption
  HistoryIsKept
