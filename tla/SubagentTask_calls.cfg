\* Two tasks on a semaphore of one slot, of any kind, at most one of them a call
\* of the task tool.  Each is started once: in the end nothing is left to do.
SPECIFICATION FairSpec
CHECK_DEADLOCK FALSE
CONSTANTS
  Tasks = {t1, t2}
  ToolCalls = {t1}
  Shared = Shared
  MaxConcurrent = 1
  MaxMessages = 1
  MaxPolls = 0
  read = read
  bash = bash
  task = task
  Tools <- ToolList
  Configs <- OneType
INVARIANTS
  ReportsAgree
  TasksAreHeld
PROPERTIES
  CancelIsHonoured
  CallsReturn
