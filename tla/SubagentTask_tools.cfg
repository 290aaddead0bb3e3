\* Two calls of the task tool for subagents of the two built-in types.
SPECIFICATION Spec
CHECK_DEADLOCK FALSE
CONSTANTS
  Tasks = {t1, t2}
  ToolCalls = {t1, t2}
  Shared = Shared
  MaxConcurrent = 1
  MaxMessages = 0
  MaxPolls = 0
  read = read
  bash = bash
  task = task
  Tools <- ToolList
  Configs <- TwoTypes
INVARIANT ToolsAsConfigured
