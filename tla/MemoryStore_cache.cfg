\* Two operations through one key, and no other process.
\* Each one is made once: in the end nothing is left to do.
SPECIFICATION Spec
CHECK_DEADLOCK FALSE
CONSTANTS
  Ops = {o1, o2}
  Kinds = {"get", "reload", "create", "edit", "delete", "update", "import", "clear"}
  Keys = {k1}
  None = None
  tea = tea
  csv = csv
  Contents = {tea, csv}
  Uploads = {csv}
  Answers <- ModelAnswers
  Threshold = 1
  MaxFacts = 2
INVARIANT CacheIsCurrent
