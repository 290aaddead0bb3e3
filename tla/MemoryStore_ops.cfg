\* Three operations of any kind through two keys of one file.
\* Each one is made once: in the end nothing is left to do.
SPECIFICATION Spec
CHECK_DEADLOCK FALSE
CONSTANTS
  Ops = {o1, o2, o3}
  Kinds = {"get", "reload", "create", "edit", "delete", "update", "import", "clear", "foreign"}
  Keys = {k1, k2}
  None = None
  tea = tea
  csv = csv
  Contents = {tea, csv}
  Uploads = {csv}
  Answers <- ModelAnswers
  Threshold = 1
  MaxFacts = 2
SYMMETRY Symmetry
INVARIANTS
  LoadsAreCurrent
  SerialIsAtomic
  UpdateIsBounded
