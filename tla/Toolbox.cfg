\* Containers: room for one, three acquisitions, a restart.  Tokens: the time on the way may take all of the skew.
\* Each acquisition is made once, and the clock of the tokens ends: then nothing is left to do.
SPECIFICATION PartsSpec
CHECK_DEADLOCK FALSE
SYMMETRY Symmetry
CONSTANTS
  Threads = {t1, t2}
  Calls = {c1, c2, c3}
  None = None
  Replicas = 1
  MaxRestarts = 1
  MaxEdits = 4
  MaxFaults = 2
  Callers = {g1, g2}
  Skew = 2
  Lifetimes = {0, 4}
  MaxDelay = 2
  MaxTime = 7
  ToolLists <- ListTable
  Queries <- QueryTable
  Searches = {s1, s2}
  MaxResults = 1
  Histories <- HistoryTable
  Empty = Empty
INVARIANTS
  NothingForgotten
  ToolsAreDue
  TokensAreAccepted
  SchemasFollowSearches
  ReasoningReturns
PROPERTIES
  AcquiredIsUsable
  ReplacedWhenExpiring
