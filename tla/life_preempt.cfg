SPECIFICATION FairSpec
CONSTANTS
  MAX_THREADS = 4
  MAX_STACKS = 4
  MAX_PRIORITY = 1
  MAX_INTERVAL = 1
  MAX_RETURNS = 0
  Preemptive = TRUE
  Calls = {"add", "suspend", "resume", "kill_self", "sleep", "yield", "stop"}
  Words = {}
  WORD_MOD = 2
  Signals = {}
  Bits = {}
  NULL = NULL
INVARIANTS
  ExclusiveWhileStopped
PROPERTIES
  HighestPriorityRuns
  HeadSleeperRuns
