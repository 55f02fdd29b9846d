SPECIFICATION Spec
CONSTANTS
  MAX_THREADS = 4
  MAX_STACKS = 5
  MAX_PRIORITY = 1
  MAX_INTERVAL = 1
  MAX_RETURNS = 1
  Preemptive = FALSE
  Calls = {"add", "suspend", "resume", "kill", "kill_self", "return", "sleep", "yield", "stop"}
  Words = {}
  WORD_MOD = 2
  Signals = {}
  Bits = {}
  NULL = NULL
INVARIANTS
  TypeOK
  SchedulerFindsThread
  PrioritiesSorted
  EveryLiveThreadListed
  SpInOwnStack
