SPECIFICATION Spec
CONSTANTS
  MAX_THREADS = 3
  MAX_STACKS = 3
  MAX_PRIORITY = 1
  MAX_INTERVAL = 0
  MAX_RETURNS = 1
  Preemptive = FALSE
  Calls = {"add", "kill_self", "return", "yield"}
  Words = {}
  WORD_MOD = 2
  Signals = {}
  Bits = {}
  NULL = NULL
PROPERTIES
  CurrentThreadEnds
