SPECIFICATION Spec
CONSTANTS
  MAX_THREADS = 5
  MAX_PRIORITY = 0
  MAX_INTERVAL = 1
  Words = {s1}
  WORD_MOD = 4
  Signals = {}
  Bits = {}
  NULL = NULL
  Preemptive = TRUE
  max_entry = 2
  Calls = {"tryEntry", "entry", "exit", "sleep", "yield"}
  s1 = s1
INVARIANTS
  EntrantsBounded
  CounterIsEntrants
PROPERTIES
  AbstractSpec
