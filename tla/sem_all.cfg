SPECIFICATION Spec
CONSTANTS
  MAX_THREADS = 4
  MAX_PRIORITY = 0
  MAX_INTERVAL = 1
  Words = {s1}
  s1 = s1
  WORD_MOD = 4
  max_entry = 2
  Calls = {"tryEntry", "entry", "entryWaitIndefinite", "exit", "over_exit", "sleep", "suspend", "resume", "yield"}
  Preemptive = TRUE
  Signals = {}
  Bits = {}
  NULL = NULL
INVARIANTS
  RoomWakesWaiter
