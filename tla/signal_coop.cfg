SPECIFICATION FairSpec
CONSTANTS
  MAX_THREADS = 4
  MAX_PRIORITY = 0
  MAX_INTERVAL = 1
  Words = {}
  WORD_MOD = 2
  Signals = {s1}
  Bits = {b1, b2}
  NULL = NULL
  Preemptive = FALSE
  s1 = s1
  b1 = b1
  b2 = b2
  Calls = {"signal", "clear", "wait", "wait_n_clear", "wait_notimeout", "sleep"}
INVARIANTS
  SignalWakesWaiter
  ClearerFindsBit
PROPERTIES
  HeadTimedWaitReturns
