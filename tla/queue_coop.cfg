SPECIFICATION Spec
CONSTANTS
  MAX_THREADS = 5
  MAX_PRIORITY = 0
  MAX_INTERVAL = 1
  Words = {m1, m2}
  m1 = m1
  m2 = m2
  WORD_MOD = 2
  Signals = {}
  Bits = {}
  NULL = NULL
  Preemptive = FALSE
  queue_lock = m1
  consumer_lock = m2
  QUEUE_LEN = 2
  COUNT_MOD = 4
  Data = {d1, d2}
  d1 = d1
  d2 = d2
  Calls = {"push", "popBlocking", "sleep"}
INVARIANTS
  NoLostWakeup
  QueueLockOnlyWhileRunning
PROPERTIES
  AbstractSpec
