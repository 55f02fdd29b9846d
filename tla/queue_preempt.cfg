SPECIFICATION Spec
CONSTANTS
  MAX_THREADS = 4
  MAX_PRIORITY = 0
  MAX_INTERVAL = 1
  Words = {m1, m2}
  m1 = m1
  m2 = m2
  WORD_MOD = 2
  Signals = {}
  Bits = {}
  NULL = NULL
  Preemptive = TRUE
  queue_lock = m1
  consumer_lock = m2
  QUEUE_LEN = 1
  COUNT_MOD = 3
  Data = {d1}
  d1 = d1
  Calls = {"push", "pop", "popBlocking", "sleep", "suspend"}
INVARIANTS
  OverlapOnlyWhenStopped
  BlockedConsumerIsRegistered
