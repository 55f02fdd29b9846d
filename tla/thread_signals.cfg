SPECIFICATION FairSpec
CONSTANTS
  MAX_THREADS = 4
  MAX_PRIORITY = 1
  MAX_INTERVAL = 1
  Words = {}
  WORD_MOD = 2
  Signals = {}
  Bits = {b1}
  NULL = NULL
  Preemptive = FALSE
  b1 = b1
  Calls = {"os_thread_signal", "os_thread_clear", "os_signal_thread", "os_signal_thread_clear", "os_thread_waitbits", "os_thread_waitbits_notimeout", "sleep"}
INVARIANTS
  TakerFindsBit
PROPERTIES
  HeadPollReturns
