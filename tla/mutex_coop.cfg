SPECIFICATION FairSpec
CONSTANTS
  MAX_THREADS = 5
  MAX_PRIORITY = 0
  MAX_INTERVAL = 1
  Words = {m1}
  m1 = m1
  WORD_MOD = 2
  Signals = {}
  Bits = {}
  NULL = NULL
  Preemptive = FALSE
  Calls = {"tryLock", "lockWaitIndefinite", "lock", "unlock", "sleep", "yield"}
INVARIANTS
  MutualExclusion
  LockedIffHeld
  KernelStarted
  WokenFindsFree
PROPERTIES
  AbstractSpec
  HeadWaiterAcquires
