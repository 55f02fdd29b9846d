\* A heap of four nodes, a list of three; a ring and a string buffer of three
\* cells, the string buffer for nine insertions; two queue nodes; four tree
\* numbers; headers of two bytes in an array of thirty, sizes modulo 64.
\* int16_t is -2 .. 1; the two readings are its extremes, and two threads ask
\* for up to three samples of the three the sensor takes.  A container may
\* come to its bound: no check for deadlock.
CONSTANTS
  buffer_length = 3
  Pointers = {p1, p2}
  Priorities = {1, 2, 3}
  MAX_NODES = 3
  max_node_size = 4
  MAX_POSITION = 9
  Nodes = {n1, n2}
  QUEUE_MOD = 4
  GARBAGE = garbage
  Numbers = {1, 2, 3, 4}
  HEADER = 2
  POOL = 30
  SIZE_MOD = 64
  Requests = {0, 1, 2, 4, 63}
  Owners = {o1, o2, o3}
  nullptr = nullptr
  Threads = {t1, t2}
  HALF = 2
  Readings = {1, 2}
  Counts = {0, 3}
  Ranges = {{}, {3}}
  Addresses = {own, other}
  OWN = own
  MAX_NUMBER = 3
  NULL = NULL
SPECIFICATION LibrarySpec
INVARIANTS EndsTogether ListedBlocksApart LiveAreasApart SumFits SampleCountedAtMostTwice RangesAgree
PROPERTIES InsertedIsFound PriorityQueueImplemented SlidingWindow InsertStaysInside
CHECK_DEADLOCK FALSE
