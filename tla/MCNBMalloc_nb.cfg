SPECIFICATION MallocSpec
CONSTANTS
  NUM_LEVELS = 3
  MAX_ORDER = 2
  Threads = {t1, t2}
  NoOwner = NoOwner
  Targets = {1, 2, 3, 4, 5, 6, 7}
  BD_SPIN_LOCK = FALSE
  MIN_ALLOCABLE_BYTES = 2
  Requests = {0, 3, 8, 9}
  MaxRequests = 4
INVARIANTS
  MallocTypeOK
  FreeFindsBlock
  SearchStaysInLevel
PROPERTIES
  NullAfterAllChecked
  ImplementsAllocator
SYMMETRY Symmetry
CHECK_DEADLOCK FALSE
