SPECIFICATION MallocFairSpec
CONSTANTS
  NUM_LEVELS = 3
  MAX_ORDER = 2
  Threads = {t1}
  NoOwner = NoOwner
  Targets = {1, 2, 3, 4, 5, 6, 7}
  BD_SPIN_LOCK = FALSE
  MIN_ALLOCABLE_BYTES = 2
  Requests = {1, 8}
  MaxRequests = 4
PROPERTY SearchEnds
CHECK_DEADLOCK FALSE
