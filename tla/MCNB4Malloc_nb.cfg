SPECIFICATION MCSpec
CONSTANTS
  NUM_LEVELS = 9
  MAX_ORDER = 4
  Threads = {t1, t2}
  NoOwner = NoOwner
  Targets <- MCTargets
  BD_SPIN_LOCK = FALSE
  MIN_ALLOCABLE_BYTES = 2
  Requests = {1, 32, 33}
  MaxRequests = 3
INVARIANTS
  FreeFindsBlock
  SearchStaysInLevel
PROPERTIES
  AllocatorSteps
CONSTRAINT TenantStays
SYMMETRY Symmetry
CHECK_DEADLOCK FALSE
