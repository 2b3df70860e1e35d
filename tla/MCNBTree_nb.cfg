SPECIFICATION Spec
CONSTANTS
  NUM_LEVELS = 3
  MAX_ORDER = 2
  Threads = {t1, t2}
  NoOwner = NoOwner
  Targets = {1, 2, 3, 4, 5, 6, 7}
  BD_SPIN_LOCK = FALSE
INVARIANTS
  TypeOK
  OneOwner
  HeldBranchMarked
PROPERTIES
  OnlyOwnerFrees
  LockFree
  ImplementsBlocks
CHECK_DEADLOCK FALSE
