SPECIFICATION Spec
CONSTANTS
  NUM_LEVELS = 5
  MAX_ORDER = 4
  Threads = {t1, t2}
  NoOwner = NoOwner
  Targets = {1, 2, 8, 9, 16, 17}
  BD_SPIN_LOCK = FALSE
INVARIANT NoOverlap
SYMMETRY Symmetry
CHECK_DEADLOCK FALSE
