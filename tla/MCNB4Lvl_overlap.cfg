SPECIFICATION Spec
CONSTANTS
  NUM_LEVELS = 10
  MAX_ORDER = 5
  Threads = {t1, t2}
  NoOwner = NoOwner
  Targets = {16, 128, 256, 512, 513}
  BD_SPIN_LOCK = FALSE
INVARIANTS
  NoOverlap
SYMMETRY Symmetry
CHECK_DEADLOCK FALSE
