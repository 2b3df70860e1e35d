SPECIFICATION Spec
CONSTANTS
  NUM_LEVELS = 9
  MAX_ORDER = 4
  Threads = {t1, t2}
  NoOwner = NoOwner
  Targets = {128, 129, 256}
  BD_SPIN_LOCK = FALSE
INVARIANTS
  OnlyCoalescingLeft
SYMMETRY Symmetry
CHECK_DEADLOCK FALSE
