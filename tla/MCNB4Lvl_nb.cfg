SPECIFICATION Spec
CONSTANTS
  NUM_LEVELS = 11
  MAX_ORDER = 6
  Threads = {t1, t2, t3}
  NoOwner = NoOwner
  Targets = {128, 256, 512, 513, 1024}
  BD_SPIN_LOCK = FALSE
INVARIANTS
  BottomExact
  BottomDisjoint
SYMMETRY Symmetry
CHECK_DEADLOCK FALSE
