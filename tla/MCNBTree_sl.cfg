SPECIFICATION Spec
CONSTANTS
  NUM_LEVELS = 4
  MAX_ORDER = 2
  Threads = {t1, t2, t3}
  NoOwner = NoOwner
  Targets = {2, 3, 4, 5, 6, 7, 8, 9, 10, 11, 12, 13, 14, 15}
  BD_SPIN_LOCK = TRUE
INVARIANTS
  TreeReflectsHeld
  NoAbort
PROPERTIES
  RefusalJustified
  ImplementsBlocks
SYMMETRY Symmetry
