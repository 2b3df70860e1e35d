SPECIFICATION Spec
CONSTANTS
  NUM_LEVELS = 14
  MAX_ORDER = 9
  Threads = {t1, t2}
  NoOwner = NoOwner
  Targets = {16, 128, 129, 256, 2048, 2049, 4096, 4098, 4112, 8192, 8193, 8194}
  BD_SPIN_LOCK = TRUE
INVARIANTS
  TypeOK
  TreeReflectsHeld
PROPERTIES
  RefusalJustified
  ImplementsBlocks
SYMMETRY Symmetry
