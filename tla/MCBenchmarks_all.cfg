SPECIFICATION FairSpec
CONSTANTS
  Entries <- MCEntries
  UnusedSets <- MCUnusedSets
  NR <- MCNR
  Builds = {"user", "kernel"}
  MAX_BD_ORDER = 1
  Threads = {1, 2}
  ArenaCells = 4
  BASE = 2
  FixedSizes = {1, 2, 4, 6, 10}
  NULL = NULL
  LS_ITERATIONS = 2
  TT_ITERATIONS = 1
  TT_OBJS = 4
  CA_ITERATIONS = 2
  CO_ITERATIONS = 2
  CO_LEVELS = 2
INVARIANTS
  TypeOK
  RegionsOwned
  CrashesJustified
  ReportAddsUp
  TableRestored
PROPERTIES
  EveryRunEnds
CHECK_DEADLOCK FALSE
