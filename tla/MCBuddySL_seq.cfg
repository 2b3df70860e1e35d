SPECIFICATION FairSpec
CONSTANTS
  NUM_LEVELS = 4
  MIN_ALLOCABLE_BYTES = 4
  Requests = {1, 4, 5, 9, 32, 33}
INVARIANTS
  TypeOK
  TreeIsExact
  InspectionExact
  NoAbort
PROPERTIES
  NullJustified
  FirstFit
  ImplementsAllocator
  OperationEnds
