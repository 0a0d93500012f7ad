SPECIFICATION Spec
CONSTANTS
  Paths = 2
  NULL = NULL
INVARIANTS
  TypeOK
  ConflictsVisited
  BulkExact
PROPERTIES
  
  WalkEnds
