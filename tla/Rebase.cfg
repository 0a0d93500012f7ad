SPECIFICATION Spec
CONSTANTS
  Size = 5
  Conflicting = {2, 4}
  Contained = {3}
  Orig = Orig
  Mixed = Mixed
  NULL = NULL
  MaxCrashes = 3
  MaxErrors = 3
CHECK_DEADLOCK FALSE
INVARIANTS
  TypeOK
  InOrder
  Complete
PROPERTIES
  ListSpec
  Ends
