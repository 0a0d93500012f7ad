SPECIFICATION Spec
CONSTANTS
  MaxDepth = 4
  NULL = NULL
  Wild = Wild
INVARIANTS
  TypeOK
  TargetsAlive
  TextAlive
