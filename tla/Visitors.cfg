SPECIFICATION Spec
CONSTANTS
  Item = {i1, i2}
  Fn = {f, g}
  Junk = Junk
  MaxDepth = 3
  MaxOpen = 4
INVARIANTS
  TypeOK
  RightFunction
  Closed
PROPERTIES
  CallbackComplete
SYMMETRY Symmetry
