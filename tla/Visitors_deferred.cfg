SPECIFICATION Spec
CONSTANTS
  Item = {i1, i2}
  Fn = {f, g}
  Junk = Junk
  MaxDepth = 2
  MaxOpen = 2
INVARIANTS
  RegisteredFunction
