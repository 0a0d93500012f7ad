SPECIFICATION Spec
CONSTANTS
  m = m
  l = l
  r = r
  root = root
  Commit = {m, l, r, root}
  Ancestors <- MCAncestors
  NoCommit = NoCommit
  Reuse = {"reset", "push", "assign"}
  MovedWalker = TRUE
  MaxWalks = 2
INVARIANTS
  TypeOK
  CompleteWalk
  DoneExact
PROPERTIES
  EnumerationSpec
  LoopEnds
