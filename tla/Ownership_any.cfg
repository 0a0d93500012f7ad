SPECIFICATION Spec
CONSTANTS
  NULL = NULL
  Slot = {s1, s2, s3}
  Obj = {o1, o2}
  CacheObj = {o1}
  Classes = {"object", "blob", "tree", "tree_entry", "repository", "stream"}
  MoveAssigned = {"object"}
  CopyAssigned = {"blob", "tree_entry"}
  Uses = {"copy", "dup_fails", "borrow", "owner", "shallow_copy"}
  MaxRefs = 2
INVARIANTS InitsBounded
SYMMETRY Symmetry
