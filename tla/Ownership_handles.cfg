SPECIFICATION Spec
CONSTANTS
  NULL = NULL
  Slot = {s1, s2, s3}
  Obj = {o1, o2, o3}
  CacheObj = {o1}
  Classes = {"object", "blob", "commit", "tree", "tree_entry", "reference", "repository", "index", "strarray", "data_buffer"}
  MoveAssigned = {"object", "tree_entry"}
  CopyAssigned = {"blob"}
  Uses = {"copy", "borrow", "adopt"}
  MaxRefs = 3
INVARIANTS NoLeak
PROPERTIES HandleSpec
