SPECIFICATION Spec
CONSTANTS
  NULL = NULL
  Slot = {s1, s2, s3}
  Obj = {o1, o2, o3}
  CacheObj = {o1}
  Classes = {"object", "commit", "blob", "tree", "tree_entry", "indexer", "diff", "reference", "strarray", "data_buffer"}
  MoveAssigned = {"object", "commit", "blob", "tree_entry", "indexer", "strarray"}
  CopyAssigned = {"blob", "tree_entry"}
  Uses = {"copy", "entry_copy", "borrow", "adopt", "uninitialised", "visit"}
  MaxRefs = 3
INVARIANTS TypeOK RefsCover InitsExact
SYMMETRY Symmetry
