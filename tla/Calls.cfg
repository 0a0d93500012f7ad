CONSTANTS
  Functions <- FacadeFunctions
  MayHide <- Hides
  MayLose <- Loses
  NULL = NULL
  MaxDepth = 3
SPECIFICATION Spec
INVARIANTS TypeOK   
