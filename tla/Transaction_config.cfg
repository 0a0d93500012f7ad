SPECIFICATION Spec
CONSTANTS
  Session = {a, b}
  Ref = {r1, r2}
  Txn = {t1, t2}
  NoTxn = NoTxn
  Config = Config
  Reassigns = FALSE
  LocksConfig = TRUE
  MaxUpdates = 2
INVARIANTS LockHasOwner
