SPECIFICATION Spec
CONSTANTS
  Session = {a, b}
  Ref = {r1, r2}
  Txn = {t1, t2, t3}
  NoTxn = NoTxn
  Config = Config
  Reassigns = TRUE
  LocksConfig = TRUE
  MaxUpdates = 2
CHECK_DEADLOCK FALSE
INVARIANTS
  TypeOK
  LocksAccounted
  NoLostUpdate
PROPERTIES
  RegisterSpec
  LockReleased
