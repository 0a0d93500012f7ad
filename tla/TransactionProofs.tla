------------------------- MODULE TransactionProofs -------------------------
(***************************************************************************)
(* Proofs about Transaction, for any number of sessions, references and    *)
(* transaction objects.                                                    *)
(***************************************************************************)
EXTENDS Transaction, TLAPS

LEMMA TypeInit == Init => TypeOK
  BY DEF Init, TypeOK, Lockable

LEMMA TypeStep == TypeOK /\ [Next]_vars => TypeOK'
  <1> SUFFICES ASSUME TypeOK, [Next]_vars
               PROVE  TypeOK'
    OBVIOUS
  <1> USE DEF TypeOK, Lockable, repo
  <1>1. ASSUME NEW s \in Session, NEW t \in Txn, Create(s, t) \/ Reassign(s, t)
        PROVE  TypeOK'
    <2>1. /\ var' = [var EXCEPT ![s] = t]
          /\ live' = live \cup {t}
          /\ queued' = [queued EXCEPT ![t] = {}]
          /\ UNCHANGED <<lock, version, applied, base>>
      BY <1>1 DEF Create, Reassign, New
    <2>2. /\ pc' \in [Session -> {"out", "in", "committing", "threw"}]
          /\ abandoned' \subseteq Txn \cup {NoTxn}
      BY <1>1 DEF Create, Reassign
    <2> QED
      BY <2>1, <2>2
  <1>2. ASSUME NEW s \in Session, NEW t \in Txn, ConfigLock(s, t)
        PROVE  TypeOK'
    BY <1>2 DEF ConfigLock
  <1>3. ASSUME NEW s \in Session, NEW r \in Ref, LockReference(s, r)
        PROVE  TypeOK'
    BY <1>3 DEF LockReference
  <1>4. ASSUME NEW s \in Session, Throw(s)
        PROVE  TypeOK'
    BY <1>4 DEF Throw
  <1>5. ASSUME NEW s \in Session, NEW r \in Ref, SetTarget(s, r)
        PROVE  TypeOK'
    BY <1>5 DEF SetTarget
  <1>6. ASSUME NEW s \in Session, StartCommit(s) \/ Catch(s)
        PROVE  TypeOK'
    BY <1>6 DEF StartCommit, Catch
  <1>7. ASSUME NEW s \in Session, NEW r \in Ref, CommitOne(s, r)
        PROVE  TypeOK'
    <2>1. /\ version' \in [Ref -> Nat]
          /\ applied' \in [Ref -> Nat]
      <3>1. base[s][r] + 1 \in Nat /\ applied[r] + 1 \in Nat
        OBVIOUS
      <3> QED
        BY <1>7, <3>1 DEF CommitOne
    <2>2. lock' \in [Lockable -> Txn \cup {NoTxn}]
      BY <1>7 DEF CommitOne
    <2> QED
      BY <1>7, <2>1, <2>2 DEF CommitOne
  <1>8. ASSUME NEW s \in Session, EndCommit(s)
        PROVE  TypeOK'
    BY <1>8 DEF EndCommit
  <1>9. ASSUME NEW s \in Session, Destroy(s)
        PROVE  TypeOK'
    BY <1>9 DEF Destroy
  <1>10. CASE UNCHANGED vars
    BY <1>10 DEF vars
  <1> QED
    BY <1>1, <1>2, <1>3, <1>4, <1>5, <1>6, <1>7, <1>8, <1>9, <1>10
    DEF Next, Commit, LockThrows, SetThrows, CommitThrows, ConfigLockThrows

(* Every variable of the model always has its type. *)
THEOREM TypeCorrect == Spec => []TypeOK
  BY TypeInit, TypeStep, PTL DEF Spec

-----------------------------------------------------------------------------

(* A transaction object has at most one variable, and that variable is in
   scope. *)
OneVariable ==
  /\ \A s \in Session : pc[s] = "out" <=> var[s] = NoTxn
  /\ \A s \in Session : var[s] = NoTxn \/ var[s] \in live
  /\ \A s1, s2 \in Session : s1 # s2 /\ var[s1] = var[s2] => var[s1] = NoTxn

(* A lock belongs to an object that has not been freed. *)
LocksLive == \A x \in Lockable : lock[x] = NoTxn \/ lock[x] \in live

(* A session that holds a lock knows the current version. *)
BaseCurrent ==
  \A s \in Session, r \in Ref :
    var[s] # NoTxn /\ lock[r] = var[s] => base[s][r] = version[r]

(* NoLostUpdate is not inductive by itself: a commit writes the version its
   session read when it took the lock, so the invariant also says that this
   version is current as long as the lock is held, and that no other variable
   can hold or free the same transaction. *)
Inv == TypeOK /\ OneVariable /\ LocksLive /\ BaseCurrent /\ NoLostUpdate

LEMMA InvInit == Init => Inv
  <1> SUFFICES ASSUME Init PROVE Inv
    OBVIOUS
  <1>1. OneVariable /\ LocksLive /\ BaseCurrent /\ NoLostUpdate
    BY DEF Init, OneVariable, LocksLive, BaseCurrent, NoLostUpdate
  <1> QED
    BY <1>1, TypeInit DEF Inv

LEMMA InvStep == Inv /\ [Next]_vars => Inv'
  <1> SUFFICES ASSUME Inv, [Next]_vars
               PROVE  (OneVariable /\ LocksLive /\ BaseCurrent /\ NoLostUpdate)'
    BY TypeStep DEF Inv
  <1> USE TransactionAssumption
      DEF Inv, TypeOK, OneVariable, LocksLive, BaseCurrent, NoLostUpdate, Lockable, repo
  <1>1. ASSUME NEW s \in Session, NEW t \in Txn, Create(s, t) \/ Reassign(s, t)
        PROVE  (OneVariable /\ LocksLive /\ BaseCurrent /\ NoLostUpdate)'
    <2>1. /\ var' = [var EXCEPT ![s] = t]
          /\ t \in Txn \ live /\ live' = live \cup {t}
          /\ UNCHANGED <<lock, version, applied, base>>
      BY <1>1 DEF Create, Reassign, New
    <2>2. \A s1 \in Session : pc'[s1] = "out" <=> var'[s1] = NoTxn
      BY <1>1, <2>1 DEF Create, Reassign
    <2>3. \A s1 \in Session : var'[s1] = IF s1 = s THEN t ELSE var[s1]
      BY <2>1
    <2>4. OneVariable' /\ LocksLive' /\ NoLostUpdate'
      BY <2>1, <2>2, <2>3
    <2>5. BaseCurrent'
      BY <2>1, <2>3
    <2> QED
      BY <2>4, <2>5
  <1>2. ASSUME NEW s \in Session, NEW t \in Txn, ConfigLock(s, t)
        PROVE  (OneVariable /\ LocksLive /\ BaseCurrent /\ NoLostUpdate)'
    BY <1>2 DEF ConfigLock
  <1>3. ASSUME NEW s \in Session, NEW r \in Ref, LockReference(s, r)
        PROVE  (OneVariable /\ LocksLive /\ BaseCurrent /\ NoLostUpdate)'
    BY <1>3 DEF LockReference
  <1>4. ASSUME NEW s \in Session, Throw(s), pc[s] # "out"
        PROVE  (OneVariable /\ LocksLive /\ BaseCurrent /\ NoLostUpdate)'
    BY <1>4 DEF Throw
  <1>5. ASSUME NEW s \in Session, NEW r \in Ref, SetTarget(s, r)
        PROVE  (OneVariable /\ LocksLive /\ BaseCurrent /\ NoLostUpdate)'
    BY <1>5 DEF SetTarget
  <1>6. ASSUME NEW s \in Session, StartCommit(s) \/ Catch(s)
        PROVE  (OneVariable /\ LocksLive /\ BaseCurrent /\ NoLostUpdate)'
    BY <1>6 DEF StartCommit, Catch
  <1>7. ASSUME NEW s \in Session, NEW r \in Ref, CommitOne(s, r)
        PROVE  (OneVariable /\ LocksLive /\ BaseCurrent /\ NoLostUpdate)'
    <2>1. /\ lock[r] = var[s]
          /\ lock' = [lock EXCEPT ![r] = NoTxn]
          /\ UNCHANGED <<live, var, pc, base>>
      BY <1>7 DEF CommitOne
    <2>2. OneVariable' /\ LocksLive'
      BY <2>1
    <2>3. var[s] # NoTxn /\ base[s][r] = version[r]
      BY <1>7, <2>1 DEF CommitOne
    <2>4. \A q \in Ref : q # r => version'[q] = version[q] /\ applied'[q] = applied[q]
      BY <1>7 DEF CommitOne
    <2>5. version'[r] = applied'[r]
      BY <1>7, <2>3 DEF CommitOne
    <2>6. NoLostUpdate'
      BY <2>4, <2>5
    <2>7. BaseCurrent'
      BY <2>1, <2>4
    <2> QED
      BY <2>2, <2>6, <2>7
  <1>8. ASSUME NEW s \in Session, EndCommit(s)
        PROVE  (OneVariable /\ LocksLive /\ BaseCurrent /\ NoLostUpdate)'
    BY <1>8 DEF EndCommit
  <1>9. ASSUME NEW s \in Session, Destroy(s)
        PROVE  (OneVariable /\ LocksLive /\ BaseCurrent /\ NoLostUpdate)'
    BY <1>9 DEF Destroy
  <1>10. CASE UNCHANGED vars
    BY <1>10 DEF vars
  <1> QED
    BY <1>1, <1>2, <1>3, <1>4, <1>5, <1>6, <1>7, <1>8, <1>9, <1>10
    DEF Next, Commit, LockThrows, SetThrows, CommitThrows, ConfigLockThrows

(* No update is lost, however the sessions interleave, commit half-way, throw,
   unwind or leak their transactions. *)
THEOREM UpdatesKept == Spec => []NoLostUpdate
  <1>1. Inv => NoLostUpdate
    BY DEF Inv
  <1> QED
    BY <1>1, InvInit, InvStep, PTL DEF Spec

-----------------------------------------------------------------------------

-----------------------------------------------------------------------------

(* Which transaction a lock belongs to: with OneVariable, the conjunct that
   makes LocksAccounted inductive. *)
LockInvariant == Inv /\ LocksAccounted

LEMMA LockStep == LockInvariant /\ [Next]_vars => LocksAccounted'
  <1> SUFFICES ASSUME LockInvariant, [Next]_vars
               PROVE  LocksAccounted'
    OBVIOUS
  <1> USE TransactionAssumption
      DEF LockInvariant, Inv, TypeOK, OneVariable, LocksAccounted, Owned, Lockable, repo
  <1>1. ASSUME NEW s \in Session, NEW t \in Txn, Create(s, t) \/ Reassign(s, t)
        PROVE  LocksAccounted'
    <2>1. /\ lock' = lock
          /\ var' = [var EXCEPT ![s] = t]
          /\ abandoned \cup {var[s]} \subseteq abandoned' \cup {NoTxn}
      BY <1>1 DEF Create, Reassign, New
    <2> SUFFICES ASSUME NEW x \in Lockable, lock[x] # NoTxn, lock[x] \notin abandoned'
                 PROVE  \E s1 \in Session : lock[x] = var'[s1]
      BY <2>1
    <2>2. PICK s1 \in Session : lock[x] = var[s1]
      BY <2>1
    <2> QED
      BY <2>1, <2>2
  <1>2. ASSUME NEW s \in Session, NEW r \in Ref, LockReference(s, r)
        PROVE  LocksAccounted'
    BY <1>2 DEF LockReference
  <1>3. ASSUME NEW s \in Session, NEW r \in Ref, CommitOne(s, r)
        PROVE  LocksAccounted'
    BY <1>3 DEF CommitOne
  <1>4. ASSUME NEW s \in Session, NEW t \in Txn, ConfigLock(s, t)
        PROVE  LocksAccounted'
    BY <1>4 DEF ConfigLock
  <1>5. ASSUME NEW s \in Session, Destroy(s)
        PROVE  LocksAccounted'
    <2>1. /\ lock' = [x \in Lockable |-> IF lock[x] = var[s] THEN NoTxn ELSE lock[x]]
          /\ var' = [var EXCEPT ![s] = NoTxn]
          /\ abandoned' = abandoned
      BY <1>5 DEF Destroy
    <2> SUFFICES ASSUME NEW x \in Lockable, lock'[x] # NoTxn, lock'[x] \notin abandoned
                 PROVE  \E s1 \in Session : lock'[x] = var'[s1]
      BY <2>1
    <2>2. lock'[x] = lock[x] /\ lock[x] # var[s] /\ lock[x] # NoTxn
      BY <2>1
    <2>3. PICK s1 \in Session : lock[x] = var[s1]
      BY <2>2
    <2> QED
      BY <2>1, <2>2, <2>3
  <1>6. CASE lock' = lock /\ var' = var /\ abandoned' = abandoned
    BY <1>6
  <1> QED
    BY <1>1, <1>2, <1>3, <1>4, <1>5, <1>6
    DEF Next, vars, Commit, ConfigLockThrows, LockThrows, SetTarget,
        SetThrows, StartCommit, CommitThrows, EndCommit, Catch, Throw

(* The only locks without a variable in scope that will release them are those
   of transactions lost by a move assignment or by config::lock. *)
THEOREM LocksOwned == Spec => []LocksAccounted
  <1>1. Init => LockInvariant
    <2>1. Init => LocksAccounted
      BY DEF Init, LocksAccounted
    <2> QED
      BY <2>1, InvInit DEF LockInvariant
  <1>2. LockInvariant /\ [Next]_vars => LockInvariant'
    BY LockStep, InvStep DEF LockInvariant
  <1>3. LockInvariant => LocksAccounted
    BY DEF LockInvariant
  <1> QED
    BY <1>1, <1>2, <1>3, PTL DEF Spec

(* For a session that does neither, every lock belongs to a variable: nothing
   else abandons a transaction. *)
THEOREM NoLockLost ==
  ASSUME ~Reassigns, ~LocksConfig
  PROVE  Spec => []LockHasOwner
  <1> DEFINE None == abandoned = {}
  <1>1. Init => None
    BY DEF Init
  <1>2. None /\ [Next]_vars => None'
    BY DEF Next, vars, repo, Create, Reassign, ConfigLock, LockReference, LockThrows,
           SetTarget, SetThrows, StartCommit, Commit, CommitOne, CommitThrows, EndCommit,
           ConfigLockThrows, Catch, Destroy, Throw
  <1>3. None /\ LocksAccounted => LockHasOwner
    BY DEF LocksAccounted, LockHasOwner
  <1> HIDE DEF None
  <1> QED
    BY <1>1, <1>2, <1>3, LocksOwned, PTL DEF Spec

-----------------------------------------------------------------------------
(* Every step is one of the registers, or none.                            *)

(* The sessions that can unlock a locked reference are at most one.        *)
LEMMA OneHolder ==
  ASSUME Inv, NEW s \in Session, NEW r \in Ref, var[s] # NoTxn
  PROVE  lock[r] = var[s] <=> Holders[r] = {s}
  <1>1. Holders[r] = {s1 \in Session : lock[r] # NoTxn /\ var[s1] = lock[r]}
    BY DEF Holders
  <1>2. \A s1 \in Session : var[s1] = var[s] => s1 = s
    BY DEF Inv, OneVariable
  <1> QED
    BY <1>1, <1>2

LEMMA SameRegisters ==
  ASSUME \A r \in Ref : lock'[r] = lock[r],
         \A s \in Session, r \in Ref :
           lock[r] # NoTxn => (var'[s] = lock[r] <=> var[s] = lock[r])
  PROVE  LockedRefs' = LockedRefs /\ Holders' = Holders
  BY DEF LockedRefs, Holders

LEMMA RegistersStart == Init => R!RInit
  BY DEF Init, R!RInit, LockedRefs, Holders, Lockable

LEMMA RegistersStep == Inv /\ [Next]_vars => [R!RNext]_(R!rvars)
  <1> SUFFICES ASSUME Inv, [Next]_vars
               PROVE  [R!RNext]_(R!rvars)
    OBVIOUS
  <1>1. TypeOK /\ OneVariable /\ LocksLive /\ BaseCurrent /\ Config \notin Ref /\ NoTxn \notin Txn
    BY TransactionAssumption DEF Inv
  <1>2. ASSUME NEW s \in Session, NEW t \in Txn, Create(s, t)
        PROVE  [R!RNext]_(R!rvars)
    <2>1. /\ t \notin live /\ var' = [var EXCEPT ![s] = t] /\ var[s] = NoTxn
          /\ UNCHANGED <<lock, version, base>>
      BY <1>1, <1>2 DEF Create, New, OneVariable
    <2>2. \A x \in Lockable : lock[x] # t
      BY <1>1, <2>1 DEF LocksLive
    <2>3. LockedRefs' = LockedRefs /\ Holders' = Holders
      BY <1>1, <2>1, <2>2, SameRegisters DEF TypeOK, Lockable
    <2> QED
      BY <2>1, <2>3 DEF R!rvars
  <1>3. ASSUME NEW s \in Session, NEW t \in Txn, Reassign(s, t)
        PROVE  [R!RNext]_(R!rvars)
    <2>1. /\ t \notin live /\ var' = [var EXCEPT ![s] = t]
          /\ UNCHANGED <<lock, version, base>>
      BY <1>3 DEF Reassign, New
    <2>2. \A x \in Lockable : lock[x] # t
      BY <1>1, <2>1 DEF LocksLive
    <2>3. LockedRefs' = LockedRefs
      BY <2>1 DEF LockedRefs
    <2>4. Holders' = [r \in Ref |-> Holders[r] \ {s}]
      <3>1. \A r \in Ref : Holders[r] \ {s}
                            = {s1 \in Session : lock[r] # NoTxn /\ var'[s1] = lock[r]}
        BY <1>1, <2>1, <2>2 DEF Holders, TypeOK, Lockable
      <3> QED
        BY <2>1, <3>1 DEF Holders
    <2>5. R!Lose(s)
      BY <2>1, <2>3, <2>4 DEF R!Lose, R!Gone
    <2> QED
      BY <2>5 DEF R!RNext
  <1>4. ASSUME NEW s \in Session, NEW t \in Txn, ConfigLock(s, t)
        PROVE  [R!RNext]_(R!rvars)
    <2>1. /\ lock' = [lock EXCEPT ![Config] = t]
          /\ UNCHANGED <<var, version, base>>
      BY <1>4 DEF ConfigLock
    <2>2. LockedRefs' = LockedRefs /\ Holders' = Holders
      BY <1>1, <2>1, SameRegisters DEF TypeOK, Lockable
    <2> QED
      BY <2>1, <2>2 DEF R!rvars
  <1>5. ASSUME NEW s \in Session, NEW r \in Ref, LockReference(s, r)
        PROVE  [R!RNext]_(R!rvars)
    <2>1. /\ lock[r] = NoTxn /\ lock' = [lock EXCEPT ![r] = var[s]] /\ var[s] # NoTxn
          /\ base' = [base EXCEPT ![s][r] = version[r]]
          /\ UNCHANGED <<var, version>>
      BY <1>1, <1>5 DEF LockReference, OneVariable
    <2>2. \A q \in Ref : lock'[q] = IF q = r THEN var[s] ELSE lock[q]
      BY <1>1, <2>1 DEF TypeOK, Lockable
    <2>3. r \notin LockedRefs /\ LockedRefs' = LockedRefs \cup {r}
      BY <2>1, <2>2 DEF LockedRefs
    <2>4. Holders' = [Holders EXCEPT ![r] = {s}]
      <3>1. \A s1 \in Session : var[s1] = var[s] => s1 = s
        BY <1>1, <2>1 DEF OneVariable
      <3>2. \A q \in Ref : {s1 \in Session : lock'[q] # NoTxn /\ var[s1] = lock'[q]}
                            = IF q = r THEN {s} ELSE Holders[q]
        BY <2>1, <2>2, <3>1 DEF Holders
      <3> QED
        BY <2>1, <3>2 DEF Holders
    <2>5. R!Acquire(s, r)
      BY <2>1, <2>3, <2>4 DEF R!Acquire
    <2> QED
      BY <2>5 DEF R!RNext
  <1>6. ASSUME NEW s \in Session, NEW r \in Ref, CommitOne(s, r)
        PROVE  [R!RNext]_(R!rvars)
    <2>1. /\ lock[r] = var[s] /\ lock' = [lock EXCEPT ![r] = NoTxn] /\ var[s] # NoTxn
          /\ UNCHANGED <<var, base>>
      BY <1>1, <1>6 DEF CommitOne, OneVariable
    <2>2. \A q \in Ref : lock'[q] = IF q = r THEN NoTxn ELSE lock[q]
      BY <1>1, <2>1 DEF TypeOK, Lockable
    <2>3. LockedRefs' = LockedRefs \ {r}
      BY <2>2 DEF LockedRefs
    <2>4. Holders[r] = {s}
      BY <2>1, OneHolder
    <2>5. Holders' = [Holders EXCEPT ![r] = {}]
      <3>1. \A q \in Ref : {s1 \in Session : lock'[q] # NoTxn /\ var[s1] = lock'[q]}
                            = IF q = r THEN {} ELSE Holders[q]
        BY <2>2 DEF Holders
      <3>2. Holders' = [q \in Ref |-> IF q = r THEN {} ELSE Holders[q]]
        <4>1. Holders' = [q \in Ref |-> {s1 \in Session : lock'[q] # NoTxn /\ var[s1] = lock'[q]}]
          BY <2>1 DEF Holders
        <4> QED
          BY <3>1, <4>1
      <3>3. Holders = [q \in Ref |-> Holders[q]]
        BY DEF Holders
      <3> QED
        BY <3>2, <3>3
    <2>6. R!Unlock(s, r)
      BY <2>1, <2>3, <2>4, <2>5 DEF R!Unlock
    <2>7. CASE r \in queued[var[s]]
      <3>1. version' = [version EXCEPT ![r] = base[s][r] + 1]
        BY <1>6, <2>7 DEF CommitOne
      <3>2. base[s][r] = version[r]
        BY <1>1, <2>1 DEF BaseCurrent
      <3>3. R!Update(s, r)
        BY <2>6, <3>1, <3>2 DEF R!Update
      <3> QED
        BY <3>3 DEF R!RNext
    <2>8. CASE r \notin queued[var[s]]
      <3>1. version' = version
        BY <1>6, <2>8 DEF CommitOne
      <3>2. R!Release(s, r)
        BY <2>6, <3>1 DEF R!Release
      <3> QED
        BY <3>2 DEF R!RNext
    <2> QED
      BY <2>7, <2>8
  <1>7. ASSUME NEW s \in Session, Destroy(s)
        PROVE  [R!RNext]_(R!rvars)
    <2>1. /\ lock' = [x \in Lockable |-> IF lock[x] = var[s] THEN NoTxn ELSE lock[x]]
          /\ var' = [var EXCEPT ![s] = NoTxn] /\ var[s] # NoTxn
          /\ base' = [base EXCEPT ![s] = [r \in Ref |-> 0]]
          /\ version' = version
      BY <1>1, <1>7 DEF Destroy, OneVariable
    <2>2. \A q \in Ref : lock'[q] = IF lock[q] = var[s] THEN NoTxn ELSE lock[q]
      BY <2>1 DEF Lockable
    <2>3. \A q \in Ref : s \in Holders[q] <=> lock[q] = var[s]
      BY <2>1 DEF Holders
    <2>4. LockedRefs' = {r \in LockedRefs : s \notin Holders[r]}
      BY <2>1, <2>2, <2>3 DEF LockedRefs
    <2>5. Holders' = [r \in Ref |-> Holders[r] \ {s}]
      <3>1. \A s1 \in Session : var[s1] = var[s] => s1 = s
        BY <1>1, <2>1 DEF OneVariable
      <3>2. \A s1 \in Session : var'[s1] = IF s1 = s THEN NoTxn ELSE var[s1]
        BY <1>1, <2>1 DEF TypeOK
      <3>3. \A r \in Ref : {s1 \in Session : lock'[r] # NoTxn /\ var'[s1] = lock'[r]}
                            = Holders[r] \ {s}
        BY <2>2, <3>1, <3>2 DEF Holders
      <3> QED
        BY <3>3 DEF Holders
    <2>6. R!Leave(s)
      BY <2>1, <2>4, <2>5 DEF R!Leave, R!Gone
    <2> QED
      BY <2>6 DEF R!RNext
  <1>8. CASE UNCHANGED <<lock, var, version, base>>
    <2>1. LockedRefs' = LockedRefs /\ Holders' = Holders
      BY <1>8 DEF LockedRefs, Holders
    <2> QED
      BY <1>8, <2>1 DEF R!rvars
  <1> QED
    BY <1>2, <1>3, <1>4, <1>5, <1>6, <1>7, <1>8
    DEF Next, vars, repo, Commit, Throw, LockThrows, SetTarget, SetThrows, StartCommit,
        CommitThrows, EndCommit, ConfigLockThrows, Catch

(* Every reference is a register with a lock: for any number of sessions and
   references, whatever is interleaved, interrupted and lost. *)
THEOREM ImplementsRegisters == Spec => RegisterSpec
  <1>1. Init => R!RInit
    BY RegistersStart
  <1> QED
    BY <1>1, InvInit, InvStep, RegistersStep, PTL DEF Spec, RegisterSpec, R!RSpec

(* What Registers promises: one writer at most can unlock a register, and what
   it read is still there. *)
HoldersCurrent ==
  \A r \in Ref : \A s \in Holders[r] :
    Holders[r] = {s} /\ r \in LockedRefs /\ base[s][r] = version[r]

LEMMA RegistersCurrent == R!RSpec => []HoldersCurrent
  <1> DEFINE IInv == /\ HoldersCurrent
                     /\ Holders \in [Ref -> SUBSET Session]
                     /\ version \in [Ref -> Int]
                     /\ base \in [Session -> [Ref -> Int]]
  <1>1. R!RInit => IInv
    BY DEF R!RInit, HoldersCurrent
  <1>2. IInv /\ [R!RNext]_(R!rvars) => IInv'
    <2> SUFFICES ASSUME IInv, [R!RNext]_(R!rvars) PROVE IInv'
      OBVIOUS
    <2> USE DEF HoldersCurrent
    <2>1. ASSUME NEW s \in Session, NEW r \in Ref, R!Acquire(s, r)
          PROVE  IInv'
      BY <2>1 DEF R!Acquire
    <2>2. ASSUME NEW s \in Session, NEW r \in Ref, R!Update(s, r) \/ R!Release(s, r)
          PROVE  IInv'
      BY <2>2 DEF R!Update, R!Release, R!Unlock
    <2>3. ASSUME NEW s \in Session, R!Leave(s) \/ R!Lose(s)
          PROVE  IInv'
      BY <2>3 DEF R!Leave, R!Lose, R!Gone
    <2>4. CASE UNCHANGED R!rvars
      BY <2>4 DEF R!rvars
    <2> QED
      BY <2>1, <2>2, <2>3, <2>4 DEF R!RNext
  <1> HIDE DEF IInv
  <1>3. IInv => HoldersCurrent
    BY DEF IInv
  <1> QED
    BY <1>1, <1>2, <1>3, PTL DEF R!RSpec

(* As long as a session can unlock a reference, nobody else can, and the value
   it read is still the reference's, also with locks of lost transactions
   about: carried over from Registers. *)
THEOREM HolderIsCurrent == Spec => []HoldersCurrent
  BY ImplementsRegisters, RegistersCurrent, PTL DEF RegisterSpec

-----------------------------------------------------------------------------
(* A commit comes to an end: what LockReleased needs besides fairness.     *)

(* While a session commits, nobody adds to the locks its commit works off, and
   each step of the commit works off one or is the commit's last. *)
CommitConverges ==
  [][\A s \in Session : pc[s] = "committing" /\ pc'[s] = "committing" =>
       /\ var'[s] = var[s]
       /\ Locks(var[s])' \subseteq Locks(var[s])
       /\ Commit(s) => Locks(var[s])' # Locks(var[s])]_vars

(* No step of another session takes a lock for the transaction of s. *)
LEMMA LocksNotTaken ==
  ASSUME Inv, Next, NEW s \in Session, pc[s] = "committing"
  PROVE  \A x \in Lockable : lock'[x] = var[s] => lock[x] = var[s]
  <1>1. /\ var[s] # NoTxn /\ var[s] \in live
        /\ \A s1 \in Session : var[s1] = var[s] => s1 = s
        /\ lock \in [Lockable -> Txn \cup {NoTxn}]
    BY DEF Inv, OneVariable, TypeOK
  <1>2. ASSUME NEW u \in Session, NEW t \in Txn, ConfigLock(u, t)
        PROVE  \A x \in Lockable : lock'[x] = var[s] => lock[x] = var[s]
    <2>1. t # var[s] /\ lock' = [lock EXCEPT ![Config] = t]
      BY <1>1, <1>2 DEF ConfigLock
    <2> QED
      BY <1>1, <2>1
  <1>3. ASSUME NEW u \in Session, NEW r \in Ref, LockReference(u, r)
        PROVE  \A x \in Lockable : lock'[x] = var[s] => lock[x] = var[s]
    <2>1. pc[u] = "in" /\ lock' = [lock EXCEPT ![r] = var[u]]
      BY <1>3 DEF LockReference
    <2>2. var[u] # var[s]
      BY <1>1, <2>1
    <2> QED
      BY <1>1, <2>1, <2>2
  <1>4. ASSUME NEW u \in Session, NEW r \in Ref, CommitOne(u, r)
        PROVE  \A x \in Lockable : lock'[x] = var[s] => lock[x] = var[s]
    <2>1. lock' = [lock EXCEPT ![r] = NoTxn]
      BY <1>4 DEF CommitOne
    <2> QED
      BY <1>1, <2>1
  <1>5. ASSUME NEW u \in Session, Destroy(u)
        PROVE  \A x \in Lockable : lock'[x] = var[s] => lock[x] = var[s]
    <2>1. lock' = [x \in Lockable |-> IF lock[x] = var[u] THEN NoTxn ELSE lock[x]]
      BY <1>5 DEF Destroy
    <2> QED
      BY <1>1, <2>1
  <1>6. CASE UNCHANGED lock
    BY <1>6
  <1> QED
    BY <1>2, <1>3, <1>4, <1>5, <1>6 DEF Next, Create, Reassign, LockThrows, SetTarget,
       SetThrows, StartCommit, Commit, CommitThrows, EndCommit, ConfigLockThrows, Catch,
       Throw, repo

(* Nobody assigns to its variable. *)
LEMMA VariableKept ==
  ASSUME Inv, Next, NEW s \in Session, pc[s] = "committing"
  PROVE  var'[s] = var[s]
  <1>1. var \in [Session -> Txn \cup {NoTxn}]
    BY DEF Inv, TypeOK
  <1>2. ASSUME NEW u \in Session, NEW t \in Txn, Create(u, t) \/ Reassign(u, t)
        PROVE  var'[s] = var[s]
    <2>1. u # s /\ var' = [var EXCEPT ![u] = t]
      BY <1>2 DEF Create, Reassign, New
    <2> QED
      BY <1>1, <2>1
  <1>3. ASSUME NEW u \in Session, Destroy(u)
        PROVE  var'[s] = var[s]
    <2>1. u # s /\ var' = [var EXCEPT ![u] = NoTxn]
      BY <1>3 DEF Destroy
    <2> QED
      BY <1>1, <2>1
  <1>4. CASE UNCHANGED var
    BY <1>4
  <1> QED
    BY <1>2, <1>3, <1>4 DEF Next, ConfigLock, LockReference, LockThrows, SetTarget, SetThrows,
       StartCommit, Commit, CommitOne, CommitThrows, EndCommit, ConfigLockThrows, Catch, Throw

(* A commit that was started has at most as many steps as its transaction had
   locks, whatever the other sessions do in between: none can make it longer. *)
THEOREM CommitsEnd == Spec => CommitConverges
  <1>1. ASSUME Inv, Next, NEW s \in Session, pc[s] = "committing", pc'[s] = "committing"
        PROVE  /\ var'[s] = var[s]
               /\ Locks(var[s])' \subseteq Locks(var[s])
               /\ Commit(s) => Locks(var[s])' # Locks(var[s])
    <2>1. var'[s] = var[s]
      BY <1>1, VariableKept
    <2>2. Locks(var[s])' = {x \in Lockable : lock'[x] = var[s]}
      BY <2>1 DEF Locks
    <2>3. Locks(var[s])' \subseteq Locks(var[s])
      BY <1>1, <2>2, LocksNotTaken DEF Locks
    <2>4. ASSUME Commit(s)
          PROVE  Locks(var[s])' # Locks(var[s])
      <3>1. PICK r \in Ref : CommitOne(s, r)
        BY <1>1, <2>4 DEF Commit, CommitThrows, EndCommit, Throw, Inv, TypeOK
      <3>2. /\ lock[r] = var[s] /\ lock' = [lock EXCEPT ![r] = NoTxn] /\ var[s] # NoTxn
            /\ lock \in [Lockable -> Txn \cup {NoTxn}] /\ r \in Lockable
        BY <1>1, <3>1 DEF CommitOne, Inv, TypeOK, OneVariable, Lockable
      <3>3. r \in Locks(var[s]) /\ r \notin Locks(var[s])'
        BY <2>2, <3>2 DEF Locks
      <3> QED
        BY <3>3
    <2> QED
      BY <2>1, <2>3, <2>4
  <1>2. Inv /\ [Next]_vars =>
          [\A s \in Session : pc[s] = "committing" /\ pc'[s] = "committing" =>
             /\ var'[s] = var[s]
             /\ Locks(var[s])' \subseteq Locks(var[s])
             /\ Commit(s) => Locks(var[s])' # Locks(var[s])]_vars
    BY <1>1
  <1> QED
    BY <1>2, InvInit, InvStep, PTL DEF Spec, CommitConverges
=============================================================================
