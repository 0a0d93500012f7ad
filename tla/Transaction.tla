---------------------------- MODULE Transaction ----------------------------
(***************************************************************************)
(* Reference transactions: cppgit2::transaction, repository::create_trans- *)
(* action and config::lock, used by several sessions (processes) on one    *)
(* repository.                                                             *)
(*                                                                         *)
(* The locks are libgit2's: a lock is taken for a transaction object, and  *)
(* is released when the object is committed or freed.  A session holds its *)
(* transaction in one C++ variable; every failing call throws, and the     *)
(* unwinding runs the variable's destructor, which frees the object.       *)
(***************************************************************************)
EXTENDS Integers

CONSTANTS Session, Ref,
          Txn,         \* libgit2 transaction objects
          NoTxn,       \* a null c_ptr_; also the holder of a free lock
          Config,      \* the lock of the configuration file
          Reassigns,   \* do sessions move-assign a new transaction over the old?
          LocksConfig, \* do sessions call config::lock?
          MaxUpdates   \* bound: updates written to one reference

ASSUME TransactionAssumption ==
  /\ NoTxn \notin Txn
  /\ Config \notin Ref
  /\ Reassigns \in BOOLEAN /\ LocksConfig \in BOOLEAN
  /\ MaxUpdates \in Nat

VARIABLES lock,      \* libgit2: lock[x], the transaction that holds x
          live,      \* libgit2: the transaction objects not yet freed
          queued,    \* libgit2: queued[t], the references t will update
          version,   \* version[r]: the value of r, as the number of updates it saw
          applied,   \* applied[r]: how many updates were written to r
          var,       \* var[s]: c_ptr_ of the session's variable
          pc,        \* pc[s]: "out" of the scope, "in" it, "committing", "threw"
          base,      \* base[s][r]: the version s saw when it locked r
          abandoned  \* the transactions whose last pointer was lost

repo == <<lock, live, queued, version, applied>>
vars == <<repo, var, pc, base, abandoned>>

Lockable == Ref \cup {Config}

Locks(t) == {x \in Lockable : lock[x] = t}

Owned == {var[s] : s \in Session}

-----------------------------------------------------------------------------

Init ==
  /\ lock = [x \in Lockable |-> NoTxn]
  /\ live = {}
  /\ queued = [t \in Txn |-> {}]
  /\ version = [r \in Ref |-> 0]
  /\ applied = [r \in Ref |-> 0]
  /\ var = [s \in Session |-> NoTxn]
  /\ pc = [s \in Session |-> "out"]
  /\ base = [s \in Session |-> [r \in Ref |-> 0]]
  /\ abandoned = {}

(* git_transaction_new stored t in the session's variable. *)
New(s, t) ==
  /\ t \in Txn \ live
  /\ live' = live \cup {t}
  /\ queued' = [queued EXCEPT ![t] = {}]
  /\ var' = [var EXCEPT ![s] = t]

(* auto t = repo.create_transaction(); *)
Create(s, t) ==
  /\ pc[s] = "out"
  /\ New(s, t)
  /\ pc' = [pc EXCEPT ![s] = "in"]
  /\ UNCHANGED <<lock, version, applied, base, abandoned>>

(* t = repo.create_transaction(): the move assignment overwrites c_ptr_ and
   frees nothing. *)
Reassign(s, t) ==
  /\ Reassigns
  /\ pc[s] = "in"
  /\ New(s, t)
  /\ abandoned' = abandoned \cup {var[s]}
  /\ UNCHANGED <<lock, version, applied, pc, base>>

(* Mutant: an exception nobody handles. *)
ThrowUnknown(s) ==
  /\ pc' = [pc EXCEPT ![s] = "unknown"]
  /\ UNCHANGED <<repo, var, base, abandoned>>

Throw(s) ==
  /\ pc' = [pc EXCEPT ![s] = "threw"]
  /\ UNCHANGED <<repo, var, base, abandoned>>

(* The session catches the exception before the variable's scope is left. *)
Catch(s) ==
  /\ pc[s] = "threw"
  /\ pc' = [pc EXCEPT ![s] = "in"]
  /\ UNCHANGED <<repo, var, base, abandoned>>

(* Mutant: a lock that is taken is taken over. *)
LockTakenOver(s, r) ==
  /\ pc[s] = "in"
  /\ lock' = [lock EXCEPT ![r] = var[s]]
  /\ base' = [base EXCEPT ![s][r] = version[r]]
  /\ UNCHANGED <<live, queued, version, applied, var, pc, abandoned>>

(* lock_reference: libgit2 takes the lock, and the session reads the
   reference it is about to update, ... *)
LockReference(s, r) ==
  /\ pc[s] = "in"
  /\ lock[r] = NoTxn
  /\ lock' = [lock EXCEPT ![r] = var[s]]
  /\ base' = [base EXCEPT ![s][r] = version[r]]
  /\ UNCHANGED <<live, queued, version, applied, var, pc, abandoned>>

(* ... or finds it taken (GIT_ELOCKED). *)
LockThrows(s, r) ==
  /\ pc[s] = "in"
  /\ lock[r] # NoTxn
  /\ Throw(s)

(* set_target, set_symbolic_target, set_reflog, remove_reference: only for a
   reference this transaction has locked. *)
SetTarget(s, r) ==
  /\ pc[s] = "in"
  /\ lock[r] = var[s]
  /\ applied[r] < MaxUpdates
  /\ queued' = [queued EXCEPT ![var[s]] = @ \cup {r}]
  /\ UNCHANGED <<lock, live, version, applied, var, pc, base, abandoned>>

SetThrows(s, r) ==
  /\ pc[s] = "in"
  /\ lock[r] # var[s]
  /\ Throw(s)

(* commit: libgit2 writes the locked references one by one and unlocks each;
   other processes run in between. *)
StartCommit(s) ==
  /\ pc[s] = "in"
  /\ pc' = [pc EXCEPT ![s] = "committing"]
  /\ UNCHANGED <<repo, var, base, abandoned>>

(* Mutant: a commit that leaves the references it wrote locked. *)
CommitKeepsLock(s, r) ==
  /\ pc[s] = "committing"
  /\ lock[r] = var[s]
  /\ r \in queued[var[s]]
  /\ version' = [version EXCEPT ![r] = base[s][r] + 1]
  /\ applied' = [applied EXCEPT ![r] = @ + 1]
  /\ queued' = [queued EXCEPT ![var[s]] = @ \ {r}]
  /\ UNCHANGED <<lock, live, var, pc, base, abandoned>>

CommitOne(s, r) ==
  /\ pc[s] = "committing"
  /\ lock[r] = var[s]
  /\ lock' = [lock EXCEPT ![r] = NoTxn]
  /\ IF r \in queued[var[s]]
     THEN /\ version' = [version EXCEPT ![r] = base[s][r] + 1]
          /\ applied' = [applied EXCEPT ![r] = @ + 1]
     ELSE UNCHANGED <<version, applied>>
  /\ queued' = [queued EXCEPT ![var[s]] = @ \ {r}]
  /\ UNCHANGED <<live, var, pc, base, abandoned>>

CommitThrows(s) ==
  /\ pc[s] = "committing"
  /\ Locks(var[s]) # {}
  /\ Throw(s)

EndCommit(s) ==
  /\ pc[s] = "committing"
  /\ Locks(var[s]) = {}
  /\ pc' = [pc EXCEPT ![s] = "in"]
  /\ UNCHANGED <<repo, var, base, abandoned>>

(* config::lock: git_config_lock stores the transaction in a local pointer,
   and the one that is returned stays null. *)
ConfigLock(s, t) ==
  /\ LocksConfig
  /\ pc[s] = "in"
  /\ lock[Config] = NoTxn
  /\ t \in Txn \ live
  /\ live' = live \cup {t}
  /\ lock' = [lock EXCEPT ![Config] = t]
  /\ abandoned' = abandoned \cup {t}
  /\ UNCHANGED <<queued, version, applied, var, pc, base>>

ConfigLockThrows(s) ==
  /\ LocksConfig
  /\ pc[s] = "in"
  /\ lock[Config] # NoTxn
  /\ Throw(s)

(* Mutant: a destructor that does not free the transaction. *)
DestroyLeaks(s) ==
  /\ pc[s] \in {"in", "threw"}
  /\ var' = [var EXCEPT ![s] = NoTxn]
  /\ pc' = [pc EXCEPT ![s] = "out"]
  /\ base' = [base EXCEPT ![s] = [r \in Ref |-> 0]]
  /\ UNCHANGED <<repo, abandoned>>

(* ~transaction, at the end of the scope or during unwinding:
   git_transaction_free unlocks what is still locked. *)
Destroy(s) ==
  /\ pc[s] \in {"in", "threw"}
  /\ lock' = [x \in Lockable |-> IF lock[x] = var[s] THEN NoTxn ELSE lock[x]]
  /\ live' = live \ {var[s]}
  /\ queued' = [queued EXCEPT ![var[s]] = {}]
  /\ var' = [var EXCEPT ![s] = NoTxn]
  /\ pc' = [pc EXCEPT ![s] = "out"]
  /\ base' = [base EXCEPT ![s] = [r \in Ref |-> 0]]
  /\ UNCHANGED <<version, applied, abandoned>>

Commit(s) == (\E r \in Ref : CommitOne(s, r)) \/ CommitThrows(s) \/ EndCommit(s)

Next ==
  \/ \E s \in Session, t \in Txn : Create(s, t) \/ Reassign(s, t) \/ ConfigLock(s, t)
  \/ \E s \in Session, r \in Ref :
       LockReference(s, r) \/ LockThrows(s, r) \/ SetTarget(s, r) \/ SetThrows(s, r)
  \/ \E s \in Session :
       StartCommit(s) \/ Commit(s) \/ ConfigLockThrows(s) \/ Catch(s) \/ Destroy(s)

(* A commit that was started goes on, and every scope is left eventually: by
   its end or by an exception. *)
Fairness == \A s \in Session : WF_vars(Commit(s)) /\ SF_vars(Destroy(s))

Spec == Init /\ [][Next]_vars /\ Fairness

-----------------------------------------------------------------------------

TypeOK ==
  /\ lock \in [Lockable -> Txn \cup {NoTxn}]
  /\ live \subseteq Txn
  /\ queued \in [Txn -> SUBSET Ref]
  /\ version \in [Ref -> Nat] /\ applied \in [Ref -> Nat]
  /\ var \in [Session -> Txn \cup {NoTxn}]
  /\ pc \in [Session -> {"out", "in", "committing", "threw"}]
  /\ base \in [Session -> [Ref -> Nat]]
  /\ abandoned \subseteq Txn \cup {NoTxn}

(* Every lock belongs to a transaction that some variable will free or commit,
   whatever throws: no session can leave a reference or the configuration
   locked behind it (transaction.hpp:17, config.hpp:150). *)
LockHasOwner == \A x \in Lockable : lock[x] # NoTxn => lock[x] \in Owned

(* The only locks nobody can release are those of the transactions that a move
   assignment overwrote or config::lock lost: no exception, commit that stops
   half-way or end of a scope leaves another one behind. *)
LocksAccounted ==
  \A x \in Lockable : lock[x] # NoTxn => lock[x] \in Owned \cup abandoned

(* No update is lost: a reference's value reflects every update that was
   written to it, however sessions interleave, commit half-way and unwind. *)
NoLostUpdate == \A r \in Ref : version[r] = applied[r]

(* Who can unlock a reference: the session whose variable has its transaction,
   or nobody any more. *)
LockedRefs == {r \in Ref : lock[r] # NoTxn}
Holders == [r \in Ref |-> {s \in Session : lock[r] # NoTxn /\ var[s] = lock[r]}]

R == INSTANCE Registers WITH Writer <- Session, Register <- Ref, value <- version,
                             locked <- LockedRefs, holds <- Holders, read <- base

(* However sessions interleave, throw, commit half-way, unwind and lose
   transactions, each reference is a register with a lock: one session at a
   time can write it, and swaps the value it read for the next. *)
RegisterSpec == R!RSpec

(* Every lock is released in the end, or its transaction has been lost. *)
LockReleased ==
  \A x \in Lockable : lock[x] # NoTxn ~> lock[x] \in {NoTxn} \cup abandoned
=============================================================================
