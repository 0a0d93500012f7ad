----------------------------- MODULE RebaseList -----------------------------
(***************************************************************************)
(* What a rebase promises about the repository, whatever is interrupted:   *)
(* commits pile up beside the branch in the order of the operations, and   *)
(* the branch itself moves to all of them at once, or back; an abort that  *)
(* ends has put it back.  One case is left out of the promise: when HEAD   *)
(* is on the branch while there is a rebase (cut), commits can go astray,  *)
(* on top of the branch as it was; but they never pass for a rebase.       *)
(***************************************************************************)
EXTENDS Integers, Sequences

CONSTANTS Size,  \* the number of operations
          Orig,  \* the branch as it was
          Mixed  \* the branch with stray commits on top

VARIABLES branch,    \* Orig, Mixed, or the operations applied to the new base
          applied,   \* the operations committed beside the branch
          cut,       \* there is a rebase, but HEAD is on the branch
          aborting   \* somebody is putting the branch back

vars == <<branch, applied, cut, aborting>>

Init == branch = Orig /\ applied = <<>> /\ cut = FALSE /\ aborting = FALSE

Apply(op) ==
  /\ ~cut
  /\ \A i \in DOMAIN applied : applied[i] < op
  /\ applied' = Append(applied, op)
  /\ UNCHANGED <<branch, cut, aborting>>

Finish ==
  /\ ~cut /\ branch = Orig
  /\ branch' = applied
  /\ UNCHANGED <<applied, cut, aborting>>

(* The rebase was begun, but no further. *)
StartCut ==
  /\ branch = Orig /\ applied = <<>>
  /\ cut' = TRUE
  /\ UNCHANGED <<branch, applied, aborting>>

AbortBegins ==
  /\ ~aborting
  /\ cut' = TRUE /\ aborting' = TRUE
  /\ applied' = <<>>
  /\ UNCHANGED branch

Reset == aborting /\ branch' = Orig /\ UNCHANGED <<applied, cut, aborting>>

AbortEnds ==
  /\ aborting /\ branch = Orig
  /\ cut' = FALSE /\ aborting' = FALSE
  /\ UNCHANGED <<branch, applied>>

AbortCut == aborting /\ aborting' = FALSE /\ UNCHANGED <<branch, applied, cut>>

Stray == cut /\ ~aborting /\ branch' = Mixed /\ UNCHANGED <<applied, cut, aborting>>

(* The rebase is declared over with the branch as it is. *)
Settle == cut /\ ~aborting /\ cut' = FALSE /\ UNCHANGED <<branch, applied, aborting>>

Next ==
  \/ Finish \/ StartCut
  \/ AbortBegins \/ Reset \/ AbortEnds \/ AbortCut
  \/ Stray \/ Settle
  \/ \E op \in 1..Size : Apply(op)

Spec == Init /\ [][Next]_vars
=============================================================================
