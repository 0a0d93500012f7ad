----------------------------- MODULE MCRevWalk -----------------------------
(* A merge: m has the parents l and r, both children of the root commit. *)
EXTENDS RevWalk, TLC

CONSTANTS m, l, r, root

MCAncestors == (m :> {m, l, r, root}) @@ (l :> {l, root}) @@ (r :> {r, root}) @@ (root :> {root})
=============================================================================
