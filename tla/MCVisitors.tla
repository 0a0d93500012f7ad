----------------------------- MODULE MCVisitors -----------------------------
(* Items and functions are interchangeable. *)
EXTENDS Visitors, TLC

Symmetry == Permutations(Item) \cup Permutations(Fn)
=============================================================================
