---------------------------- MODULE MCOwnership ----------------------------
(* Symmetry of the small client programs the model checker runs: the names *)
(* of variables, and of addresses of one kind, do not matter.              *)
EXTENDS Ownership, TLC

Symmetry == Permutations(Slot)
            \cup Permutations(Obj \ CacheObj) \cup Permutations(CacheObj)
=============================================================================
