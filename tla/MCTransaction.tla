--------------------------- MODULE MCTransaction ---------------------------
(* Sessions, references and transaction objects are interchangeable. *)
EXTENDS Transaction, TLC

Symmetry == Permutations(Session) \cup Permutations(Ref) \cup Permutations(Txn)
=============================================================================
