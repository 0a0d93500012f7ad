------------------------------ MODULE MCCalls -------------------------------
(* Calls with the programs of Facade. *)
EXTENDS Calls, Facade

=============================================================================
