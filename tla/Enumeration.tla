---------------------------- MODULE Enumeration ----------------------------
(***************************************************************************)
(* What an iterator promises to the loop that uses it: it gives what is    *)
(* wanted, each element once, and is over when it has given all.  An       *)
(* enumeration that has become faulty - the iterator failed or was begun   *)
(* wrongly - may give anything, end when it likes, and never recovers.     *)
(* The loop may be left while it has an element, and another enumeration   *)
(* be begun.                                                               *)
(***************************************************************************)
VARIABLES want,   \* what is to be given: any set, chosen at the beginning
          given,  \* what has been given
          state,  \* "idle", "asking", "holding" an element, "over" or "left"
          faulty

evars == <<want, given, state, faulty>>

EInit == want = {} /\ given = {} /\ state = "idle" /\ faulty = FALSE

(* want' may be any set. *)
Begin ==
  /\ state = "idle"
  /\ state' = "asking"
  /\ given' = {}
  /\ faulty' \in BOOLEAN

Give(x) ==
  /\ state = "asking"
  /\ faulty \/ x \in want \ given
  /\ given' = given \cup {x}
  /\ state' = "holding"
  /\ UNCHANGED <<want, faulty>>

(* What the iterator gives when it fails, if anything, need not be wanted. *)
Fault ==
  /\ state = "asking"
  /\ state' \in {"asking", "holding"}
  /\ given \subseteq given'
  /\ faulty' = TRUE
  /\ UNCHANGED want

Back ==
  /\ state = "holding"
  /\ state' = "asking"
  /\ UNCHANGED <<want, given, faulty>>

Over ==
  /\ state = "asking"
  /\ faulty \/ given = want
  /\ state' = "over"
  /\ UNCHANGED <<want, given, faulty>>

Leave ==
  /\ state \in {"asking", "holding"}
  /\ state' = "left"
  /\ UNCHANGED <<want, given, faulty>>

Forget ==
  /\ state \in {"over", "left"}
  /\ want' = {} /\ given' = {} /\ state' = "idle" /\ faulty' = FALSE

ENext ==
  \/ Begin \/ (\E x \in given' : Give(x)) \/ Fault \/ Back \/ Over \/ Leave \/ Forget

ESpec == EInit /\ [][ENext]_evars
=============================================================================
