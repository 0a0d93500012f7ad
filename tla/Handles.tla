------------------------------ MODULE Handles ------------------------------
(***************************************************************************)
(* What owning handles promise: each handle holds at most one object, and  *)
(* an object's count is the number of handles that hold it, so that it is  *)
(* released exactly when its last handle lets go.  README.md:706-726 and   *)
(* the comments on the wrappers' constructors promise this of cppgit2.     *)
(***************************************************************************)
EXTENDS Integers

CONSTANTS Handle, Object, Nothing

VARIABLES holds,  \* holds[h]: the object of h, or Nothing
          count   \* count[o]: references to o that are still to be released

hvars == <<holds, count>>

HInit == /\ holds = [h \in Handle |-> Nothing]
         /\ count = [o \in Object |-> 0]

(* The counts after one reference to `lost` is released and one to `gained`
   is taken; either may be Nothing. *)
Exchange(lost, gained) ==
  count' = [o \in Object |-> count[o] - (IF o = lost THEN 1 ELSE 0)
                                      + (IF o = gained THEN 1 ELSE 0)]

(* h lets go of what it holds and takes a new reference to o, or to nothing. *)
Take(h, o) == /\ Exchange(holds[h], o)
              /\ holds' = [holds EXCEPT ![h] = o]

(* g lets go of what it holds and takes over what h holds. *)
Pass(g, h) == /\ g # h
              /\ Exchange(holds[g], Nothing)
              /\ holds' = [holds EXCEPT ![g] = holds[h], ![h] = Nothing]

HNext == \/ \E h \in Handle, o \in Object \cup {Nothing} : Take(h, o)
         \/ \E g, h \in Handle : Pass(g, h)

HSpec == HInit /\ [][HNext]_hvars
=============================================================================
