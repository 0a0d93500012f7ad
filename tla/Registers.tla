----------------------------- MODULE Registers ------------------------------
(***************************************************************************)
(* What transactions promise about references (transaction.hpp:32-34):     *)
(* each is a register that is locked before it is written, and that a      *)
(* writer changes from the value it read under its lock, as a compare-and- *)
(* swap does, giving up the lock in the same step.  A writer that goes     *)
(* away unlocks everything; one may lose its locks, and then nobody can    *)
(* write those registers any more.                                         *)
(***************************************************************************)
EXTENDS Integers

CONSTANTS Writer, Register

VARIABLES value,   \* value[r]: how often r was updated
          locked,  \* the registers that are locked
          holds,   \* holds[r]: the writer that can unlock r, as a set
          read     \* read[w][r]: what w read when it locked r

rvars == <<value, locked, holds, read>>

RInit ==
  /\ value = [r \in Register |-> 0]
  /\ locked = {}
  /\ holds = [r \in Register |-> {}]
  /\ read = [w \in Writer |-> [r \in Register |-> 0]]

Acquire(w, r) ==
  /\ r \notin locked
  /\ locked' = locked \cup {r}
  /\ holds' = [holds EXCEPT ![r] = {w}]
  /\ read' = [read EXCEPT ![w][r] = value[r]]
  /\ UNCHANGED value

Unlock(w, r) ==
  /\ holds[r] = {w}
  /\ locked' = locked \ {r}
  /\ holds' = [holds EXCEPT ![r] = {}]
  /\ UNCHANGED read

(* The value that was read is still there, and is swapped for the next. *)
Update(w, r) ==
  /\ Unlock(w, r)
  /\ read[w][r] = value[r]
  /\ value' = [value EXCEPT ![r] = read[w][r] + 1]

Release(w, r) == Unlock(w, r) /\ UNCHANGED value

(* w goes away, or loses its locks. *)
Gone(w) ==
  /\ holds' = [r \in Register |-> holds[r] \ {w}]
  /\ UNCHANGED value

Leave(w) ==
  /\ Gone(w)
  /\ locked' = {r \in locked : w \notin holds[r]}
  /\ read' = [read EXCEPT ![w] = [r \in Register |-> 0]]

Lose(w) == Gone(w) /\ UNCHANGED <<locked, read>>

RNext ==
  \/ \E w \in Writer, r \in Register : Acquire(w, r) \/ Update(w, r) \/ Release(w, r)
  \/ \E w \in Writer : Leave(w) \/ Lose(w)

RSpec == RInit /\ [][RNext]_rvars
=============================================================================
