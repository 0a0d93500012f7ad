---------------------------- MODULE RebaseProofs ----------------------------
(***************************************************************************)
(* Proofs about Rebase, for any number of operations, whichever of them    *)
(* conflict or are contained in the new base, and any number of crashes    *)
(* and errors.                                                             *)
(***************************************************************************)
EXTENDS Rebase, SequenceTheorems, TLAPS

Memory == [at : 0..Size, inMemory : BOOLEAN, patch : 0..Size, commits : Seq(Op)]

(* The inductive invariant.  The commits s, when the rebase has come to    *)
(* operation at and patch is staged: they are in order, none is later, and *)
(* of the operations up to at none is missing but those the client may     *)
(* miss (lost), the staged one, and the one next() is about to apply       *)
(* (moving).                                                               *)
Picked(s, at, patch, moving, lost) ==
  /\ Increasing(s)
  /\ patch \in {0, at}
  /\ \A i \in DOMAIN s : s[i] <= at /\ (moving \/ patch # 0 => s[i] < at)
  /\ (1..at) \ (Contained \cup lost \cup {patch} \cup (IF moving THEN {at} ELSE {}))
       \subseteq Range(s)

(* The files, HEAD and the index say it, whether a process looks at them   *)
(* or not, unless HEAD is on the branch; and what is in memory agrees with *)
(* the files, but that it may be some operations ahead that were missed.   *)
Steady ==
  /\ mem = NULL <=> pc = "start"
  /\ onDisk => index \in {0, msgnum}
  /\ onDisk /\ ~attached => Picked(head, msgnum, index, pc = "applying", unsure)
  /\ attached => onDisk /\ head = <<>>
  /\ ~onDisk => head = <<>> /\ branch = Orig
  /\ branch = Mixed => attached
  /\ mem # NULL => onDisk = ~mem.inMemory
  /\ mem # NULL /\ ~mem.inMemory =>
       /\ msgnum <= mem.at
       /\ pc = "applying" => msgnum = mem.at
       /\ ~attached => Picked(head, mem.at, index, pc = "applying", unsure)
  /\ mem # NULL /\ mem.inMemory =>
       Picked(mem.commits, mem.at, mem.patch, pc = "applying", unsure)
  /\ pc \in {"loop", "applying", "failed", "over", "finishing"} => Patch = 0
  /\ pc \in {"over", "finishing"} => mem.at = Size
  /\ pc = "applying" => mem.at # 0
  /\ pc \in {"aborting", "cleaning"} => onDisk /\ attached
  /\ pc = "cleaning" => branch = Orig

IInv == TypeOK /\ InOrder /\ Complete /\ (pc # "done" => Steady)

-----------------------------------------------------------------------------
(* What the calls do to the commits, on disk and in memory alike.          *)

LEMMA AppendFacts ==
  ASSUME NEW s \in Seq(Op), NEW p \in Op
  PROVE  /\ Append(s, p) \in Seq(Op)
         /\ \A i \in DOMAIN s : i \in DOMAIN Append(s, p) /\ Append(s, p)[i] = s[i]
         /\ \A i \in DOMAIN Append(s, p) : i \in DOMAIN s \/ Append(s, p)[i] = p
         /\ Range(Append(s, p)) = Range(s) \cup {p}
  <1>1. PICK n \in Nat : Len(s) = n
    OBVIOUS
  <1>2. /\ Append(s, p) \in Seq(Op) /\ DOMAIN s = 1 .. n /\ DOMAIN Append(s, p) = 1 .. n + 1
        /\ \A i \in 1 .. n : Append(s, p)[i] = s[i]
        /\ Append(s, p)[n + 1] = p
    BY <1>1
  <1>3. \A i \in 1 .. n + 1 : i \in 1 .. n \/ i = n + 1
    OBVIOUS
  <1>4. n + 1 \in 1 .. n + 1 /\ \A i \in 1 .. n : i \in 1 .. n + 1
    OBVIOUS
  <1>5. Range(Append(s, p)) = Range(s) \cup {p}
    <2>1. ASSUME NEW x \in Range(Append(s, p))
          PROVE  x \in Range(s) \cup {p}
      BY <1>2, <1>3, Zenon DEF Range
    <2>2. ASSUME NEW x \in Range(s)
          PROVE  x \in Range(Append(s, p))
      BY <1>2, <1>4, Zenon DEF Range
    <2>3. p \in Range(Append(s, p))
      BY <1>2, <1>4, Zenon DEF Range
    <2> QED
      BY <2>1, <2>2, <2>3
  <1> QED
    BY <1>2, <1>3, <1>4, <1>5, Zenon

LEMMA Elements ==
  ASSUME NEW s \in Seq(Op)
  PROVE  \A i \in DOMAIN s : s[i] \in Op /\ s[i] \in Int
  <1>1. DOMAIN s = 1..Len(s) /\ \A i \in 1..Len(s) : s[i] \in Op
    OBVIOUS
  <1>2. \A op \in Op : op \in Int
    BY DEF Op
  <1> QED
    BY <1>1, <1>2, Zenon

LEMMA PickedStarts ==
  ASSUME NEW L
  PROVE  Picked(<<>>, 0, 0, FALSE, L)
  BY DEF Picked, Increasing

LEMMA PickedMoves ==
  ASSUME NEW s \in Seq(Op), NEW at \in 0..Size, NEW L, Picked(s, at, 0, FALSE, L)
  PROVE  Picked(s, at + 1, 0, TRUE, L)
  <1>1. \A i \in DOMAIN s : s[i] \in Int /\ s[i] <= at
    BY Elements DEF Picked
  <1>2. \A i \in DOMAIN s : s[i] <= at + 1 /\ s[i] < at + 1
    BY <1>1
  <1>3. ASSUME NEW op \in 1..(at + 1), op \notin Contained \cup L \cup {0} \cup {at + 1}
        PROVE  op \in Range(s)
    <2>1. op \in 1..at
      BY <1>3
    <2> QED
      BY <2>1, <1>3 DEF Picked
  <1> QED
    BY <1>2, <1>3 DEF Picked

LEMMA PickedApplies ==
  ASSUME NEW s \in Seq(Op), NEW at \in 0..Size, NEW L, Picked(s, at, 0, TRUE, L), NEW patch,
         patch = IF at \in Contained \cup Range(s) THEN 0 ELSE at
  PROVE  Picked(s, at, patch, FALSE, L)
  BY DEF Picked

LEMMA PickedMore ==
  ASSUME NEW s, NEW at, NEW patch, NEW moving, NEW L, NEW M, Picked(s, at, patch, moving, L)
  PROVE  Picked(s, at, patch, moving, L \cup M)
  BY DEF Picked

LEMMA PickedThrows ==
  ASSUME NEW s \in Seq(Op), NEW at \in 0..Size, NEW L, NEW patch \in 0..Size, NEW moving \in BOOLEAN,
         Picked(s, at, patch, moving, L)
  PROVE  /\ Picked(s, at, patch, FALSE, L \cup {at})
         /\ ~moving => Picked(s, at, patch, FALSE, L)
  BY DEF Picked

LEMMA PickedCommits ==
  ASSUME NEW s \in Seq(Op), NEW at \in 0..Size, NEW L, NEW patch \in Op,
         Picked(s, at, patch, FALSE, L)
  PROVE  /\ \A i \in DOMAIN s : s[i] < patch
         /\ Picked(Append(s, patch), at, 0, FALSE, L)
  <1>1. patch = at /\ patch # 0 /\ at \in Int
    BY DEF Picked, Op
  <1>2. \A i \in DOMAIN s : s[i] < patch /\ s[i] \in Int
    BY <1>1, Elements DEF Picked
  <1> DEFINE t == Append(s, patch)
  <1>3. PICK n \in Nat : n = Len(s)
    OBVIOUS
  <1>4. /\ DOMAIN s = 1..n /\ DOMAIN t = 1..(n + 1) /\ t[n + 1] = patch
        /\ \A i \in 1..n : t[i] = s[i]
    BY <1>3
  <1>5. Range(t) = Range(s) \cup {patch}
    BY AppendFacts
  <1> HIDE DEF t
  <1>6. Increasing(t)
    <2>1. SUFFICES ASSUME NEW i \in 1..(n + 1), NEW j \in 1..(n + 1), i < j
                   PROVE  t[i] < t[j]
      BY <1>4 DEF Increasing
    <2>2. i \in 1..n /\ (j \in 1..n \/ j = n + 1)
      BY <2>1
    <2>3. CASE j \in 1..n
      <3>1. s[i] < s[j]
        BY <2>1, <2>2, <2>3, <1>4 DEF Picked, Increasing
      <3> QED
        BY <2>2, <2>3, <3>1, <1>4
    <2>4. CASE j = n + 1
      BY <2>2, <2>4, <1>2, <1>4
    <2> QED
      BY <2>2, <2>3, <2>4
  <1>7. ASSUME NEW i \in DOMAIN t
        PROVE  t[i] <= at
    <2>1. i \in 1..n \/ i = n + 1
      BY <1>4
    <2> QED
      BY <2>1, <1>1, <1>2, <1>4
  <1>8. (1..at) \ (Contained \cup L \cup {0} \cup {}) \subseteq Range(t)
    BY <1>1, <1>5 DEF Picked
  <1>9. Picked(t, at, 0, FALSE, L)
    BY <1>6, <1>7, <1>8 DEF Picked
  <1> QED
    BY <1>2, <1>9 DEF t

LEMMA PickedAll ==
  ASSUME NEW s \in Seq(Op), Picked(s, Size, 0, FALSE, unsure)
  PROVE  AllIn(s)
  BY DEF Picked, AllIn, Op

-----------------------------------------------------------------------------

LEMMA Distinct == NULL \notin Memory /\ Orig \notin Seq(Op) /\ Mixed \notin Seq(Op) /\ Orig # Mixed
  <1>1. \A op \in Op : op \in Int
    BY DEF Op
  <1>2. ASSUME NEW s \in Seq(Op)
        PROVE  s \in Seq(Int)
    BY <1>1, SeqMonotonic
  <1>3. 0..Size \subseteq Int
    OBVIOUS
  <1>4. Memory \subseteq [at : Int, inMemory : BOOLEAN, patch : Int, commits : Seq(Int)]
    BY <1>2, <1>3, Zenon DEF Memory
  <1> QED
    BY <1>2, <1>4, RebaseAssumption

LEMMA TypeStep ==
  ASSUME TypeOK, Steady \/ pc = "done", [Next]_vars
  PROVE  TypeOK'
  <1> USE DEF TypeOK, Memory, disk
  <1>1. Size \in Nat /\ MaxErrors \in Nat /\ MaxCrashes \in Nat
    BY RebaseAssumption
  <1>2. CASE UNCHANGED vars
    BY <1>2 DEF vars
  <1>3. ASSUME pc \notin {"start", "done"}
        PROVE  mem \in Memory
    BY <1>3 DEF Steady
  <1>4. ASSUME NEW m \in BOOLEAN, InitRebase(m)
        PROVE  TypeOK'
    <2>1. <<>> \in Seq(Op)
      OBVIOUS
    <2>2. [at |-> 0, inMemory |-> m, patch |-> 0, commits |-> <<>>] \in Memory
      BY <1>1, <2>1
    <2> QED
      BY <1>1, <1>4, <2>1, <2>2 DEF InitRebase
  <1>5. CASE OpenRebase
    <2>1. [at |-> msgnum, inMemory |-> FALSE, patch |-> 0, commits |-> <<>>] \in Memory
      BY <1>1
    <2> QED
      BY <1>5, <2>1 DEF OpenRebase
  <1>6. CASE NextMoves
    <2>1. mem \in Memory /\ mem.at + 1 \in 0..Size
      BY <1>1, <1>3, <1>6 DEF NextMoves
    <2> DEFINE k == mem.at + 1
    <2>2. mem' = [mem EXCEPT !.at = k] /\ msgnum' \in {msgnum, k}
      BY <1>6 DEF NextMoves
    <2> HIDE DEF k
    <2>3. mem' \in Memory /\ msgnum' \in 0..Size
      BY <2>1, <2>2 DEF k
    <2> QED
      BY <1>6, <2>3 DEF NextMoves
  <1>7. CASE NextApplies
    <2>1. PICK patch \in Staged :
            /\ unmerged' = (patch \in Conflicting)
            /\ IF mem.inMemory THEN mem' = [mem EXCEPT !.patch = patch] /\ index' = index
                               ELSE index' = patch /\ mem' = mem
      BY <1>7 DEF NextApplies
    <2>2. mem \in Memory /\ pc = "applying"
      BY <1>3, <1>7 DEF NextApplies
    <2>3. patch \in 0..Size
      BY <1>1, <2>2 DEF Staged
    <2>4. mem' \in Memory /\ index' \in 0..Size /\ unmerged' \in BOOLEAN
      BY <2>1, <2>2, <2>3
    <2> QED
      BY <1>7, <2>4 DEF NextApplies
  <1>20. CASE NextThrowsEarly
    <2>1. mem \in Memory /\ mem.at + 1 \in 0..Size /\ mem.at + 1 \in Op
      BY <1>1, <1>3, <1>20 DEF NextThrowsEarly, Op
    <2> DEFINE k == mem.at + 1
    <2>2. /\ mem' = [mem EXCEPT !.at = k] /\ unsure' = unsure \cup {k}
          /\ pc' = "failed" /\ UNCHANGED <<disk, crashes>>
      BY <1>20 DEF NextThrowsEarly, AfterNext, Thrown
    <2>3. errors' \in 0..MaxErrors
      BY <1>1, <1>20 DEF NextThrowsEarly, Fails
    <2>4. k \in 0..Size /\ k \in Op
      BY <2>1
    <2> HIDE DEF k
    <2>5. mem' \in Memory /\ unsure' \subseteq Op
      BY <2>1, <2>2, <2>4
    <2> QED
      BY <2>2, <2>3, <2>5
  <1>8. CASE NextOver
    BY <1>8 DEF NextOver, AfterNext, Thrown
  <1>9. CASE NextThrows
    <2>1. mem \in Memory /\ mem.at \in 1..Size
      <3>1. mem \in Memory
        BY <1>3, <1>9 DEF NextThrows
      <3>2. mem.at # 0
        BY <1>9 DEF NextThrows, Steady
      <3> QED
        BY <3>1, <3>2
    <2>2. errors' \in 0..MaxErrors
      BY <1>1, <1>9 DEF NextThrows, Fails
    <2>3. unsure' \subseteq Op
      BY <1>9, <2>1 DEF NextThrows, Op
    <2>4. pc' = "failed" /\ UNCHANGED <<disk, mem, crashes>>
      BY <1>9 DEF NextThrows, AfterNext, Thrown
    <2> QED
      BY <2>2, <2>3, <2>4
  <1>10. CASE Resolve
    BY <1>10 DEF Resolve
  <1>11. CASE Commit
    <2>1. mem \in Memory /\ pc \in {"picked", "resume"}
      BY <1>3, <1>11 DEF Commit
    <2>2. CASE mem.inMemory
      <3>1. mem.patch \in Op /\ mem.commits \in Seq(Op)
        BY <1>1, <1>11, <2>1, <2>2 DEF Commit, Patch, Op
      <3>2. Append(mem.commits, mem.patch) \in Seq(Op)
        BY <3>1, AppendFacts
      <3>3. mem' = [mem EXCEPT !.commits = Append(@, mem.patch), !.patch = 0]
        BY <1>11, <2>2 DEF Commit
      <3>4. 0 \in 0..Size
        BY <1>1
      <3>5. mem' \in Memory
        BY <2>1, <3>2, <3>3, <3>4
      <3> QED
        BY <1>11, <2>2, <3>5 DEF Commit
    <2>3. CASE ~mem.inMemory
      <3>1. index \in Op
        BY <1>1, <1>11, <2>1, <2>3 DEF Commit, Patch, Op
      <3>2. Append(head, index) \in Seq(Op)
        BY <3>1, AppendFacts
      <3> QED
        BY <1>1, <1>11, <2>3, <3>2 DEF Commit
    <2> QED
      BY <2>2, <2>3
  <1>12. CASE CommitUnmerged \/ CommitApplied
    BY <1>12 DEF CommitUnmerged, CommitApplied, AfterCommit, Thrown
  <1>13. CASE CommitThrows
    BY <1>1, <1>13 DEF CommitThrows, AfterCommit, Thrown, Fails
  <1>14. CASE Retry \/ Drop
    BY <1>14 DEF Retry, Drop
  <1>15. CASE Finish
    BY <1>15 DEF Finish
  <1>16. CASE FinishCleans \/ FinishAgain \/ AbortCleans \/ AbortInMemory
    BY <1>16 DEF FinishCleans, FinishAgain, AbortCleans, AbortInMemory
  <1>17. CASE AbortAttaches \/ AbortResets
    <2>1. <<>> \in Seq(Op) /\ 0 \in 0..Size
      BY <1>1
    <2> QED
      BY <1>17, <2>1 DEF AbortAttaches, AbortResets
  <1>21. CASE FinishThrows \/ AbortThrows \/ StartThrows
    <2>1. /\ pc' \in {"over", "resume", pc} /\ UNCHANGED <<disk, mem, unsure, crashes>>
          /\ errors' = errors + 1 /\ errors < MaxErrors
      BY <1>21 DEF FinishThrows, AbortThrows, StartThrows, Fails
    <2>2. errors' \in 0..MaxErrors
      BY <1>1, <2>1
    <2> QED
      BY <2>1, <2>2
  <1>22. CASE InitCut
    <2>1. <<>> \in Seq(Op) /\ 0 \in 0..Size
      BY <1>1
    <2>2. /\ onDisk' = TRUE /\ attached' = TRUE /\ msgnum' = 0 /\ head' = <<>> /\ index' = 0
          /\ unmerged' = FALSE /\ unsure' = {} /\ UNCHANGED <<branch, mem, pc, errors>>
          /\ crashes < MaxCrashes /\ crashes' = crashes + 1
      BY <1>22 DEF InitCut, Dies
    <2>3. crashes' \in 0..MaxCrashes
      BY <1>1, <2>2
    <2> QED
      BY <2>1, <2>2, <2>3
  <1>23. CASE CommitAstray
    <2>1. 0 \in 0..Size
      BY <1>1
    <2> QED
      BY <1>23, <2>1 DEF CommitAstray
  <1>18. CASE Crash
    <2>1. mem \in Memory /\ (pc = "applying" => mem.at \in Op)
      <3>1. mem \in Memory /\ (pc = "applying" => mem.at # 0)
        BY <1>18 DEF Crash, Steady
      <3> QED
        BY <3>1 DEF Op
    <2> QED
      BY <1>1, <1>18, <2>1 DEF Crash, Dies
  <1> QED
    BY <1>2, <1>4, <1>5, <1>6, <1>7, <1>8, <1>9, <1>10, <1>11, <1>12, <1>13, <1>14, <1>15,
       <1>16, <1>17, <1>18, <1>20, <1>21, <1>22, <1>23 DEF Next, Calls, GivesUp

(* Steady by action; OnDisk and InMemory are the facts about the commits   *)
(* that concern the rebase the client has.                                 *)
LEMMA Mine ==
  ASSUME TypeOK, Steady, pc \notin {"start", "done"}
  PROVE  /\ mem \in Memory /\ mem # NULL
         /\ mem.at \in 0..Size /\ mem.patch \in 0..Size /\ mem.commits \in Seq(Op)
         /\ mem.inMemory => /\ Picked(mem.commits, mem.at, mem.patch, pc = "applying", unsure)
                            /\ ~onDisk /\ head = <<>> /\ branch = Orig /\ ~attached
         /\ ~mem.inMemory => /\ ~attached => Picked(head, mem.at, index, pc = "applying", unsure)
                             /\ onDisk /\ msgnum <= mem.at /\ index \in {0, msgnum}
                             /\ pc = "applying" => msgnum = mem.at
  <1>1. mem \in Memory /\ mem # NULL
    BY DEF TypeOK, Steady, Memory
  <1>2. mem.at \in 0..Size /\ mem.patch \in 0..Size /\ mem.commits \in Seq(Op) /\ mem.inMemory \in BOOLEAN
    BY <1>1 DEF Memory
  <1> QED
    BY <1>1, <1>2 DEF Steady

LEMMA SteadyStart ==
  ASSUME TypeOK, Steady, NEW m \in BOOLEAN, InitRebase(m)
  PROVE  Steady'
  <1> DEFINE new == [at |-> 0, inMemory |-> m, patch |-> 0, commits |-> <<>>]
  <1>1. new \in Memory
    <2>1. <<>> \in Seq(Op) /\ 0 \in 0..Size
      BY RebaseAssumption
    <2> QED
      BY <2>1 DEF Memory
  <1>2. new # NULL
    BY <1>1, Distinct
  <1>3. Picked(<<>>, 0, 0, FALSE, {})
    BY PickedStarts
  <1>4. new.at = 0 /\ new.inMemory = m /\ new.patch = 0 /\ new.commits = <<>>
    OBVIOUS
  <1>5. /\ mem' = new /\ onDisk' = ~m /\ pc' = "loop" /\ msgnum' = 0 /\ head' = <<>>
        /\ index' = 0 /\ unsure' = {} /\ branch' = Orig /\ attached' = FALSE
    BY DEF InitRebase, Steady
  <1> HIDE DEF new
  <1>6. (pc' = "applying") = FALSE /\ branch' # Mixed /\ 0 <= 0
    BY <1>5, Distinct
  <1> QED
    BY <1>2, <1>3, <1>4, <1>5, <1>6 DEF Steady, Patch

LEMMA SteadyCut ==
  ASSUME TypeOK, Steady, InitCut
  PROVE  Steady'
  BY DEF InitCut, Steady

LEMMA SteadyOpen ==
  ASSUME TypeOK, Steady, OpenRebase
  PROVE  Steady'
  <1> DEFINE new == [at |-> msgnum, inMemory |-> FALSE, patch |-> 0, commits |-> <<>>]
  <1>1. new \in Memory
    <2>1. <<>> \in Seq(Op) /\ 0 \in 0..Size
      BY RebaseAssumption
    <2> QED
      BY <2>1 DEF Memory, TypeOK
  <1>2. new # NULL
    BY <1>1, Distinct
  <1>3. /\ ~attached => Picked(head, msgnum, index, FALSE, unsure)
        /\ index \in {0, msgnum} /\ msgnum \in Int
    <2>1. pc = "start" /\ onDisk /\ (pc = "applying") = FALSE /\ msgnum \in 0..Size
      BY DEF OpenRebase, TypeOK
    <2>2. /\ ~attached => Picked(head, msgnum, index, pc = "applying", unsure)
          /\ index \in {0, msgnum}
      BY <2>1 DEF Steady
    <2> QED
      BY <2>1, <2>2 DEF Picked
  <1>4. new.at = msgnum /\ new.inMemory = FALSE
    OBVIOUS
  <1>5. /\ mem' = new /\ onDisk
        /\ UNCHANGED <<branch, head, onDisk, msgnum, index, attached, unsure>>
        /\ pc' = IF msgnum = 0 THEN "loop" ELSE "resume"
    BY DEF OpenRebase, disk
  <1>6. (branch = Mixed => attached) /\ (attached => head = <<>>)
    BY DEF Steady
  <1> HIDE DEF new
  <1>7. (pc' = "applying") = FALSE /\ msgnum <= msgnum /\ (pc' = "loop" => index = 0)
    BY <1>3, <1>5
  <1> QED
    BY <1>2, <1>3, <1>4, <1>5, <1>6, <1>7 DEF Steady, Patch

LEMMA SteadyMoves ==
  ASSUME TypeOK, TypeOK', Steady, NextMoves
  PROVE  Steady'
  <1>1. /\ mem \in Memory /\ mem # NULL /\ pc = "loop" /\ mem.at \in 0..Size /\ mem.at < Size
        /\ mem.commits \in Seq(Op) /\ Patch = 0
    BY Mine DEF NextMoves, Steady
  <1>2. head \in Seq(Op) /\ Size \in Nat
    BY RebaseAssumption DEF TypeOK
  <1> DEFINE k == mem.at + 1
  <1>3. k \in 0..Size /\ k # 0
    BY <1>1, <1>2
  <1>4. mem.inMemory => Picked(mem.commits, k, 0, TRUE, unsure)
    BY <1>1, Mine, PickedMoves DEF Patch
  <1>5. ~mem.inMemory => (~attached => Picked(head, k, 0, TRUE, unsure)) /\ index = 0
    BY <1>1, <1>2, Mine, PickedMoves DEF Patch
  <1>6. /\ mem' = [mem EXCEPT !.at = k] /\ msgnum' = IF mem.inMemory THEN msgnum ELSE k
        /\ pc' = "applying" /\ UNCHANGED <<branch, head, onDisk, index, attached, unsure>>
    BY DEF NextMoves
  <1> HIDE DEF k
  <1>7. /\ mem' \in Memory /\ mem'.at = k /\ mem'.inMemory = mem.inMemory
        /\ mem'.patch = mem.patch /\ mem'.commits = mem.commits
    BY <1>1, <1>3, <1>6 DEF Memory
  <1>8. mem' # NULL
    BY <1>7, Distinct
  <1>9. mem.inMemory \in BOOLEAN /\ onDisk = ~mem.inMemory /\ k \in Int
    <2>1. mem.inMemory \in BOOLEAN
      BY <1>1 DEF Memory
    <2>2. onDisk = ~mem.inMemory
      BY <1>1 DEF Steady
    <2> QED
      BY <1>3, <2>1, <2>2
  <1>10. CASE mem.inMemory
    BY <1>1, <1>3, <1>4, <1>6, <1>7, <1>8, <1>9, <1>10, Mine DEF Steady, Patch
  <1>11. CASE ~mem.inMemory
    <2>1. msgnum' = k /\ index' = 0 /\ (~attached => Picked(head, k, 0, TRUE, unsure))
      BY <1>5, <1>6, <1>11
    <2>2. (pc' = "applying") = TRUE /\ k <= k /\ mem'.at = k /\ ~mem'.inMemory /\ Patch' = 0
      BY <1>6, <1>7, <1>9, <1>11, <2>1 DEF Patch
    <2>3. /\ onDisk' => index' \in {0, msgnum'}
          /\ onDisk' /\ ~attached' => Picked(head', msgnum', index', pc' = "applying", unsure')
          /\ ~attached' => Picked(head', mem'.at, index', pc' = "applying", unsure')
      BY <1>6, <2>1, <2>2 DEF Picked
    <2>4. /\ attached' => onDisk' /\ head' = <<>>
          /\ ~onDisk' => head' = <<>> /\ branch' = Orig
          /\ branch' = Mixed => attached'
          /\ onDisk' = ~mem'.inMemory /\ mem'.at # 0
      BY <1>1, <1>3, <1>6, <1>7, <1>9 DEF Steady
    <2> QED
      BY <1>6, <1>8, <2>1, <2>2, <2>3, <2>4 DEF Steady
  <1> QED
    BY <1>10, <1>11

LEMMA SteadyApplies ==
  ASSUME TypeOK, TypeOK', Steady, NextApplies
  PROVE  Steady'
  <1>1. /\ mem \in Memory /\ mem # NULL /\ pc = "applying" /\ mem.at \in 0..Size
        /\ mem.commits \in Seq(Op) /\ Patch = 0 /\ head \in Seq(Op)
    BY Mine DEF NextApplies, Steady, TypeOK
  <1>2. PICK patch \in Staged :
          IF mem.inMemory THEN mem' = [mem EXCEPT !.patch = patch] /\ index' = index
                          ELSE index' = patch /\ mem' = mem
    BY DEF NextApplies
  <1>3. /\ pc' = "picked" /\ UNCHANGED <<branch, head, onDisk, msgnum, attached, unsure>>
        /\ patch \in {0, mem.at} /\ patch \in 0..Size
    BY <1>1, RebaseAssumption DEF NextApplies, Staged
  <1>4. ~attached => patch = IF mem.at \in Present THEN 0 ELSE mem.at
    BY DEF Staged
  <1>5. mem.inMemory => Picked(mem.commits, mem.at, patch, FALSE, unsure)
    BY <1>1, <1>4, Mine, PickedApplies DEF Patch, Present
  <1>6. ~mem.inMemory /\ ~attached => Picked(head, mem.at, patch, FALSE, unsure)
    BY <1>1, <1>4, Mine, PickedApplies DEF Patch, Present
  <1>7. CASE mem.inMemory
    <2>1. /\ mem' \in Memory /\ mem'.at = mem.at /\ mem'.inMemory
          /\ mem'.patch = patch /\ mem'.commits = mem.commits
      BY <1>1, <1>2, <1>3, <1>7 DEF Memory
    <2>2. mem' # NULL
      BY <2>1, Distinct
    <2> QED
      BY <1>1, <1>2, <1>3, <1>5, <1>7, <2>1, <2>2, Mine DEF Steady
  <1>8. CASE ~mem.inMemory
    BY <1>1, <1>2, <1>3, <1>6, <1>8, Mine DEF Steady
  <1> QED
    BY <1>7, <1>8

LEMMA SteadyThrowsEarly ==
  ASSUME TypeOK, TypeOK', Steady, NextThrowsEarly
  PROVE  Steady'
  <1>1. /\ mem \in Memory /\ mem # NULL /\ pc = "loop" /\ mem.at \in 0..Size /\ mem.at < Size
        /\ mem.commits \in Seq(Op) /\ Patch = 0 /\ head \in Seq(Op) /\ Size \in Nat
        /\ msgnum \in 0..Size
    BY Mine, RebaseAssumption DEF NextThrowsEarly, Steady, TypeOK
  <1> DEFINE k == mem.at + 1
  <1>2. k \in 0..Size /\ (msgnum <= mem.at => msgnum <= k)
    BY <1>1
  <1>3. ASSUME NEW c \in Seq(Op), Picked(c, mem.at, 0, FALSE, unsure)
        PROVE  Picked(c, k, 0, FALSE, unsure \cup {k})
    <2>1. Picked(c, k, 0, TRUE, unsure)
      BY <1>1, <1>3, PickedMoves
    <2>2. 0 \in 0..Size /\ TRUE \in BOOLEAN
      BY <1>1
    <2> HIDE DEF k
    <2> QED
      BY <1>2, <2>1, <2>2, PickedThrows
  <1>4. /\ mem' = [mem EXCEPT !.at = k] /\ unsure' = unsure \cup {k} /\ pc' = "failed"
        /\ UNCHANGED <<branch, head, onDisk, msgnum, index, attached>>
    BY DEF NextThrowsEarly, AfterNext, Thrown, disk
  <1> HIDE DEF k
  <1>5. /\ mem' \in Memory /\ mem'.at = k /\ mem'.inMemory = mem.inMemory
        /\ mem'.patch = mem.patch /\ mem'.commits = mem.commits
    BY <1>1, <1>2, <1>4 DEF Memory
  <1>6. mem' # NULL
    BY <1>5, Distinct
  <1>7. mem.inMemory => mem.patch = 0 /\ Picked(mem.commits, k, 0, FALSE, unsure')
    BY <1>1, <1>3, <1>4, Mine DEF Patch
  <1>8. ~mem.inMemory => index = 0 /\ (~attached => Picked(head, k, 0, FALSE, unsure'))
    BY <1>1, <1>3, <1>4, Mine DEF Patch
  <1>9. onDisk /\ ~attached => Picked(head, msgnum, index, FALSE, unsure')
    BY <1>1, <1>4, PickedMore DEF Steady
  <1>10. ~mem'.inMemory => msgnum' <= mem'.at
    BY <1>1, <1>2, <1>4, <1>5, Mine
  <1> QED
    BY <1>1, <1>4, <1>5, <1>6, <1>7, <1>8, <1>9, <1>10, Mine DEF Steady, Patch

LEMMA SteadyThrows ==
  ASSUME TypeOK, TypeOK', Steady, NextThrows
  PROVE  Steady'
  <1>1. /\ mem \in Memory /\ mem # NULL /\ pc = "applying" /\ mem.at \in 0..Size
        /\ mem.commits \in Seq(Op) /\ Patch = 0 /\ head \in Seq(Op)
        /\ mem.patch \in 0..Size /\ index \in 0..Size
    BY Mine DEF NextThrows, Steady, TypeOK
  <1>2. /\ pc' = "failed" /\ unsure' = unsure \cup {mem.at}
        /\ UNCHANGED <<branch, head, onDisk, msgnum, index, attached, mem>>
    BY DEF NextThrows, AfterNext, Thrown, disk
  <1>3. mem.inMemory => Picked(mem.commits, mem.at, mem.patch, FALSE, unsure')
    BY <1>1, <1>2, Mine, PickedThrows
  <1>4. ~mem.inMemory => msgnum = mem.at /\ (~attached => Picked(head, mem.at, index, FALSE, unsure'))
    BY <1>1, <1>2, Mine, PickedThrows
  <1> QED
    BY <1>1, <1>2, <1>3, <1>4, Mine DEF Steady, Patch

LEMMA SteadyCommit ==
  ASSUME TypeOK, TypeOK', Steady, Commit
  PROVE  Steady' /\ (~mem.inMemory => \A i \in DOMAIN head : head[i] < index)
  <1>1. /\ mem \in Memory /\ mem # NULL /\ pc \in {"picked", "resume"} /\ mem.at \in 0..Size
        /\ mem.commits \in Seq(Op) /\ Patch # 0 /\ head \in Seq(Op)
        /\ mem.patch \in 0..Size /\ index \in 0..Size
    BY Mine DEF Commit, TypeOK
  <1>2. pc' = "loop" /\ UNCHANGED <<branch, onDisk, msgnum, attached, unsure>> /\ ~attached
    BY DEF Commit
  <1>3. CASE mem.inMemory
    <2>1. mem.patch \in Op
      BY <1>1, <1>3, RebaseAssumption DEF Patch, Op
    <2> DEFINE commits == Append(mem.commits, mem.patch)
    <2>2. Picked(commits, mem.at, 0, FALSE, unsure)
      BY <1>1, <1>3, <2>1, Mine, PickedCommits
    <2>3. commits \in Seq(Op) /\ 0 \in 0..Size
      BY <1>1, <2>1, AppendFacts, RebaseAssumption
    <2>4. mem' = [mem EXCEPT !.commits = commits, !.patch = 0] /\ UNCHANGED <<head, index>>
      BY <1>3 DEF Commit
    <2> HIDE DEF commits
    <2>5. /\ mem' \in Memory /\ mem'.at = mem.at /\ mem'.inMemory
          /\ mem'.patch = 0 /\ mem'.commits = commits
      BY <1>1, <1>3, <2>3, <2>4 DEF Memory
    <2>6. mem' # NULL
      BY <2>5, Distinct
    <2> QED
      BY <1>1, <1>2, <1>3, <2>2, <2>4, <2>5, <2>6, Mine DEF Steady, Patch
  <1>4. CASE ~mem.inMemory
    <2>1. index \in Op
      BY <1>1, <1>4, RebaseAssumption DEF Patch, Op
    <2>2. /\ Picked(Append(head, index), mem.at, 0, FALSE, unsure)
          /\ \A i \in DOMAIN head : head[i] < index
      BY <1>1, <1>2, <1>4, <2>1, Mine, PickedCommits
    <2>3. mem' = mem /\ head' = Append(head, index) /\ index' = 0
      BY <1>4 DEF Commit
    <2>4. Picked(Append(head, index), msgnum, 0, FALSE, unsure)
      <3>1. onDisk /\ msgnum \in 0..Size /\ pc # "applying"
        BY <1>1, <1>4, Mine DEF TypeOK
      <3>2. Picked(head, msgnum, index, FALSE, unsure)
        BY <1>2, <3>1 DEF Steady
      <3> QED
        BY <1>1, <2>1, <3>1, <3>2, PickedCommits
    <2> QED
      BY <1>1, <1>2, <1>4, <2>2, <2>3, <2>4, Mine DEF Steady, Patch
  <1> QED
    BY <1>3, <1>4

LEMMA SteadyAstray ==
  ASSUME TypeOK, TypeOK', Steady, CommitAstray
  PROVE  Steady' /\ onDisk /\ ~mem.inMemory
  <1>1. /\ mem \in Memory /\ mem # NULL /\ pc \in {"picked", "resume"} /\ attached
        /\ onDisk /\ ~mem.inMemory /\ head = <<>> /\ msgnum <= mem.at
    BY Mine DEF CommitAstray, Steady
  <1>2. /\ pc' = "loop" /\ branch' = Mixed /\ index' = 0
        /\ UNCHANGED <<head, onDisk, msgnum, attached, mem, unsure>>
    BY DEF CommitAstray
  <1> QED
    BY <1>1, <1>2 DEF Steady, Patch

LEMMA SteadyAborts ==
  ASSUME TypeOK, TypeOK', Steady, AbortAttaches \/ AbortResets \/ AbortThrows
  PROVE  Steady'
  <1>1. /\ mem \in Memory /\ mem # NULL /\ ~mem.inMemory /\ onDisk /\ msgnum <= mem.at
        /\ index \in {0, msgnum}
    <2>1. pc \notin {"start", "done", "applying"}
      BY DEF AbortAttaches, AbortResets, AbortThrows, CanAbort
    <2>2. mem \in Memory /\ mem # NULL
      BY <2>1, Mine
    <2>3. ~mem.inMemory
      BY <2>2 DEF AbortAttaches, AbortResets, AbortThrows, Steady, Memory
    <2> QED
      BY <2>1, <2>2, <2>3, Mine
  <1>2. CASE AbortAttaches
    <2>1. /\ pc' = "aborting" /\ attached' /\ head' = <<>>
          /\ UNCHANGED <<branch, onDisk, msgnum, index, mem, unsure>>
      BY <1>2 DEF AbortAttaches
    <2> QED
      BY <1>1, <2>1 DEF Steady
  <1>3. CASE AbortResets
    <2>1. /\ pc' = "cleaning" /\ branch' = Orig /\ index' = 0 /\ attached /\ head = <<>>
          /\ UNCHANGED <<head, onDisk, msgnum, attached, mem, unsure>>
      BY <1>3 DEF AbortResets, Steady
    <2> QED
      BY <1>1, <2>1, Distinct DEF Steady
  <1>4. CASE AbortThrows
    <2>1. /\ pc' = "resume" /\ pc # "applying"
          /\ UNCHANGED <<branch, head, onDisk, msgnum, index, attached, mem, unsure>>
      BY <1>4 DEF AbortThrows, CanAbort, disk
    <2> QED
      BY <1>1, <2>1 DEF Steady
  <1> QED
    BY <1>2, <1>3, <1>4

LEMMA SteadyCrash ==
  ASSUME TypeOK, TypeOK', Steady, Crash
  PROVE  Steady'
  <1>1. /\ mem \in Memory /\ mem # NULL /\ mem.at \in 0..Size /\ head \in Seq(Op)
        /\ index \in 0..Size /\ msgnum \in 0..Size /\ pc \notin {"start", "done"}
    BY Mine DEF Crash, Steady, TypeOK
  <1>2. /\ pc' = "start" /\ mem' = NULL
        /\ UNCHANGED <<branch, head, onDisk, msgnum, index, attached>>
        /\ unsure' = IF pc = "applying" THEN unsure \cup {mem.at} ELSE unsure
    BY DEF Crash, disk
  <1>3. onDisk /\ ~attached => Picked(head, msgnum, index, FALSE, unsure')
    <2>1. CASE pc = "applying" /\ onDisk
      <3>1. msgnum = mem.at
        BY <1>1, <2>1, Mine DEF Steady
      <3> QED
        BY <1>1, <1>2, <2>1, <3>1, PickedThrows DEF Steady
    <2>2. CASE pc # "applying"
      BY <1>2, <2>2 DEF Steady
    <2> QED
      BY <2>1, <2>2
  <1> QED
    BY <1>1, <1>2, <1>3 DEF Steady

LEMMA SteadyStep ==
  ASSUME TypeOK, TypeOK', Steady, [Next]_vars, pc' # "done"
  PROVE  Steady'
  <1>1. CASE UNCHANGED vars
    BY <1>1 DEF vars, Steady, Patch
  <1>2. CASE NextOver
    BY <1>2 DEF NextOver, AfterNext, Thrown, Steady, Patch, disk
  <1>3. CASE Resolve \/ CommitUnmerged \/ CommitThrows
    BY <1>3 DEF Resolve, CommitUnmerged, CommitThrows, AfterCommit, Thrown, Steady, Patch, disk
  <1>4. CASE CommitApplied
    BY <1>4 DEF CommitApplied, AfterCommit, Thrown, Steady, Patch, disk
  <1>5. CASE Retry \/ StartThrows \/ FinishThrows
    BY <1>5 DEF Retry, StartThrows, FinishThrows, Steady, Patch, disk
  <1>6. CASE Drop
    <2>1. pc' = "start" /\ onDisk /\ mem' = NULL /\ pc = "failed"
          /\ UNCHANGED <<branch, head, onDisk, msgnum, index, attached, unsure>>
      BY <1>6 DEF Drop, disk
    <2> QED
      BY <2>1 DEF Steady
  <1>7. CASE Finish
    <2>1. /\ pc = "over" /\ pc' = "finishing" /\ mem # NULL /\ mem.at = Size
          /\ branch = Orig /\ branch' = (IF mem.inMemory \/ attached THEN branch ELSE head)
          /\ UNCHANGED <<head, onDisk, msgnum, index, attached, unsure, mem>>
      BY <1>7 DEF Finish, Steady
    <2>2. branch' # Mixed /\ (mem.inMemory => branch' = Orig)
      BY <2>1, Distinct DEF TypeOK
    <2> QED
      BY <2>1, <2>2, Mine DEF Steady, Patch
  <1>8. CASE FinishCleans \/ FinishAgain \/ AbortInMemory \/ AbortCleans
    BY <1>8 DEF FinishCleans, FinishAgain, AbortInMemory, AbortCleans
  <1> QED
    BY <1>1, <1>2, <1>3, <1>4, <1>5, <1>6, <1>7, <1>8, SteadyStart, SteadyCut, SteadyOpen,
       SteadyMoves, SteadyApplies, SteadyThrowsEarly, SteadyThrows, SteadyCommit, SteadyAstray,
       SteadyAborts, SteadyCrash DEF Next, Calls, GivesUp

(* What is committed is in order, whoever committed it.                    *)
LEMMA InOrderStep ==
  ASSUME TypeOK, TypeOK', Steady, InOrder, [Next]_vars, pc' # "done" => Steady'
  PROVE  InOrder'
  <1>1. Increasing(<<>>)
    BY DEF Increasing
  <1>2. CASE pc' = "done"
    <2>1. head' \in {head, <<>>} /\ mem' \in {mem, NULL}
      BY <1>2 DEF Next, Calls, GivesUp, vars, disk, InitRebase, OpenRebase, StartThrows, InitCut,
         NextOver, NextMoves, NextApplies, NextThrowsEarly, NextThrows, Resolve, Commit,
         CommitAstray, CommitUnmerged, CommitApplied, CommitThrows, Retry, Drop, Finish,
         FinishCleans, FinishThrows, FinishAgain, AbortInMemory, AbortAttaches, AbortResets,
         AbortCleans, AbortThrows, Crash, AfterNext, AfterCommit, Thrown
    <2> QED
      BY <1>1, <2>1 DEF InOrder
  <1>3. CASE pc' # "done"
    <2>1. Increasing(head')
      <3>1. Steady'
        BY <1>3
      <3>2. (onDisk /\ ~attached)' => Increasing(head')
        BY <3>1 DEF Steady, Picked
      <3>3. ~(onDisk /\ ~attached)' => head' = <<>>
        BY <3>1 DEF Steady
      <3> QED
        BY <1>1, <3>2, <3>3
    <2>2. ASSUME mem' # NULL
          PROVE  Increasing(mem'.commits)
      <3>1. CASE mem'.inMemory
        BY <1>3, <2>2, <3>1 DEF Steady, Picked
      <3>2. CASE ~mem'.inMemory
        <4>1. CASE OpenRebase
          <5>1. mem'.commits = <<>>
            BY <4>1 DEF OpenRebase
          <5> QED
            BY <1>1, <5>1
        <4>2. CASE \E m \in BOOLEAN : InitRebase(m)
          <5>1. mem'.commits = <<>>
            BY <4>2 DEF InitRebase
          <5> QED
            BY <1>1, <5>1
        <4>3. CASE NextMoves \/ NextThrowsEarly
          <5>1. mem \in Memory /\ mem # NULL
            BY <4>3, Mine DEF NextMoves, NextThrowsEarly
          <5>2. mem'.commits = mem.commits
            BY <4>3, <5>1 DEF NextMoves, NextThrowsEarly, Memory
          <5> QED
            BY <5>1, <5>2 DEF InOrder
        <4>4. CASE NextApplies \/ Commit
          <5>1. mem \in Memory /\ mem # NULL
            BY <4>4, Mine DEF NextApplies, Commit
          <5>2. ~mem.inMemory
            BY <3>2, <4>4, <5>1 DEF NextApplies, Commit, Memory
          <5>3. mem' = mem
            BY <4>4, <5>2 DEF NextApplies, Commit
          <5> QED
            BY <5>1, <5>3 DEF InOrder
        <4>5. CASE mem' = mem
          BY <2>2, <4>5 DEF InOrder
        <4>6. CASE mem' = NULL
          BY <2>2, <4>6
        <4>7. \/ OpenRebase \/ \E m \in BOOLEAN : InitRebase(m)
              \/ NextMoves \/ NextThrowsEarly \/ NextApplies \/ Commit
              \/ mem' = mem \/ mem' = NULL
          BY DEF Next, Calls, GivesUp, vars, disk, StartThrows, InitCut, NextOver, NextThrows,
             Resolve, CommitAstray, CommitUnmerged, CommitApplied, CommitThrows, Retry, Drop,
             Finish, FinishCleans, FinishThrows, FinishAgain, AbortInMemory, AbortAttaches,
             AbortResets, AbortCleans, AbortThrows, Crash
        <4> QED
          BY <4>1, <4>2, <4>3, <4>4, <4>5, <4>6, <4>7
      <3> QED
        BY <3>1, <3>2
    <2> QED
      BY <2>1, <2>2 DEF InOrder
  <1> QED
    BY <1>2, <1>3

LEMMA Terminal ==
  ASSUME pc = "done", [Next]_vars
  PROVE  UNCHANGED vars
  BY DEF Next, Calls, GivesUp, InitRebase, OpenRebase, StartThrows, InitCut, NextOver, NextMoves,
     NextApplies, NextThrowsEarly, NextThrows, Resolve, Commit, CommitAstray, CommitUnmerged,
     CommitApplied, CommitThrows, Retry, Drop, Finish, FinishCleans, FinishThrows, FinishAgain,
     AbortInMemory, AbortAttaches, AbortResets, AbortCleans, AbortThrows, CanAbort, Crash

LEMMA CompleteStep ==
  ASSUME TypeOK, Steady, Complete, pc # "done", [Next]_vars
  PROVE  Complete'
  <1>1. CASE Finish
    <2>1. /\ pc = "over" /\ mem.at = Size /\ Patch = 0 /\ head \in Seq(Op) /\ branch = Orig
          /\ UNCHANGED <<mem, unsure>> /\ branch' = IF mem.inMemory \/ attached THEN branch ELSE head
      BY <1>1 DEF Finish, Steady, TypeOK
    <2>2. CASE mem.inMemory
      <3>1. AllIn(mem.commits)
        BY <2>1, <2>2, Mine, PickedAll DEF Patch
      <3> QED
        BY <2>1, <2>2, <3>1 DEF Complete, AllIn
    <2>3. CASE ~mem.inMemory /\ ~attached
      <3>1. AllIn(head)
        BY <2>1, <2>3, Mine, PickedAll DEF Patch
      <3> QED
        BY <2>1, <2>3, <3>1 DEF Complete, AllIn
    <2>4. CASE ~mem.inMemory /\ attached
      BY <2>1, <2>4 DEF Complete
    <2> QED
      BY <2>2, <2>3, <2>4
  <1>2. CASE InitCut \/ \E m \in BOOLEAN : InitRebase(m)
    <2>1. branch' = Orig /\ pc' \in {"loop", "start"}
      BY <1>2 DEF InitRebase, InitCut, Steady
    <2> QED
      BY <2>1 DEF Complete
  <1>3. CASE AbortResets \/ CommitAstray
    <2>1. branch' \in {Orig, Mixed} /\ pc' # "finishing"
      BY <1>3 DEF AbortResets, CommitAstray
    <2> QED
      BY <2>1 DEF Complete
  <1>4. ASSUME branch' = branch, unsure \subseteq unsure', pc' # "finishing"
        PROVE  Complete'
    BY <1>4 DEF Complete, AllIn
  <1>5. CASE NextOver \/ NextThrowsEarly \/ NextThrows \/ CommitUnmerged \/ CommitApplied \/ CommitThrows
    <2>1. branch' = branch /\ unsure \subseteq unsure' /\ pc' # "finishing"
      BY <1>5 DEF NextOver, NextThrowsEarly, NextThrows, CommitUnmerged, CommitApplied,
         CommitThrows, disk, AfterNext, AfterCommit, Thrown
    <2> QED
      BY <2>1, <1>4
  <1>6. CASE OpenRebase \/ StartThrows \/ NextMoves \/ NextApplies \/ Resolve \/ Commit \/ Retry
    <2>1. branch' = branch /\ unsure \subseteq unsure' /\ pc' # "finishing"
      BY <1>6 DEF OpenRebase, StartThrows, NextMoves, NextApplies, Resolve, Commit, Retry, disk
    <2> QED
      BY <2>1, <1>4
  <1>7. CASE Drop \/ FinishCleans \/ FinishThrows \/ FinishAgain \/ Crash
    <2>1. branch' = branch /\ unsure \subseteq unsure' /\ pc' # "finishing"
      BY <1>7 DEF Drop, FinishCleans, FinishThrows, FinishAgain, Crash, disk
    <2> QED
      BY <2>1, <1>4
  <1>8. CASE AbortInMemory \/ AbortAttaches \/ AbortCleans \/ AbortThrows
    <2>1. branch' = branch /\ unsure \subseteq unsure' /\ pc' # "finishing"
      BY <1>8 DEF AbortInMemory, AbortAttaches, AbortCleans, AbortThrows, disk
    <2> QED
      BY <2>1, <1>4
  <1>9. CASE UNCHANGED vars
    BY <1>9 DEF vars, Complete, AllIn
  <1> QED
    BY <1>1, <1>2, <1>3, <1>5, <1>6, <1>7, <1>8, <1>9 DEF Next, Calls, GivesUp

(* Every call is a step of the list, or none.                              *)
LEMMA ListStep ==
  ASSUME TypeOK, TypeOK', Steady, pc # "done", [Next]_vars
  PROVE  [List!Next]_(List!vars)
  <1>1. CASE Commit
    <2>1. /\ mem \in Memory /\ pc \in {"picked", "resume"} /\ Patch # 0 /\ pc' = "loop" /\ ~attached
          /\ index \in 0..Size /\ UNCHANGED <<branch, onDisk, attached>>
      BY <1>1, Mine DEF Commit, TypeOK
    <2>2. CASE mem.inMemory
      BY <1>1, <2>1, <2>2 DEF Commit, List!vars
    <2>3. CASE ~mem.inMemory
      <3>1. index \in 1..Size
        BY <2>1, <2>3, RebaseAssumption DEF Patch
      <3>2. \A i \in DOMAIN head : head[i] < index
        BY <1>1, <2>3, SteadyCommit
      <3>3. head' = Append(head, index)
        BY <1>1, <2>3 DEF Commit
      <3>4. List!Apply(index)
        BY <2>1, <3>2, <3>3 DEF List!Apply
      <3> QED
        BY <3>1, <3>4 DEF List!Next
    <2> QED
      BY <2>2, <2>3
  <1>2. CASE CommitAstray
    <2>1. /\ pc \in {"picked", "resume"} /\ pc' = "loop" /\ attached /\ branch' = Mixed /\ onDisk
          /\ UNCHANGED <<head, onDisk, attached>>
      BY <1>2 DEF CommitAstray, Steady
    <2> QED
      BY <2>1 DEF List!Next, List!Stray
  <1>3. CASE Finish
    <2>1. /\ pc = "over" /\ pc' = "finishing" /\ branch = Orig
          /\ branch' = (IF mem.inMemory \/ attached THEN branch ELSE head)
          /\ UNCHANGED <<head, onDisk, attached>>
      BY <1>3 DEF Finish
    <2> QED
      BY <2>1 DEF List!Next, List!Finish, List!vars
  <1>4. CASE FinishCleans \/ FinishAgain
    <2>1. /\ pc \in {"finishing", "over"} /\ pc' = "done" /\ onDisk' = FALSE
          /\ UNCHANGED <<branch, head, attached>>
      BY <1>4 DEF FinishCleans, FinishAgain
    <2> QED
      BY <2>1 DEF List!Next, List!Settle, List!vars
  <1>5. CASE InitCut
    <2>1. /\ branch = Orig /\ head = <<>> /\ branch' = branch /\ head' = head
          /\ onDisk' /\ attached' /\ pc' = pc
      BY <1>5 DEF InitCut, Steady
    <2> QED
      BY <2>1 DEF List!Next, List!StartCut
  <1>6. CASE \E m \in BOOLEAN : InitRebase(m)
    <2>1. /\ head = <<>> /\ branch' = branch /\ head' = head
          /\ ~onDisk /\ ~attached' /\ pc = "start" /\ pc' = "loop"
      BY <1>6 DEF InitRebase, Steady
    <2> QED
      BY <2>1 DEF List!vars
  <1>7. CASE AbortAttaches
    <2>1. /\ pc \notin {"start", "applying", "aborting", "cleaning", "done"} /\ pc' = "aborting"
          /\ ~mem.inMemory /\ attached' /\ head' = <<>> /\ UNCHANGED <<branch, onDisk>>
      BY <1>7 DEF AbortAttaches, CanAbort
    <2>2. onDisk
      BY <2>1, Mine
    <2> QED
      BY <2>1, <2>2 DEF List!Next, List!AbortBegins
  <1>8. CASE AbortResets
    <2>1. /\ pc = "aborting" /\ pc' = "cleaning" /\ branch' = Orig
          /\ UNCHANGED <<head, onDisk, attached>>
      BY <1>8 DEF AbortResets
    <2> QED
      BY <2>1 DEF List!Next, List!Reset
  <1>9. CASE AbortCleans
    <2>1. /\ pc = "cleaning" /\ pc' = "done" /\ branch = Orig /\ onDisk' = FALSE
          /\ UNCHANGED <<branch, head, attached>>
      BY <1>9 DEF AbortCleans, Steady
    <2> QED
      BY <2>1 DEF List!Next, List!AbortEnds
  <1>10. CASE AbortThrows \/ Crash
    <2>1. /\ pc' \notin {"aborting", "cleaning"} /\ UNCHANGED <<branch, head, onDisk, attached>>
      BY <1>10 DEF AbortThrows, Crash, disk
    <2> QED
      BY <2>1 DEF List!Next, List!AbortCut, List!vars
  <1>11. CASE NextOver \/ NextThrowsEarly \/ NextThrows \/ CommitUnmerged \/ CommitApplied \/ CommitThrows
    <2>1. /\ pc \notin {"aborting", "cleaning"} /\ pc' \notin {"aborting", "cleaning"}
          /\ UNCHANGED <<branch, head, onDisk, attached>>
      BY <1>11 DEF NextOver, NextThrowsEarly, NextThrows, CommitUnmerged, CommitApplied,
         CommitThrows, disk, AfterNext, AfterCommit, Thrown
    <2> QED
      BY <2>1 DEF List!vars
  <1>12. CASE OpenRebase \/ StartThrows \/ NextMoves \/ NextApplies \/ Resolve \/ Retry
    <2>1. /\ pc \notin {"aborting", "cleaning"} /\ pc' \notin {"aborting", "cleaning"}
          /\ UNCHANGED <<branch, head, onDisk, attached>>
      BY <1>12 DEF OpenRebase, StartThrows, NextMoves, NextApplies, Resolve, Retry, disk
    <2> QED
      BY <2>1 DEF List!vars
  <1>13. CASE Drop \/ FinishThrows \/ AbortInMemory
    <2>1. /\ pc \notin {"aborting", "cleaning"} /\ pc' \notin {"aborting", "cleaning"}
          /\ UNCHANGED <<branch, head, onDisk, attached>>
      BY <1>13 DEF Drop, FinishThrows, AbortInMemory, CanAbort, disk
    <2> QED
      BY <2>1 DEF List!vars
  <1>14. CASE UNCHANGED vars
    BY <1>14 DEF vars, List!vars
  <1> QED
    BY <1>1, <1>2, <1>3, <1>4, <1>5, <1>6, <1>7, <1>8, <1>9, <1>10, <1>11, <1>12, <1>13, <1>14
    DEF Next, Calls, GivesUp

-----------------------------------------------------------------------------

LEMMA Starts == Init => IInv /\ List!Init
  <1> SUFFICES ASSUME Init PROVE IInv /\ List!Init
    OBVIOUS
  <1>1. /\ branch = Orig /\ head = <<>> /\ onDisk = FALSE /\ msgnum = 0 /\ index = 0
        /\ unmerged = FALSE /\ mem = NULL /\ pc = "start" /\ unsure = {}
        /\ crashes = 0 /\ errors = 0 /\ attached = FALSE
    BY DEF Init
  <1>2. Size \in Nat /\ MaxCrashes \in Nat /\ MaxErrors \in Nat /\ <<>> \in Seq(Op)
    BY RebaseAssumption
  <1>3. TypeOK
    <2>1. 0 \in 0..Size /\ 0 \in 0..MaxCrashes /\ 0 \in 0..MaxErrors
      BY <1>2
    <2> QED
      BY <1>1, <1>2, <2>1, Zenon DEF TypeOK
  <1>4. InOrder /\ Complete /\ Steady
    BY <1>1, Distinct DEF InOrder, Increasing, Complete, Steady
  <1> QED
    BY <1>1, <1>3, <1>4 DEF IInv, List!Init

LEMMA Keeps == IInv /\ [Next]_vars => IInv' /\ [List!Next]_(List!vars)
  <1> SUFFICES ASSUME IInv, [Next]_vars PROVE IInv' /\ [List!Next]_(List!vars)
    OBVIOUS
  <1>1. CASE pc = "done"
    <2>1. UNCHANGED vars
      BY <1>1, Terminal
    <2> QED
      BY <1>1, <2>1 DEF IInv, vars, TypeOK, InOrder, Complete, AllIn, List!vars
  <1>2. CASE pc # "done"
    <2>1. TypeOK /\ InOrder /\ Complete /\ Steady
      BY <1>2 DEF IInv
    <2>2. TypeOK'
      BY <2>1, TypeStep
    <2>3. pc' # "done" => Steady'
      BY <2>1, <2>2, SteadyStep
    <2>4. InOrder'
      BY <2>1, <2>2, <2>3, InOrderStep
    <2>5. Complete' /\ [List!Next]_(List!vars)
      BY <1>2, <2>1, <2>2, CompleteStep, ListStep
    <2> QED
      BY <2>2, <2>3, <2>4, <2>5 DEF IInv
  <1> QED
    BY <1>1, <1>2

LEMMA Inductive == Spec => []IInv
  BY Starts, Keeps, PTL DEF Spec

(* The types, whatever the client, a crash or an error does.               *)
THEOREM TypeCorrect == Spec => []TypeOK
  BY Inductive, PTL DEF IInv

(* However often a rebase is cut short and opened again, no operation is   *)
(* committed twice or out of order.                                        *)
THEOREM CommitsInOrder == Spec => []InOrder
  BY Inductive, PTL DEF IInv

(* A branch that was moved lacks only operations it contained, or whose    *)
(* next() did not return: also if init_rebase, abort() or finish() was cut *)
(* short before, any number of times.                                      *)
THEOREM NothingMissing == Spec => []Complete
  BY Inductive, PTL DEF IInv

(* A rebase implements the list of RebaseList, with every call that can    *)
(* throw or be cut short between its writes.                               *)
THEOREM ImplementsList == Spec => ListSpec
  <1>1. Init => List!Init
    BY Starts
  <1>2. IInv /\ [Next]_vars => [List!Next]_(List!vars)
    BY Keeps
  <1> QED
    BY <1>1, <1>2, Inductive, PTL DEF Spec, ListSpec, List!Spec

(* What RebaseList promises of the branch that readers see. *)
BranchOrdered == Increasing(head) /\ (branch \notin {Orig, Mixed} => Increasing(branch))

LEMMA ListOrdered == List!Spec => []BranchOrdered
  <1> DEFINE ListInv == head \in Seq(Int) /\ BranchOrdered
  <1>1. List!Init => ListInv
    BY DEF List!Init, BranchOrdered, Increasing
  <1>2. ListInv /\ [List!Next]_(List!vars) => ListInv'
    <2> SUFFICES ASSUME ListInv, [List!Next]_(List!vars) PROVE ListInv'
      OBVIOUS
    <2>1. ASSUME NEW op \in 1..Size, List!Apply(op)
          PROVE  ListInv'
      <3>1. /\ head' = Append(head, op) /\ branch' = branch /\ op \in Int
            /\ \A i \in DOMAIN head : head[i] < op
        BY <2>1, RebaseAssumption DEF List!Apply
      <3>2. head' \in Seq(Int) /\ DOMAIN head = 1..Len(head) /\ DOMAIN head' = 1..(Len(head) + 1)
        BY <3>1
      <3>3. /\ \A i \in 1..Len(head) : head'[i] = head[i]
            /\ head'[Len(head) + 1] = op
        BY <3>1
      <3>4. Len(head) \in Nat
        OBVIOUS
      <3>5. Increasing(head')
        BY <3>1, <3>2, <3>3, <3>4 DEF Increasing, BranchOrdered
      <3> QED
        BY <3>1, <3>2, <3>5 DEF BranchOrdered, Increasing
    <2>2. CASE List!Finish
      BY <2>2 DEF List!Finish, BranchOrdered, Increasing
    <2>3. CASE List!AbortBegins
      BY <2>3 DEF List!AbortBegins, BranchOrdered, Increasing
    <2>4. CASE List!Stray \/ List!Reset
      BY <2>4 DEF List!Stray, List!Reset, BranchOrdered, Increasing
    <2>5. CASE List!StartCut \/ List!AbortEnds \/ List!AbortCut \/ List!Settle \/ UNCHANGED List!vars
      <3>1. UNCHANGED <<branch, head>>
        BY <2>5 DEF List!StartCut, List!AbortEnds, List!AbortCut, List!Settle, List!vars
      <3> QED
        BY <3>1 DEF BranchOrdered, Increasing
    <2> QED
      BY <2>1, <2>2, <2>3, <2>4, <2>5 DEF List!Next
  <1> HIDE DEF ListInv
  <1>3. ListInv => BranchOrdered
    BY DEF ListInv
  <1> QED
    BY <1>1, <1>2, <1>3, PTL DEF List!Spec

(* A branch that was moved holds its operations in order and none twice,
   however often finish() was cut short and tried again: InOrder for what
   readers see, carried over from RebaseList. *)
THEOREM BranchInOrder == Spec => []BranchOrdered
  BY ImplementsList, ListOrdered, PTL DEF ListSpec

-----------------------------------------------------------------------------
(* A rebase comes to an end: Ends without its fairness.                    *)

(* The crashes and errors that can still come. *)
Budget == (MaxCrashes - crashes) + (MaxErrors - errors)

(* The operation the rebase is at: what the files say, if there are any. *)
Position == IF onDisk THEN msgnum ELSE IF mem # NULL THEN mem.at ELSE 0

(* How far the client is from asking for the next operation. *)
Phase ==
  CASE pc = "cleaning"  -> 1
    [] pc = "aborting"  -> 2
    [] pc = "finishing" -> 3
    [] pc = "over"      -> 4
    [] pc = "loop"      -> 5
    [] pc \in {"picked", "resume"} -> IF unmerged THEN 8 ELSE 6
    [] pc = "resolve"   -> 7
    [] pc = "applying"  -> 9
    [] pc = "start"     -> 10
    [] pc = "failed"    -> 11

(* What is left to do, if nothing fails from now on. *)
Rest == IF pc = "done" THEN 0 ELSE 6 * (Size - Position) + Phase

(* Every step of the program uses up a failure or brings the end nearer, in
   whatever order it calls next(), commit(), finish(), abort(), and opens the
   rebase again; Budget and Rest are natural numbers, so that there are finitely
   many steps. *)
Converges == [][Budget' < Budget \/ (Budget' = Budget /\ Rest' < Rest)]_vars

(* Until then there is always a call that the program can make: where conflicts
   are to be resolved there are some, and next() finds an operation or the end. *)
CanGoOn ==
  \/ pc \in {"start", "applying", "picked", "resume", "failed", "over", "finishing",
             "aborting", "cleaning"}
  \/ pc = "loop" /\ mem.at \in 0..Size
  \/ pc = "resolve" /\ unmerged
  \/ pc = "done"

LEMMA PhaseValues ==
  /\ pc = "cleaning" => Phase = 1
  /\ pc = "aborting" => Phase = 2
  /\ pc = "finishing" => Phase = 3
  /\ pc = "over" => Phase = 4
  /\ pc = "loop" => Phase = 5
  /\ pc \in {"picked", "resume"} => Phase = IF unmerged THEN 8 ELSE 6
  /\ pc = "resolve" => Phase = 7
  /\ pc = "applying" => Phase = 9
  /\ pc = "start" => Phase = 10
  /\ pc = "failed" => Phase = 11
  BY DEF Phase

LEMMA MeasureType ==
  ASSUME IInv
  PROVE  /\ Budget \in Nat /\ Rest \in Nat
         /\ pc # "done" => Position \in 0..Size /\ Phase \in 1..11
  <1>1. Budget \in Nat
    BY RebaseAssumption DEF IInv, TypeOK, Budget
  <1>2. Phase \in 1..11 \/ pc = "done"
    BY PhaseValues DEF IInv, TypeOK
  <1>3. ASSUME pc # "done"
        PROVE  Position \in 0..Size
    <2>1. Steady /\ TypeOK /\ Size \in Nat
      BY <1>3, RebaseAssumption DEF IInv
    <2>2. mem # NULL => mem.at \in 0..Size
      BY <1>3, <2>1, Mine DEF Steady
    <2> QED
      BY <2>1, <2>2 DEF Position, TypeOK
  <1>4. Rest \in Nat
    <2>1. Size \in Nat
      BY RebaseAssumption
    <2> HIDE DEF Position, Phase
    <2> QED
      BY <1>2, <1>3, <2>1 DEF Rest
  <1> QED
    BY <1>1, <1>2, <1>3, <1>4

(* A step that neither fails nor ends the program: it stays at the         *)
(* operation and goes on to an earlier phase, or moves to the next.        *)
LEMMA RestShrinks ==
  ASSUME IInv, pc # "done",
         \/ pc' = "done"
         \/ pc' # "done" /\ Position' = Position /\ Phase' \in 1..11 /\ Phase' < Phase
         \/ pc' # "done" /\ Position' >= Position + 1 /\ Position' \in 0..Size /\ Phase' \in 1..11 /\ Phase' < Phase + 6
  PROVE  Rest' < Rest
  <1>1. Position \in 0..Size /\ Phase \in 1..11 /\ Size \in Nat
    BY MeasureType, RebaseAssumption
  <1> HIDE DEF Position, Phase
  <1>2. Rest = 6 * (Size - Position) + Phase /\ Rest > 0
    BY <1>1 DEF Rest
  <1>3. CASE pc' = "done"
    BY <1>2, <1>3 DEF Rest
  <1>4. CASE pc' # "done"
    BY <1>1, <1>2, <1>4 DEF Rest
  <1> QED
    BY <1>3, <1>4

(* The steps that leave memory and files at the operation they are at. *)
LEMMA StaysThere ==
  ASSUME UNCHANGED <<onDisk, msgnum>>, mem' # NULL, mem # NULL, mem'.at = mem.at
  PROVE  Position' = Position
  BY DEF Position

LEMMA CallConverges ==
  ASSUME IInv, pc # "done", Calls
  PROVE  Budget' < Budget \/ (Budget' = Budget /\ Rest' < Rest)
  <1>1. TypeOK /\ Steady
    BY DEF IInv
  <1>2. pc # "start" => mem \in Memory /\ mem # NULL /\ mem.at \in 0..Size
    BY <1>1, Mine
  <1>3. pc # "start" => onDisk = ~mem.inMemory /\ (onDisk => msgnum <= mem.at) /\ msgnum \in 0..Size
    BY <1>1, Mine DEF TypeOK
  <1>4. /\ pc' = "cleaning" => Phase' = 1
        /\ pc' = "finishing" => Phase' = 3
        /\ pc' = "over" => Phase' = 4
        /\ pc' = "loop" => Phase' = 5
        /\ pc' \in {"picked", "resume"} => Phase' = IF unmerged' THEN 8 ELSE 6
        /\ pc' = "resolve" => Phase' = 7
        /\ pc' = "applying" => Phase' = 9
        /\ pc' = "start" => Phase' = 10
        /\ pc' = "failed" => Phase' = 11
    BY DEF Phase
  <1>5. ASSUME NEW m \in BOOLEAN, InitRebase(m)
        PROVE  Budget' = Budget /\ Rest' < Rest
    <2>1. /\ pc = "start" /\ pc' = "loop" /\ mem = NULL /\ ~onDisk /\ UNCHANGED <<crashes, errors>>
          /\ msgnum' = 0
          /\ mem' = [at |-> 0, inMemory |-> m, patch |-> 0, commits |-> <<>>]
      BY <1>1, <1>5 DEF InitRebase, Steady
    <2>2. mem' # NULL /\ mem'.at = 0
      <3>1. <<>> \in Seq(Op) /\ 0 \in 0..Size
        BY RebaseAssumption
      <3>2. mem' \in Memory
        BY <2>1, <3>1 DEF Memory
      <3> QED
        BY <2>1, <3>2, Distinct
    <2>3. Position' = Position /\ Phase' = 5 /\ Phase = 10
      BY <2>1, <2>2, <1>4, PhaseValues DEF Position
    <2> QED
      BY <2>1, <2>3, RestShrinks DEF Budget
  <1>6. CASE OpenRebase
    <2>1. /\ pc = "start" /\ pc' \in {"loop", "resume"} /\ mem = NULL /\ onDisk
          /\ UNCHANGED <<crashes, errors, onDisk, msgnum, unmerged>>
      BY <1>1, <1>6 DEF OpenRebase, Steady, disk
    <2>2. Position' = Position /\ Phase' \in 5..8 /\ Phase = 10
      BY <2>1, <1>4, PhaseValues DEF Position
    <2> QED
      BY <2>1, <2>2, RestShrinks DEF Budget
  <1>7. CASE NextMoves
    <2>1. /\ pc = "loop" /\ pc' = "applying" /\ mem' = [mem EXCEPT !.at = @ + 1]
          /\ msgnum' = (IF mem.inMemory THEN msgnum ELSE mem.at + 1)
          /\ UNCHANGED <<crashes, errors, onDisk>>
      BY <1>7 DEF NextMoves
    <2>2. mem' # NULL /\ mem'.at = mem.at + 1 /\ mem # NULL /\ mem.at + 1 \in 0..Size
      <3>1. mem.at + 1 \in Int /\ mem \in Memory
        BY <1>2, <2>1
      <3>2. mem' \in [at : Int, inMemory : BOOLEAN, patch : 0..Size, commits : Seq(Op)]
        BY <2>1, <3>1 DEF Memory
      <3>3. mem'.at = mem.at + 1
        BY <2>1, <3>1 DEF Memory
      <3>4. mem'.at \in 0..Size
        BY <3>3, <1>2, <1>7, <2>1, RebaseAssumption DEF NextMoves
      <3>5. mem' \in Memory
        BY <3>2, <3>4 DEF Memory
      <3> QED
        BY <1>2, <2>1, <3>3, <3>4, <3>5, Distinct
    <2>3. Position' >= Position + 1 /\ Position' \in 0..Size
      <3>1. mem.at \in 0..Size /\ pc # "start"
        BY <1>2, <2>1
      <3>2. CASE mem.inMemory
        <4>1. Position = mem.at /\ Position' = mem.at + 1
          BY <1>3, <2>1, <2>2, <3>1, <3>2 DEF Position
        <4> QED
          BY <2>2, <3>1, <4>1
      <3>3. CASE ~mem.inMemory
        <4>1. Position = msgnum /\ Position' = mem.at + 1 /\ msgnum <= mem.at /\ msgnum \in 0..Size
          BY <1>3, <2>1, <3>1, <3>3 DEF Position
        <4> QED
          BY <2>2, <3>1, <4>1
      <3> QED
        BY <3>2, <3>3
    <2>4. Phase' = 9 /\ Phase = 5 /\ pc' # "done"
      BY <2>1, <1>4, PhaseValues
    <2> QED
      BY <2>1, <2>3, <2>4, RestShrinks DEF Budget
  <1>8. CASE NextApplies \/ Commit \/ CommitAstray
    <2>1. /\ \/ pc = "applying" /\ pc' = "picked"
             \/ pc \in {"picked", "resume"} /\ ~unmerged /\ pc' = "loop"
          /\ UNCHANGED <<crashes, errors, onDisk, msgnum>>
      BY <1>8 DEF NextApplies, Commit, CommitAstray
    <2>2. mem \in Memory /\ mem # NULL
      BY <1>2, <2>1
    <2>3. \/ mem' = mem
          \/ \E x : mem' = [mem EXCEPT !.patch = x]
          \/ \E x : mem' = [mem EXCEPT !.commits = x, !.patch = 0]
      BY <1>8 DEF NextApplies, Commit, CommitAstray
    <2>4. mem'.at = mem.at
      BY <2>2, <2>3 DEF Memory
    <2>5. mem' # NULL
      <3>1. TypeOK'
        BY <1>1, TypeStep, <1>8 DEF Next, Calls
      <3>2. Steady'
        BY <1>1, <2>1, <3>1, SteadyStep, <1>8 DEF Next, Calls
      <3> QED
        BY <2>1, <3>2 DEF Steady
    <2>6. Position' = Position /\ Phase' \in 1..11 /\ Phase' < Phase
      BY <2>1, <2>2, <2>4, <2>5, <1>4, PhaseValues, StaysThere
    <2> QED
      BY <2>1, <2>6, RestShrinks DEF Budget
  <1>9. CASE NextOver \/ Resolve \/ CommitUnmerged \/ CommitApplied \/ Retry
    <2>1. /\ \/ pc = "loop" /\ pc' = "over"
             \/ pc \in {"picked", "resolve"} /\ unmerged /\ pc' = "picked" /\ ~unmerged'
             \/ pc \in {"picked", "resume"} /\ unmerged /\ pc' = "resolve"
             \/ pc \in {"picked", "resume"} /\ pc' = "loop"
             \/ pc = "failed" /\ pc' = "loop"
          /\ UNCHANGED <<crashes, errors, onDisk, msgnum, mem>>
      BY <1>9 DEF NextOver, Resolve, CommitUnmerged, CommitApplied, Retry, AfterNext,
         AfterCommit, Thrown, disk
    <2>2. Position' = Position /\ Phase' \in 1..11 /\ Phase' < Phase
      BY <2>1, <1>4, PhaseValues DEF Position
    <2> QED
      BY <2>1, <2>2, RestShrinks DEF Budget
  <1>10. CASE StartThrows \/ NextThrowsEarly \/ NextThrows \/ CommitThrows \/ FinishThrows
    <2>1. errors < MaxErrors /\ errors' = errors + 1 /\ crashes' = crashes
      BY <1>10 DEF StartThrows, NextThrowsEarly, NextThrows, CommitThrows, FinishThrows, Fails
    <2> QED
      BY <1>1, <2>1, RebaseAssumption DEF Budget, TypeOK
  <1>11. CASE Drop
    <2>1. /\ pc = "failed" /\ mem' = NULL /\ pc' = IF onDisk THEN "start" ELSE "done"
          /\ UNCHANGED <<crashes, errors, onDisk, msgnum>>
      BY <1>11 DEF Drop, disk
    <2>2. onDisk => Position' = Position /\ Phase' = 10 /\ Phase = 11
      BY <2>1, <1>4, PhaseValues DEF Position
    <2> QED
      BY <2>1, <2>2, RestShrinks DEF Budget
  <1>12. CASE Finish
    <2>1. pc = "over" /\ pc' = "finishing" /\ UNCHANGED <<crashes, errors, onDisk, msgnum, mem>>
      BY <1>12 DEF Finish
    <2>2. Position' = Position /\ Phase' = 3 /\ Phase = 4
      BY <2>1, <1>4, PhaseValues DEF Position
    <2> QED
      BY <2>1, <2>2, RestShrinks DEF Budget
  <1>14. CASE AbortResets
    <2>1. /\ pc = "aborting" /\ pc' = "cleaning"
          /\ UNCHANGED <<crashes, errors, onDisk, msgnum, mem>>
      BY <1>14 DEF AbortResets
    <2>2. Position' = Position /\ Phase' = 1 /\ Phase = 2
      BY <2>1, <1>4, PhaseValues DEF Position
    <2> QED
      BY <2>1, <2>2, RestShrinks DEF Budget
  <1>13. CASE FinishCleans \/ FinishAgain \/ AbortCleans
    <2>1. pc' = "done" /\ UNCHANGED <<crashes, errors>>
      BY <1>13 DEF FinishCleans, FinishAgain, AbortCleans
    <2> QED
      BY <2>1, RestShrinks DEF Budget
  <1> QED
    BY <1>5, <1>6, <1>7, <1>8, <1>9, <1>10, <1>11, <1>12, <1>13, <1>14
    DEF Calls

LEMMA StepConverges ==
  IInv /\ [Next]_vars => [Budget' < Budget \/ (Budget' = Budget /\ Rest' < Rest)]_vars
  <1> SUFFICES ASSUME IInv, Next, ~UNCHANGED vars
               PROVE  Budget' < Budget \/ (Budget' = Budget /\ Rest' < Rest)
    OBVIOUS
  <1>1. pc # "done"
    BY Terminal
  <1>2. CASE Calls
    BY <1>1, <1>2, CallConverges
  <1>3. CASE AbortInMemory
    <2>1. pc' = "done" /\ UNCHANGED <<crashes, errors>>
      BY <1>3 DEF AbortInMemory
    <2> QED
      BY <1>1, <2>1, RestShrinks DEF Budget
  <1>4. CASE AbortAttaches
    <2>1. /\ pc \in {"loop", "resolve", "picked", "resume", "failed", "over"} /\ pc' = "aborting"
          /\ UNCHANGED <<crashes, errors, onDisk, msgnum, mem>>
      BY <1>4 DEF AbortAttaches, CanAbort
    <2>2. Position' = Position /\ Phase \in 3..11
      BY <2>1, PhaseValues DEF Position
    <2>3. Phase' = 2
      BY <2>1 DEF Phase
    <2> QED
      BY <1>1, <2>1, <2>2, <2>3, RestShrinks DEF Budget
  <1>5. CASE AbortThrows
    <2>1. errors < MaxErrors /\ errors' = errors + 1 /\ crashes' = crashes
      BY <1>5 DEF AbortThrows, Fails
    <2> QED
      BY <2>1, RebaseAssumption DEF Budget, IInv, TypeOK
  <1>6. CASE Crash \/ InitCut
    <2>1. crashes < MaxCrashes /\ crashes' = crashes + 1 /\ errors' = errors
      BY <1>6 DEF Crash, InitCut, Dies
    <2> QED
      BY <2>1, RebaseAssumption DEF Budget, IInv, TypeOK
  <1> QED
    BY <1>2, <1>3, <1>4, <1>5, <1>6 DEF Next, GivesUp

LEMMA GoesOn == Spec => []CanGoOn
  <1> DEFINE I == pc = "resolve" => unmerged
  <1>1. Init => I
    BY DEF Init
  <1>2. I /\ [Next]_vars => I'
    <2> SUFFICES ASSUME I, [Next]_vars, pc' = "resolve" PROVE unmerged'
      OBVIOUS
    <2>1. CASE UNCHANGED vars
      BY <2>1 DEF vars
    <2>2. CASE CommitUnmerged
      BY <2>2 DEF CommitUnmerged, disk
    <2> QED
      BY <2>1, <2>2 DEF Next, Calls, GivesUp, InitRebase, OpenRebase, StartThrows, InitCut,
         NextOver, NextMoves, NextApplies, NextThrowsEarly, NextThrows, Resolve, Commit,
         CommitAstray, CommitApplied, CommitThrows, Retry, Drop, Finish, FinishCleans,
         FinishThrows, FinishAgain, AbortInMemory, AbortAttaches, AbortResets, AbortCleans,
         AbortThrows, Crash, AfterNext, AfterCommit, Thrown
  <1>3. IInv /\ I => CanGoOn
    <2> SUFFICES ASSUME IInv, I PROVE CanGoOn
      OBVIOUS
    <2>1. pc = "loop" => mem.at \in 0..Size
      BY Mine DEF IInv
    <2> QED
      BY <2>1 DEF CanGoOn, IInv, TypeOK
  <1> QED
    BY <1>1, <1>2, <1>3, Inductive, PTL DEF Spec

(* Whatever the client tries again, whatever dies in between: with finitely
   many crashes and errors the program takes finitely many steps, and until it
   is done there is one it can take. *)
THEOREM RebaseEnds == Spec => [](Budget \in Nat /\ Rest \in Nat /\ CanGoOn) /\ Converges
  <1>1. IInv => Budget \in Nat /\ Rest \in Nat
    BY MeasureType
  <1> QED
    BY <1>1, Inductive, StepConverges, GoesOn, PTL DEF Spec, Converges

=============================================================================
