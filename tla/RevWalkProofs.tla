---------------------------- MODULE RevWalkProofs ---------------------------
(***************************************************************************)
(* Proofs about RevWalk, for every repository, every client, any number of *)
(* walks, and errors that come now and then or for ever.                   *)
(***************************************************************************)
EXTENDS RevWalk, FiniteSetTheorems, TLAPS

(* done_ that was set during a walk says that libgit2's walker is blank; a *)
(* walk that was begun with done_ set keeps it, and so never runs.         *)
Flag ==
  /\ pc = "ended" => done
  /\ stale => done \/ pc = "finished"
  /\ done /\ ~stale => pushed = {} /\ pc # "setup"

(* A walk that is set up has nothing behind it, ...                        *)
Fresh ==
  pc = "setup" =>
    /\ visited = {}
    /\ ~stale => returned = {} /\ asked = Span(pushed, hidden)

(* ... what libgit2 has returned has been visited or is about to be, ...   *)
Halfway ==
  pc \in {"loop", "visit"} /\ ~done /\ ~failed =>
    /\ asked = Span(pushed, hidden)
    /\ returned \subseteq asked
    /\ returned = IF pc = "loop" THEN visited ELSE visited \cup {item}

(* ... and at its end all has.                                             *)
Over ==
  pc \in {"loop", "visit", "ended"} /\ done /\ ~stale /\ ~failed =>
    visited = asked

IInv == TypeOK /\ Flag /\ Fresh /\ Halfway /\ Over

LEMMA SpanType ==
  ASSUME NEW P \in SUBSET Commit, NEW H \in SUBSET Commit
  PROVE  Span(P, H) \subseteq Commit
  BY RevWalkAssumption DEF Span

LEMMA SpanEmpty ==
  ASSUME NEW H
  PROVE  Span({}, H) = {}
  BY DEF Span

LEMMA IInvInit == Init => IInv
  <1> SUFFICES ASSUME Init PROVE IInv
    OBVIOUS
  <1>1. done \in BOOLEAN
    BY DEF Init
  <1>2. TypeOK
    BY <1>1 DEF Init, TypeOK, Unfilled
  <1>3. Flag /\ Fresh /\ Halfway /\ Over
    BY SpanEmpty DEF Init, Flag, Fresh, Halfway, Over
  <1> QED
    BY <1>2, <1>3 DEF IInv

LEMMA TypeStep == TypeOK /\ [Next]_vars => TypeOK'
  <1> SUFFICES ASSUME TypeOK, [Next]_vars
               PROVE  TypeOK'
    OBVIOUS
  <1> USE DEF TypeOK, Unfilled
  <1>1. ASSUME NEW c \in Commit, Push(c) \/ Hide(c)
        PROVE  TypeOK'
    <2>1. asked' \subseteq Commit
      BY <1>1, SpanType DEF Push, Hide
    <2> QED
      BY <1>1, <2>1 DEF Push, Hide, rest
  <1>2. CASE SetupThrows \/ StartLoop \/ LeaveLoop \/ Break \/ Finish \/ Terminated
    BY <1>2 DEF SetupThrows, StartLoop, LeaveLoop, Break, Finish, Terminated, walker,
       rest, vars
  <1>3. ASSUME NEW c \in Commit, NextCommit(c)
        PROVE  TypeOK'
    BY <1>3 DEF NextCommit, rest
  <1>4. CASE NextIterOver
    BY <1>4 DEF NextIterOver, Blank, rest
  <1>5. CASE NextError
    BY <1>5 DEF NextError, walker
  <1>6. CASE Visit
    BY <1>6 DEF Visit, walker, rest
  <1>7. CASE Reset \/ PushAgain \/ AssignNew
    <2>1. stale' \in BOOLEAN /\ done' \in BOOLEAN
      BY <1>7 DEF Reset, PushAgain, AssignNew
    <2>2. failed' \in BOOLEAN
      BY <1>7 DEF Reset, PushAgain, AssignNew, NewWalk
    <2> QED
      BY <1>7, <2>1, <2>2 DEF Reset, PushAgain, AssignNew, NewWalk, Blank, walker
  <1>8. CASE ResetThrows
    BY <1>8 DEF ResetThrows, walker, rest
  <1>9. CASE UNCHANGED vars
    BY <1>9 DEF vars, walker, rest
  <1> QED
    BY <1>1, <1>2, <1>3, <1>4, <1>5, <1>6, <1>7, <1>8, <1>9 DEF Next, Walk

(* The steps of next() and of the loop's body. *)
LEMMA WalkStep ==
  ASSUME IInv, Walk
  PROVE  Flag' /\ Fresh' /\ Halfway' /\ Over'
  <1> USE DEF IInv, Flag, Fresh, Halfway, Over
  <1>1. CASE LeaveLoop
    BY <1>1 DEF LeaveLoop, walker, rest
  <1>2. ASSUME NEW c \in Commit, NextCommit(c)
        PROVE  Flag' /\ Fresh' /\ Halfway' /\ Over'
    BY <1>2 DEF NextCommit, Left, rest
  <1>3. CASE NextIterOver
    <2>1. ~failed => visited = asked
      BY <1>3 DEF NextIterOver, Left
    <2> QED
      BY <1>3, <2>1 DEF NextIterOver, Blank, rest
  <1>4. CASE NextError
    <2>1. failed'
      BY <1>4 DEF NextError, TypeOK
    <2> QED
      BY <1>4, <2>1 DEF NextError, walker
  <1>5. CASE Visit
    BY <1>5 DEF Visit, walker, rest
  <1> QED
    BY <1>1, <1>2, <1>3, <1>4, <1>5 DEF Walk

LEMMA IInvStep == IInv /\ [Next]_vars => IInv'
  <1> SUFFICES ASSUME IInv, [Next]_vars
               PROVE  Flag' /\ Fresh' /\ Halfway' /\ Over'
    BY TypeStep DEF IInv
  <1> USE DEF IInv, Flag, Fresh, Halfway, Over
  <1>1. ASSUME NEW c \in Commit, Push(c) \/ Hide(c)
        PROVE  Flag' /\ Fresh' /\ Halfway' /\ Over'
    BY <1>1 DEF Push, Hide, rest
  <1>2. CASE StartLoop
    <2>1. ~done => ~stale
      BY <1>2 DEF StartLoop
    <2> QED
      BY <1>2, <2>1 DEF StartLoop, walker, rest
  <1>3. CASE SetupThrows \/ Break \/ Finish \/ Terminated
    BY <1>3 DEF SetupThrows, Break, Finish, Terminated, walker, rest, vars
  <1>4. CASE Reset \/ AssignNew
    BY <1>4, SpanEmpty DEF Reset, AssignNew, NewWalk, Blank
  <1>5. CASE PushAgain
    BY <1>5 DEF PushAgain, NewWalk, walker
  <1>6. CASE ResetThrows
    BY <1>6 DEF ResetThrows, walker, rest
  <1>7. CASE UNCHANGED vars
    BY <1>7 DEF vars, walker, rest
  <1> QED
    BY <1>1, <1>2, <1>3, <1>4, <1>5, <1>6, <1>7, WalkStep DEF Next

LEMMA Inductive == Spec => []IInv
  BY IInvInit, IInvStep, PTL DEF Spec

(* The variables of the walk always have their types. *)
THEOREM TypeCorrect == Spec => []TypeOK
  <1>1. IInv => TypeOK
    BY DEF IInv
  <1> QED
    BY <1>1, Inductive, PTL

(* In every repository and however often the walker was used before, a loop
   that ends without an error has been given exactly the commits asked for, if
   its walk was not begun with done_ set. *)
THEOREM WalksComplete == Spec => []CompleteWalk
  <1>1. IInv => CompleteWalk
    BY DEF IInv, Flag, Over, CompleteWalk
  <1> QED
    BY <1>1, Inductive, PTL

(* done() tells the truth in a walk that was not begun with done_ set. *)
THEOREM DoneIsExact == Spec => []DoneExact
  <1>1. IInv => DoneExact
    BY SpanEmpty DEF IInv, Flag, DoneExact, Left
  <1> QED
    BY <1>1, Inductive, PTL

(* Until the first error, next() returns no commit twice in a walk. *)
THEOREM NeverRepeats == Spec => NoRepeat
  <1>1. ASSUME IInv, [Next]_vars, pc = "loop", pc' = "visit", ~done', ~failed'
        PROVE  item' \notin visited
    <2>1. ASSUME NEW c \in Commit, NextCommit(c)
          PROVE  item' \notin visited
      BY <1>1, <2>1 DEF NextCommit, IInv, Halfway, Left, rest
    <2>2. CASE NextIterOver
      BY <1>1, <2>2 DEF NextIterOver
    <2>3. CASE NextError
      BY <1>1, <2>3 DEF NextError, IInv, TypeOK
    <2>4. \/ \E c \in Commit : NextCommit(c)
          \/ NextIterOver \/ NextError
      BY <1>1 DEF Next, Walk, Push, Hide, SetupThrows, StartLoop, LeaveLoop, Visit,
         Break, Reset, ResetThrows, PushAgain, AssignNew, NewWalk, Finish, Terminated,
         vars
    <2> QED
      BY <2>1, <2>2, <2>3, <2>4
  <1>2. IInv /\ [Next]_vars =>
          [pc = "loop" /\ pc' = "visit" /\ ~done' /\ ~failed'
             => item' \notin visited]_vars
    BY <1>1
  <1> QED
    BY <1>2, Inductive, PTL DEF Spec, NoRepeat
-----------------------------------------------------------------------------
(* The refinement of Enumeration.                                          *)

LEMMA EnumerationStart == Init => E!EInit
  <1> SUFFICES ASSUME Init PROVE E!EInit
    OBVIOUS
  <1>1. ~InLoop /\ ~Holding /\ pc = "setup"
    BY DEF Init, InLoop, Holding
  <1> QED
    BY <1>1 DEF E!EInit

(* The steps outside the loop leave the enumeration idle, or end it.       *)
LEMMA EnumerationOutside ==
  ASSUME IInv,
         \/ (\E c \in Commit : Push(c) \/ Hide(c)) \/ SetupThrows \/ StartLoop
         \/ Break \/ Reset \/ ResetThrows \/ PushAgain \/ AssignNew \/ Finish
  PROVE  [E!ENext]_(E!evars)
  <1> USE DEF InLoop, Holding, Given
  <1>1. CASE (\E c \in Commit : Push(c) \/ Hide(c)) \/ SetupThrows
    <2>1. pc = "setup" /\ pc' \in {"setup", "finished"}
      BY <1>1 DEF Push, Hide, SetupThrows
    <2> QED
      BY <2>1 DEF E!evars
  <1>2. CASE StartLoop
    <2>1. pc = "setup" /\ pc' = "loop" /\ UNCHANGED <<done, stale, asked, visited, failed>>
      BY <1>2 DEF StartLoop, rest
    <2>2. visited' = {}
      BY <2>1 DEF IInv, Fresh
    <2>3. E!Begin
      BY <2>1, <2>2 DEF E!Begin
    <2> QED
      BY <2>3 DEF E!ENext
  <1>3. CASE Break
    <2>1. /\ pc = "visit" /\ pc' = "broken"
          /\ UNCHANGED <<done, item, stale, asked, visited, failed>>
      BY <1>3 DEF Break, rest
    <2>2. E!Leave
      BY <2>1 DEF E!Leave
    <2> QED
      BY <2>2 DEF E!ENext
  <1>4. CASE Reset \/ ResetThrows \/ PushAgain \/ AssignNew \/ Finish
    <2>1. pc \in {"ended", "broken"} /\ pc' \in {"setup", "finished"}
      BY <1>4 DEF Reset, ResetThrows, PushAgain, AssignNew, Finish, NewWalk
    <2>2. E!Forget
      BY <2>1 DEF E!Forget
    <2> QED
      BY <2>2 DEF E!ENext
  <1> QED
    BY <1>1, <1>2, <1>3, <1>4

(* next() and the loop: one element, an error, or the end.                 *)
LEMMA EnumerationInside ==
  ASSUME IInv, Walk
  PROVE  [E!ENext]_(E!evars)
  <1> USE DEF InLoop, Holding, Given
  <1>1. failed \in BOOLEAN /\ done \in BOOLEAN /\ stale \in BOOLEAN
    BY DEF IInv, TypeOK
  <1>2. CASE LeaveLoop
    <2>1. /\ pc = "loop" /\ pc' = "ended" /\ done
          /\ UNCHANGED <<done, item, stale, asked, visited, failed>>
      BY <1>2 DEF LeaveLoop, rest
    <2>2. stale \/ failed \/ visited = asked
      BY <1>1, <2>1 DEF IInv, Over
    <2>3. E!Over
      BY <2>1, <2>2 DEF E!Over
    <2> QED
      BY <2>3 DEF E!ENext
  <1>3. ASSUME NEW c \in Commit, NextCommit(c)
        PROVE  [E!ENext]_(E!evars)
    <2>1. /\ pc = "loop" /\ pc' = "visit" /\ ~done /\ item' = c /\ c \in Left
          /\ UNCHANGED <<done, stale, asked, visited, failed>>
      BY <1>3 DEF NextCommit, rest
    <2>2. ~failed => c \in asked \ visited
      BY <2>1 DEF IInv, Halfway, Left
    <2>3. E!Give(c)
      BY <1>1, <2>1, <2>2 DEF E!Give
    <2> QED
      BY <2>1, <2>3 DEF E!ENext
  <1>4. CASE NextIterOver
    <2>1. /\ pc = "loop" /\ pc' = "visit" /\ ~done /\ done'
          /\ UNCHANGED <<stale, asked, visited, failed>>
      BY <1>4 DEF NextIterOver, rest
    <2> QED
      BY <2>1 DEF E!evars
  <1>5. CASE NextError
    <2>1. /\ pc = "loop" /\ pc' = "visit" /\ ~done /\ failed'
          /\ UNCHANGED <<done, stale, asked, visited>>
      BY <1>5 DEF NextError
    <2>2. failed'
      BY <2>1
    <2>3. E!Fault
      BY <2>1, <2>2 DEF E!Fault
    <2> QED
      BY <2>3 DEF E!ENext
  <1>6. CASE Visit
    <2>1. /\ pc = "visit" /\ pc' = "loop"
          /\ visited' = IF done THEN visited ELSE visited \cup {item}
          /\ UNCHANGED <<done, item, stale, asked, failed>>
      BY <1>6 DEF Visit, rest
    <2>2. CASE done
      BY <2>1, <2>2 DEF E!evars
    <2>3. CASE ~done
      <3>1. E!Back
        BY <2>1, <2>3 DEF E!Back
      <3> QED
        BY <3>1 DEF E!ENext
    <2> QED
      BY <2>2, <2>3
  <1> QED
    BY <1>2, <1>3, <1>4, <1>5, <1>6 DEF Walk

LEMMA EnumerationStep == IInv /\ [Next]_vars => [E!ENext]_(E!evars)
  <1>1. ASSUME UNCHANGED vars
        PROVE  UNCHANGED E!evars
    BY <1>1 DEF vars, rest, walker, InLoop, Holding, Given, E!evars
  <1> QED
    BY <1>1, EnumerationOutside, EnumerationInside DEF Next, Terminated

(* In every repository and however a walker was used before, a walk is an
   enumeration of the commits asked for: each once, and no other. *)
THEOREM ImplementsEnumeration == Spec => EnumerationSpec
  <1>1. Init => E!EInit
    BY EnumerationStart
  <1> QED
    BY <1>1, Inductive, EnumerationStep, PTL DEF Spec, EnumerationSpec, E!ESpec

(* What Enumeration promises: until it is faulty, it gives what is wanted only,
   and all of it before it is over. *)
GivesWanted ==
  InLoop /\ ~stale /\ ~failed =>
    /\ Given \subseteq asked
    /\ pc = "ended" => Given = asked

LEMMA EnumerationExact == E!ESpec => []GivesWanted
  <1>1. E!EInit => GivesWanted
    BY DEF E!EInit, GivesWanted, InLoop
  <1>2. GivesWanted /\ [E!ENext]_(E!evars) => GivesWanted'
    <2> SUFFICES ASSUME GivesWanted, [E!ENext]_(E!evars) PROVE GivesWanted'
      OBVIOUS
    <2> USE DEF GivesWanted, InLoop, Holding
    <2>1. CASE E!Begin
      BY <2>1 DEF E!Begin
    <2>2. ASSUME NEW x, E!Give(x)
          PROVE  GivesWanted'
      BY <2>2 DEF E!Give
    <2>3. CASE E!Fault
      BY <2>3 DEF E!Fault
    <2>4. CASE E!Back
      BY <2>4 DEF E!Back
    <2>5. CASE E!Over
      BY <2>5 DEF E!Over
    <2>6. CASE E!Leave
      BY <2>6 DEF E!Leave
    <2>7. CASE E!Forget
      BY <2>7 DEF E!Forget
    <2>8. CASE UNCHANGED E!evars
      BY <2>8 DEF E!evars
    <2> QED
      BY <2>1, <2>2, <2>3, <2>4, <2>5, <2>6, <2>7, <2>8 DEF E!ENext
  <1> QED
    BY <1>1, <1>2, PTL DEF E!ESpec

(* While a loop runs, not only when it has ended, it has been given nothing but
   commits asked for; and at the end all of them: carried over from
   Enumeration. *)
THEOREM OnlyAsked == Spec => []GivesWanted
  BY ImplementsEnumeration, EnumerationExact, PTL DEF EnumerationSpec

-----------------------------------------------------------------------------
(* The loop comes to an end if errors do: LoopEnds without its fairness.   *)

(* What is left of a loop: the commits to come and the end. *)
LoopRest ==
  2 * (Cardinality(Left) + (IF done THEN 0 ELSE 1)) + (IF pc = "visit" THEN 1 ELSE 0)

(* Every step of a loop brings its end nearer or is the end, bytes that next()
   did not fill included, but for a failure of git_revwalk_next: next() drops
   its code, and the commits and the end are as far away as before, once the
   loop body has had the bytes. *)
LoopShrinks ==
  pc \in {"loop", "visit"} =>
    \/ pc' \in {"ended", "broken"}
    \/ LoopRest' < LoopRest
    \/ NextError /\ LoopRest' = LoopRest + 1

LoopConverges == [][LoopShrinks]_vars

LEMMA LeftFinite ==
  ASSUME TypeOK
  PROVE  IsFiniteSet(Left) /\ Cardinality(Left) \in Nat
  <1>1. Left \subseteq Commit
    BY SpanType DEF TypeOK, Left
  <1>2. IsFiniteSet(Left)
    BY <1>1, RevWalkAssumption, FS_Subset
  <1> QED
    BY <1>2, FS_CardinalityType

LEMMA LoopRestType == TypeOK => LoopRest \in Nat
  <1> SUFFICES ASSUME TypeOK PROVE LoopRest \in Nat
    OBVIOUS
  <1> DEFINE n == Cardinality(Left)
  <1>1. n \in Nat
    BY LeftFinite
  <1> HIDE DEF n
  <1>2. 2 * (n + (IF done THEN 0 ELSE 1)) \in Nat
    BY <1>1
  <1> QED
    BY <1>2 DEF LoopRest, n

LEMMA WalkConverges ==
  ASSUME TypeOK, Walk, pc' # "ended"
  PROVE  LoopRest' < LoopRest \/ (NextError /\ LoopRest' = LoopRest + 1)
  <1> DEFINE n == Cardinality(Left)
             m == Cardinality(Left')
  <1>1. n \in Nat /\ IsFiniteSet(Left)
    BY LeftFinite
  <1>2. /\ LoopRest = 2 * (n + (IF done THEN 0 ELSE 1)) + (IF pc = "visit" THEN 1 ELSE 0)
        /\ LoopRest' = 2 * (m + (IF done' THEN 0 ELSE 1)) + (IF pc' = "visit" THEN 1 ELSE 0)
    BY DEF LoopRest
  <1>3. ASSUME NEW c \in Commit, NextCommit(c)
        PROVE  LoopRest' < LoopRest
    <2>1. c \in Left /\ Left' = Left \ {c} /\ UNCHANGED done
          /\ pc = "loop" /\ pc' = "visit"
      BY <1>3 DEF NextCommit, Left
    <2>2. m = n - 1
      BY <1>1, <2>1, FS_RemoveElement
    <2> HIDE DEF n, m
    <2> QED
      BY <1>1, <1>2, <2>1, <2>2
  <1>4. CASE NextIterOver
    <2>1. Left = {} /\ Left' = {} /\ ~done /\ done'
          /\ pc = "loop" /\ pc' = "visit"
      BY <1>4, SpanEmpty DEF NextIterOver, Blank, Left
    <2>2. m = n
      BY <2>1
    <2> HIDE DEF n, m
    <2> QED
      BY <1>1, <1>2, <2>1, <2>2
  <1>5. CASE NextError
    <2>1. Left' = Left /\ UNCHANGED done /\ pc = "loop" /\ pc' = "visit"
      BY <1>5 DEF NextError, walker, Left
    <2>2. m = n
      BY <2>1
    <2> HIDE DEF n, m
    <2>3. LoopRest' = LoopRest + 1
      BY <1>1, <1>2, <2>1, <2>2
    <2> QED
      BY <1>5, <2>3
  <1>6. CASE Visit
    <2>1. Left' = Left /\ UNCHANGED done /\ pc = "visit" /\ pc' = "loop"
      BY <1>6 DEF Visit, walker, Left
    <2>2. m = n
      BY <2>1
    <2> HIDE DEF n, m
    <2> QED
      BY <1>1, <1>2, <2>1, <2>2
  <1> QED
    BY <1>3, <1>4, <1>5, <1>6 DEF Walk, LeaveLoop

(* Whatever an earlier walk left behind and next() does not fill, only failures
   of git_revwalk_next keep a loop going: it has at most LoopRest steps without
   one, and a failure takes nothing of what is left. *)
THEOREM LoopBounded == Spec => [](LoopRest \in Nat) /\ LoopConverges
  <1>1. TypeOK /\ [Next]_vars => [LoopShrinks]_vars
    <2> SUFFICES ASSUME TypeOK, Next, pc \in {"loop", "visit"}, pc' \notin {"ended", "broken"}
                 PROVE  LoopRest' < LoopRest \/ (NextError /\ LoopRest' = LoopRest + 1)
      BY DEF LoopShrinks
    <2>1. Walk
      BY DEF Next, Push, Hide, SetupThrows, StartLoop, Break, Reset, ResetThrows,
         PushAgain, AssignNew, NewWalk, Finish, Terminated
    <2> QED
      BY <2>1, WalkConverges
  <1> QED
    BY <1>1, TypeCorrect, LoopRestType, PTL DEF Spec, LoopConverges
=============================================================================
