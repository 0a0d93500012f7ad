------------------------------ MODULE RevWalk ------------------------------
(***************************************************************************)
(* A revision walk: cppgit2::revwalk, the client loop of                   *)
(* samples/revwalk_from_head.cpp that drives it, and what the client does  *)
(* with the walker once the loop is over.                                  *)
(*                                                                         *)
(* libgit2's walker is external: the roots pushed and hidden since it was  *)
(* last blank and the commits it has already returned.  The wrapper adds   *)
(* one bit, done_, which next() sets when libgit2 answers GIT_ITEROVER.    *)
(***************************************************************************)
EXTENDS Integers, FiniteSets

CONSTANTS Commit,
          Ancestors,  \* Ancestors[c]: the commits reachable from c, c included
          NoCommit,   \* an oid that is no commit of the repository
          Reuse,      \* how this client starts over: "reset", "push", "assign"
          MovedWalker,  \* is create_revwalk's result moved, not elided?
          MaxWalks    \* bound: walks started with one variable

ASSUME RevWalkAssumption ==
  /\ IsFiniteSet(Commit) /\ NoCommit \notin Commit
  /\ Ancestors \in [Commit -> SUBSET Commit]
  /\ \A c \in Commit : c \in Ancestors[c]
  /\ \A c \in Commit : \A a \in Ancestors[c] : Ancestors[a] \subseteq Ancestors[c]
  /\ Reuse \subseteq {"reset", "push", "assign"}
  /\ MovedWalker \in BOOLEAN
  /\ MaxWalks \in Nat

VARIABLES pushed, hidden,  \* libgit2: the walk's roots, and what to leave out
          returned,        \* libgit2: the commits already returned
          done,            \* done_
          pc,              \* where the client is
          item,            \* the oid next() returned last
          stale,           \* was done_ still set when this walk was begun?
          asked,           \* the commits the client wants from this walk
          visited,         \* the commits it has been given in this walk
          failed,          \* has git_revwalk_next failed in this walk?
          walks            \* counts the walks, for the bound

walker == <<pushed, hidden, returned>>
rest == <<failed, walks>>
vars == <<walker, done, pc, item, stale, asked, visited, rest>>

(* The commits a walk from P that leaves out H returns. *)
Span(P, H) == UNION {Ancestors[c] : c \in P} \ UNION {Ancestors[c] : c \in H}

(* Mutant: next() returns bytes that are not an oid. *)
UnfilledBytes == Commit \cup {"bytes"}

(* oid() leaves its bytes uninitialised: an oid that next() did not fill may
   be any, an earlier commit's included. *)
Unfilled == Commit \cup {NoCommit}

(* The commits left to walk. *)
Left == Span(pushed, hidden) \ returned

Blank == pushed' = {} /\ hidden' = {} /\ returned' = {}

-----------------------------------------------------------------------------

(* repository::create_revwalk returns revwalk(nullptr, user), by elision or
   through the move constructor, which does not initialise done_. *)
Init ==
  /\ pushed = {} /\ hidden = {} /\ returned = {}
  /\ done \in IF MovedWalker THEN BOOLEAN ELSE {FALSE}
  /\ pc = "setup"
  /\ item = NoCommit
  /\ stale = done
  /\ asked = {} /\ visited = {}
  /\ failed = FALSE /\ walks = 1

(* push, push_head, push_glob, push_reference and hide and its like. *)
Push(c) ==
  /\ pc = "setup"
  /\ pushed' = pushed \cup {c}
  /\ asked' = Span(pushed', hidden)
  /\ UNCHANGED <<hidden, returned, done, pc, item, stale, visited, rest>>

Hide(c) ==
  /\ pc = "setup"
  /\ hidden' = hidden \cup {c}
  /\ asked' = Span(pushed, hidden')
  /\ UNCHANGED <<pushed, returned, done, pc, item, stale, visited, rest>>

(* Any of them fails and throws before anything has changed. *)
SetupThrows ==
  /\ pc = "setup"
  /\ pc' = "finished"
  /\ UNCHANGED <<walker, done, item, stale, asked, visited, rest>>

StartLoop ==
  /\ pc = "setup"
  /\ pc' = "loop"
  /\ UNCHANGED <<walker, done, item, stale, asked, visited, rest>>

(* while (!walk.done()) *)
LeaveLoop ==
  /\ pc = "loop" /\ done
  /\ pc' = "ended"
  /\ UNCHANGED <<walker, done, item, stale, asked, visited, rest>>

(* Mutant: a commit that was returned stays in the walk. *)
NextCommitAgain(c) ==
  /\ pc = "loop" /\ ~done
  /\ c \in Left
  /\ item' = c
  /\ pc' = "visit"
  /\ UNCHANGED <<walker, done, stale, asked, visited, rest>>

(* next() when libgit2 has a commit, ... *)
NextCommit(c) ==
  /\ pc = "loop" /\ ~done
  /\ c \in Left
  /\ returned' = returned \cup {c}
  /\ item' = c
  /\ pc' = "visit"
  /\ UNCHANGED <<pushed, hidden, done, stale, asked, visited, rest>>

(* Mutant: next() does not look for GIT_ITEROVER. *)
NextIterOverIgnored ==
  /\ pc = "loop" /\ ~done
  /\ Left = {}
  /\ Blank
  /\ item' \in Unfilled
  /\ pc' = "visit"
  /\ UNCHANGED <<done, stale, asked, visited, rest>>

(* ... when the walk is over: libgit2 blanks its walker, ... *)
NextIterOver ==
  /\ pc = "loop" /\ ~done
  /\ Left = {}
  /\ Blank
  /\ done' = TRUE
  /\ item' \in Unfilled
  /\ pc' = "visit"
  /\ UNCHANGED <<stale, asked, visited, rest>>

(* ... and when libgit2 fails: next() ignores every code but GIT_ITEROVER.
   A lasting error makes every later call fail as well. *)
NextError ==
  /\ pc = "loop" /\ ~done
  /\ failed' = TRUE
  /\ item' \in Unfilled
  /\ pc' = "visit"
  /\ UNCHANGED <<walker, done, stale, asked, visited, walks>>

(* The loop body, for a client that looks at done() before it uses the id. *)
Visit ==
  /\ pc = "visit"
  /\ visited' = IF done THEN visited ELSE visited \cup {item}
  /\ pc' = "loop"
  /\ UNCHANGED <<walker, done, item, stale, asked, rest>>

(* The body leaves the loop early. *)
Break ==
  /\ pc = "visit"
  /\ pc' = "broken"
  /\ UNCHANGED <<walker, done, item, stale, asked, visited, rest>>

NewWalk ==
  /\ pc \in {"ended", "broken"}
  /\ walks < MaxWalks
  /\ walks' = walks + 1
  /\ failed' = FALSE
  /\ visited' = {}
  /\ asked' = {}
  /\ pc' = "setup"
  /\ UNCHANGED item

(* Mutant: reset() keeps done_. *)
ResetKeepsDone ==
  /\ "reset" \in Reuse
  /\ NewWalk
  /\ stale' = FALSE
  /\ Blank
  /\ UNCHANGED done

(* reset(): done_ is cleared before libgit2 is called. *)
Reset ==
  /\ "reset" \in Reuse
  /\ NewWalk
  /\ done' = FALSE /\ stale' = FALSE
  /\ Blank

(* ... so that a failing reset leaves a walker that is not blank and not done. *)
ResetThrows ==
  /\ "reset" \in Reuse
  /\ pc \in {"ended", "broken"}
  /\ done' = FALSE
  /\ pc' = "finished"
  /\ UNCHANGED <<walker, item, stale, asked, visited, rest>>

(* Push again after the walk: revwalk.hpp:61 promises a walker that is reset
   when the walk is over. *)
PushAgain ==
  /\ "push" \in Reuse
  /\ pc = "ended"
  /\ NewWalk
  /\ stale' = done
  /\ UNCHANGED <<walker, done>>

(* walk = repo.create_revwalk(): the move assignment takes the new walker
   and leaves done_ as it was. *)
AssignNew ==
  /\ "assign" \in Reuse
  /\ NewWalk
  /\ stale' = done
  /\ Blank
  /\ UNCHANGED done

Finish ==
  /\ pc \in {"ended", "broken"}
  /\ pc' = "finished"
  /\ UNCHANGED <<walker, done, item, stale, asked, visited, rest>>

Terminated == pc = "finished" /\ UNCHANGED vars

Walk == LeaveLoop \/ (\E c \in Commit : NextCommit(c)) \/ NextIterOver \/ NextError \/ Visit

Next ==
  \/ \E c \in Commit : Push(c) \/ Hide(c)
  \/ SetupThrows \/ StartLoop \/ Walk \/ Break
  \/ Reset \/ ResetThrows \/ PushAgain \/ AssignNew
  \/ Finish \/ Terminated

(* The loop itself keeps running; what the client does outside it, and
   whether it breaks off, is up to the client. *)
Spec == Init /\ [][Next]_vars /\ WF_vars(Walk)

-----------------------------------------------------------------------------

TypeOK ==
  /\ pushed \subseteq Commit /\ hidden \subseteq Commit /\ returned \subseteq Commit
  /\ done \in BOOLEAN /\ stale \in BOOLEAN
  /\ pc \in {"setup", "loop", "visit", "ended", "broken", "finished"}
  /\ item \in Commit \cup {NoCommit}
  /\ asked \subseteq Commit /\ visited \subseteq Unfilled
  /\ failed \in BOOLEAN /\ walks \in Nat

(* A loop that runs to its end without an error has been given exactly the
   commits that were asked for, in whatever order, whatever an earlier walk
   left behind - unless it left done_ set. *)
CompleteWalk == pc = "ended" /\ ~stale /\ ~failed => visited = asked

(* done() is true only when there are no more commits left to walk
   (revwalk.hpp:36), except in a walk begun with done_ set: reset() and a walk
   that was broken off never leave it so. *)
DoneExact == done /\ ~stale => Left = {}

(* No commit is returned twice in one walk, until the first error. *)
NoRepeat ==
  [][pc = "loop" /\ pc' = "visit" /\ ~done' /\ ~failed' => item' \notin visited]_vars

(* The walk as its loop sees it: an enumeration of what was asked for, faulty
   from a failure of git_revwalk_next on, or if it was begun with done_ set.
   An oid that comes with done_ set is not an element. *)
InLoop == pc \in {"loop", "visit", "ended", "broken"}
Holding == pc = "visit" /\ ~done
Given == visited \cup (IF pc \in {"visit", "broken"} /\ ~done THEN {item} ELSE {})

E == INSTANCE Enumeration WITH
       want <- IF InLoop THEN asked ELSE {},
       given <- IF InLoop THEN Given ELSE {},
       faulty <- InLoop /\ (stale \/ failed),
       state <- IF Holding THEN "holding"
                ELSE IF pc \in {"loop", "visit"} THEN "asking"
                ELSE IF pc = "ended" THEN "over"
                ELSE IF pc = "broken" THEN "left" ELSE "idle"

(* However a walker was used before, every walk gives its loop the commits
   asked for, one by one, none twice and no other, and is over when it has
   given all of them. *)
EnumerationSpec == E!ESpec

(* Failures of git_revwalk_next come to an end. *)
ErrorsStop == <>[][~NextError]_vars

(* The client's loop ends, by itself or because its body leaves it, if
   failures do: next() drops their codes and done() is never told, so that an
   error that stays keeps the loop going for ever. *)
LoopEnds == ErrorsStop => (pc = "loop" ~> pc \in {"ended", "broken"})
=============================================================================
