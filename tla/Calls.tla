------------------------------- MODULE Calls --------------------------------
(***************************************************************************)
(* How a function of cppgit2 calls libgit2 and reports what went wrong.    *)
(*                                                                         *)
(* libgit2 answers with a code and leaves the message of the last error in *)
(* a slot of the thread; git_exception copies the message when it is       *)
(* constructed, which is some time after the call that failed.  A function *)
(* is a program, a sequence of steps:                                      *)
(*                                                                         *)
(*   call, fill, drop  call libgit2: with the code kept, with a raw buffer *)
(*                     or list filled on success, with the code ignored    *)
(*   visit             call libgit2 with a callback to the client, or, in  *)
(*                     a loop, for one element after another to show it;   *)
(*                     the end of the iteration is a code of success       *)
(*   check, bool, null, own, asbool, inverted                              *)
(*                     judge the code: throw_nonzero, throw_nonbool, throw *)
(*                     git_exception() or git_exception("...") for a null  *)
(*                     result, convert the code, throw on success          *)
(*   malloc, free      allocate raw memory; free it, or hand it and what a *)
(*                     fill left to a value whose destructor frees it      *)
(*                                                                         *)
(* Facade has the programs.  A function is entered by the client, which    *)
(* also runs inside a visit; what it is given, and returns, is left out.   *)
(***************************************************************************)
EXTENDS Integers, SequencesExt

CONSTANTS Functions,  \* the functions of cppgit2: <<class, name, program>>
          MayHide,    \* those known to hide a failure, and those known to
          MayLose,    \*   lose memory: <<class, name>>
          NULL,
          MaxDepth    \* bound: functions called from visitors

Programs == {f[3] : f \in Functions}

Calling == {"call", "fill", "drop", "visit"}
Judging == {"check", "bool", "null", "own", "asbool", "inverted"}

(* A code is judged at once: no other call of libgit2 comes between. *)
Prompt(p) ==
  \A i \in 1..Len(p) : p[i] \in Judging => i > 1 /\ p[i - 1] \in Calling \ {"drop"}

ASSUME CallsAssumption ==
  /\ Programs \subseteq Seq(Calling \cup Judging \cup {"malloc", "free"})
  /\ \A p \in Programs : Prompt(p)
  /\ MaxDepth \in Nat
  /\ NULL \notin [program : Programs, leaks : BOOLEAN, unseen : BOOLEAN]

VARIABLES stack,   \* the functions that are running, the innermost last
          slot,    \* libgit2: the last error of the thread
          raised,  \* the exception on its way up, or NULL
          held,    \* the last exception the client caught, or NULL
          left     \* how the last step left a function, or NULL

vars == <<stack, slot, raised, held, left>>

(* A message is where it was set: <<depth, step>> of a call that is still  *)
(* on the stack, or one of these.                                          *)
None == <<0, 0>>
Old  == <<0, 1>>
Own  == <<0, 2>>

Outcome == {"ok", "yes", "error", "silent"}

Failed(outcome) == outcome \in {"error", "silent"}

Top == Last(stack)

Here == Top.program[Top.pc]

ClientRuns == raised = NULL /\ (stack # <<>> => Top.at = "visitor")

At(steps) == /\ raised = NULL /\ stack # <<>> /\ Top.at = "code"
             /\ Top.pc <= Len(Top.program) /\ Here \in steps

ReplaceTop(frame) == stack' = Append(Front(stack), frame)

(* What a call may answer; a boolean function also answers 1. *)
Answers ==
  IF Top.pc < Len(Top.program) /\ Top.program[Top.pc + 1] \in {"bool", "asbool"}
    THEN Outcome ELSE Outcome \ {"yes"}

(* The slot after a call: a failing call sets it, or leaves it; a call     *)
(* that succeeds may have met an error inside, and cleared it or not.      *)
SlotAfter(outcome) ==
  CASE outcome = "error"  -> {<<Len(stack), Top.pc>>}
    [] outcome = "silent" -> {slot}
    [] OTHER              -> {slot, Old, None}

-----------------------------------------------------------------------------

Init ==
  /\ stack = <<>>
  /\ slot = None
  /\ raised = NULL /\ held = NULL /\ left = NULL

(* Mutant: a function that runs beside the one that called libgit2. *)
EnterAnywhere(p) ==
  /\ raised = NULL /\ Len(stack) < MaxDepth
  /\ stack' = Append(stack, [program |-> p, pc |-> 1, at |-> "code", outcome |-> "ok",
                             by |-> 0, raw |-> FALSE, hidden |-> FALSE])
  /\ left' = NULL
  /\ UNCHANGED <<slot, raised, held>>

(* The client, or a visitor, calls a function. *)
Enter(p) ==
  /\ ClientRuns /\ Len(stack) < MaxDepth
  /\ stack' = Append(stack, [program |-> p, pc |-> 1, at |-> "code", outcome |-> "ok",
                             by |-> 0, raw |-> FALSE, hidden |-> FALSE])
  /\ left' = NULL
  /\ UNCHANGED <<slot, raised, held>>

(* auto ret = git_...(...); a code not judged before the next is lost. *)
Answer(outcome) ==
  /\ ReplaceTop([Top EXCEPT !.at = "code", !.pc = @ + 1, !.outcome = outcome, !.by = Top.pc,
                            !.hidden = @ \/ Failed(Top.outcome),
                            !.raw = @ \/ (Here = "fill" /\ ~Failed(outcome))])
  /\ slot' \in SlotAfter(outcome)
  /\ left' = NULL
  /\ UNCHANGED <<raised, held>>

Call == At({"call", "fill"}) /\ \E outcome \in Answers : Answer(outcome)

(* git_...(...);  whatever it answers. *)
Drop ==
  /\ At({"drop"})
  /\ \E outcome \in Answers :
       /\ ReplaceTop([Top EXCEPT !.pc = @ + 1, !.hidden = @ \/ Failed(outcome)])
       /\ slot' \in SlotAfter(outcome)
  /\ left' = NULL
  /\ UNCHANGED <<raised, held>>

(* git_*_foreach with a callback. *)
VisitBegins ==
  /\ At({"visit"})
  /\ ReplaceTop([Top EXCEPT !.at = "libgit2"])
  /\ left' = NULL
  /\ UNCHANGED <<slot, raised, held>>

InLibgit2 == raised = NULL /\ stack # <<>> /\ Top.at = "libgit2"

(* wrapper->fn(...) *)
VisitorCalled ==
  /\ InLibgit2
  /\ ReplaceTop([Top EXCEPT !.at = "visitor"])
  /\ left' = NULL
  /\ UNCHANGED <<slot, raised, held>>

VisitorReturns ==
  /\ ClientRuns /\ stack # <<>>
  /\ ReplaceTop([Top EXCEPT !.at = "libgit2"])
  /\ left' = NULL
  /\ UNCHANGED <<slot, raised, held>>

VisitEnds == InLibgit2 /\ \E outcome \in Answers : Answer(outcome)

(* malloc *)
Allocate ==
  /\ At({"malloc"})
  /\ ReplaceTop([Top EXCEPT !.pc = @ + 1, !.raw = TRUE])
  /\ left' = NULL
  /\ UNCHANGED <<slot, raised, held>>

(* Mutant: an owner without a destructor. *)
FreeNothing ==
  /\ At({"free"})
  /\ ReplaceTop([Top EXCEPT !.pc = @ + 1])
  /\ left' = NULL
  /\ UNCHANGED <<slot, raised, held>>

(* free, or ~data_buffer *)
Free ==
  /\ At({"free"})
  /\ ReplaceTop([Top EXCEPT !.pc = @ + 1, !.raw = FALSE])
  /\ left' = NULL
  /\ UNCHANGED <<slot, raised, held>>

-----------------------------------------------------------------------------

(* Mutant: throw_nonzero asks for the message, not for the code. *)
ThrowsIfSet(step, outcome) ==
  CASE step = "check"                   -> Failed(outcome) /\ slot # None
    [] step \in {"bool", "null", "own"} -> Failed(outcome)
    [] step = "inverted"                -> ~Failed(outcome)
    [] step = "asbool"                  -> FALSE

(* Does judging this answer throw? *)
Throws(step, outcome) ==
  CASE step \in {"check", "bool", "null", "own"} -> Failed(outcome)
    [] step = "inverted"                         -> ~Failed(outcome)
    [] step = "asbool"                           -> FALSE

(* git_exception(ret), git_exception(): the message is copied now. *)
Exception(step) ==
  [judge   |-> step,
   outcome |-> Top.outcome,
   cause   |-> IF Top.outcome = "error" THEN <<Len(stack), Top.by>> ELSE None,
   message |-> IF step = "own" THEN Own ELSE slot]

(* A function is left: what it holds and no value owns is lost. *)
Leave(unseen) ==
  /\ stack' = Front(stack)
  /\ left' = [program |-> Top.program, leaks |-> Top.raw, unseen |-> unseen]
  /\ slot' = IF slot[1] = Len(stack) THEN Old ELSE slot

(* throw_nonzero(ret) and its kind, when nothing is wrong. *)
Judge ==
  /\ At(Judging) /\ ~Throws(Here, Top.outcome)
  /\ ReplaceTop([Top EXCEPT !.pc = @ + 1, !.outcome = "ok", !.by = 0,
                            !.hidden = @ \/ Failed(Top.outcome)])
  /\ left' = NULL
  /\ UNCHANGED <<slot, raised, held>>

Throw ==
  /\ At(Judging) /\ Throws(Here, Top.outcome)
  /\ raised' = Exception(Here)
  /\ Leave(FALSE)
  /\ UNCHANGED held

Return ==
  /\ raised = NULL /\ stack # <<>> /\ Top.at = "code"
  /\ Top.pc > Len(Top.program)
  /\ Leave(Top.hidden \/ Failed(Top.outcome))
  /\ UNCHANGED <<raised, held>>

(* git_exception::clear(), by the client. *)
Clear ==
  /\ ClientRuns
  /\ slot' = None
  /\ left' = NULL
  /\ UNCHANGED <<stack, raised, held>>

(* A visitor throws something of its own. *)
VisitorThrows ==
  /\ ClientRuns /\ stack # <<>>
  /\ raised' = [judge |-> "client", outcome |-> "ok", cause |-> None, message |-> Own]
  /\ left' = NULL
  /\ UNCHANGED <<stack, slot, held>>

(* catch (git_exception &e): in a visitor, or in the program. *)
Catch ==
  /\ raised # NULL
  /\ held' = raised /\ raised' = NULL
  /\ left' = NULL
  /\ UNCHANGED <<stack, slot>>

(* An exception leaves the function whose visitor did not catch it. *)
Unwind ==
  /\ raised # NULL /\ stack # <<>>
  /\ Leave(FALSE)
  /\ UNCHANGED <<raised, held>>

Next ==
  \/ \E p \in Programs : Enter(p)
  \/ Call \/ Drop \/ VisitBegins \/ VisitorCalled \/ VisitorReturns \/ VisitEnds
  \/ Allocate \/ Free
  \/ Judge \/ Throw \/ Return
  \/ Clear \/ VisitorThrows \/ Catch \/ Unwind

Spec == Init /\ [][Next]_vars

-----------------------------------------------------------------------------

(* Mutant: what() asks libgit2 for the message. *)
WhatNow(e) == slot

(* git_exception::what() *)
What(e) == e.message

Message == {None, Old, Own} \cup ((1..MaxDepth) \X Nat)

ExceptionType == [judge : Judging \cup {"client"}, outcome : Outcome, cause : Message, message : Message]

Frame == [program : Programs, pc : Nat, at : {"code", "libgit2", "visitor"},
          outcome : Outcome, by : Nat, raw : BOOLEAN, hidden : BOOLEAN]

(* A frame is at a step of its program or has done the last one; only a    *)
(* visit leaves the function's own code.                                   *)
Placed(f) ==
  /\ f.pc \in 1 .. Len(f.program) + 1
  /\ f.at # "code" => f.pc <= Len(f.program) /\ f.program[f.pc] = "visit"

(* The variables have their types, all functions but the innermost are in  *)
(* a visit, and an error in the slot was set by a call of a function that  *)
(* is still running or is known to be old.                                 *)
TypeOK ==
  /\ stack \in Seq(Frame) /\ Len(stack) <= MaxDepth
  /\ \A d \in 1..Len(stack) :
       Placed(stack[d]) /\ (d < Len(stack) \/ raised # NULL => stack[d].at = "visitor")
  /\ slot \in Message /\ slot[1] <= Len(stack)
  /\ raised \in ExceptionType \cup {NULL}
  /\ held \in ExceptionType \cup {NULL}
  /\ left \in [program : Programs, leaks : BOOLEAN, unseen : BOOLEAN] \cup {NULL}

(* git_exception: the exception a client receives, and keeps while it      *)
(* calls other functions, is about a call that failed, and when that call  *)
(* said why, what() says it: neither an earlier error nor what happened    *)
(* between the call and its check, in a visitor or after the catch gets in *)
(* the way.  (value_as_string throws when its call succeeds; a message of  *)
(* the function's own says what the function chose.)                       *)
ExceptionTrue ==
  \A e \in {raised, held} \ {NULL} :
    /\ e.judge \in {"check", "bool", "null", "own"} => Failed(e.outcome)
    /\ e.judge \in {"check", "bool", "null"} /\ e.outcome = "error" => What(e) = e.cause

(* The functions that have this program. *)
Named(program) == {<<f[1], f[2]>> : f \in {g \in Functions : g[3] = program}}

(* A function that returns normally has met no failure of libgit2, except  *)
(* those known to drop or convert a code (is_shallow, revwalk::next, the   *)
(* loops over iterators, ...), however deep visitors call it.              *)
FailureSeen == left # NULL /\ left.unseen => Named(left.program) \subseteq MayHide

(* However a function is left, by its end, by an exception of its own or a *)
(* visitor's, the buffers, arrays and iterators libgit2 or malloc gave it  *)
(* are freed or have an owner, except in the functions known to lose them  *)
(* (find_merge_bases, whatever makes a signature, the loops, ...).         *)
RawFreed == left # NULL /\ left.leaks => Named(left.program) \subseteq MayLose

=============================================================================
