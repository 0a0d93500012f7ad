------------------------------ MODULE Visitors ------------------------------
(***************************************************************************)
(* The for_each_* traversals and the callbacks of cppgit2.                 *)
(*                                                                         *)
(* A traversal takes a visitor (a std::function).  Some run a libgit2      *)
(* iterator in a loop of their own ("iterator"); the others give libgit2 a *)
(* captureless lambda and, as its payload, the address of a                *)
(* visitor_wrapper in their own stack frame ("callback").  A visitor may   *)
(* start another traversal or throw.  Only tree::walk ("walk") hands its   *)
(* visitor's code on to libgit2, where a negative one stops the traversal  *)
(* and a positive one skips what is below the entry; every other lambda    *)
(* returns 0.  pack_builder::set_progress_callback and                     *)
(* revwalk::add_hide_callback give libgit2 such an address to keep.        *)
(*                                                                         *)
(* An address is a position on the stack: the wrapper that was there is    *)
(* gone when its frame is, and a later frame may lie at the same place.    *)
(***************************************************************************)
EXTENDS Integers, SequencesExt

CONSTANTS Item,      \* what a traversal enumerates
          Fn,        \* the client's std::functions
          Junk,      \* what is called through the address of a dead wrapper
          MaxDepth,  \* bound: traversals nested in each other
          MaxOpen    \* bound: traversals begun and not ended

ASSUME VisitorsAssumption ==
  /\ Junk \notin Fn
  /\ MaxDepth \in Nat /\ MaxOpen \in Nat

VARIABLES stack,       \* the traversals that are running, the innermost last
          open,        \* libgit2: traversals begun and not yet ended
          raised,      \* is an exception on its way up?
          registered,  \* libgit2: the payload of the registered callback, 0 if none
          meant,       \* the function the client registered
          call,        \* the last call: where from, which function, which meant
          lost         \* the traversals exceptions have left

vars == <<stack, open, raised, registered, meant, call, lost>>

Kind == {"iterator", "callback", "walk"}

(* left: what libgit2 has yet to show; skipped: what the visitor's code has
   taken from it. *)
Frame == [kind : Kind, fn : Fn, payload : 1..MaxDepth, at : {"libgit2", "visitor"},
          left : SUBSET Item, seen : SUBSET Item, skipped : SUBSET Item]

Top == Last(stack)

(* A visitor, or the client's program, is running. *)
ClientRuns == ~raised /\ (stack # <<>> => Top.at = "visitor")

Libgit2Runs == ~raised /\ stack # <<>> /\ Top.at = "libgit2"

(* Mutant: a wrapper shared by all traversals, the outermost one's. *)
SharedPayload(d) == 1

(* The payload of the traversal in frame d: the address of its wrapper. *)
PayloadOf(d) == d

(* reinterpret_cast<visitor_wrapper *>(payload)->fn *)
WrappedAt(d) ==
  IF d \in 1..Len(stack) /\ stack[d].kind # "iterator" THEN stack[d].fn ELSE Junk

ReplaceTop(frame) == stack' = Append(Front(stack), frame)

Pop == stack' = Front(stack)

-----------------------------------------------------------------------------

Init ==
  /\ stack = <<>>
  /\ open = 0
  /\ raised = FALSE
  /\ registered = 0
  /\ meant = Junk
  /\ call = [of |-> "traversal", meant |-> Junk, got |-> Junk]
  /\ lost = 0

(* for_each_*(visitor), called by the program or by a visitor. *)
Begin(kind, f) ==
  /\ ClientRuns
  /\ Len(stack) < MaxDepth /\ open < MaxOpen
  /\ stack' = Append(stack, [kind |-> kind, fn |-> f, at |-> "libgit2",
                             payload |-> PayloadOf(Len(stack) + 1),
                             left |-> Item, seen |-> {}, skipped |-> {}])
  /\ open' = open + 1
  /\ UNCHANGED <<raised, registered, meant, call, lost>>

(* The loop body calls the visitor itself; a callback finds it in its payload. *)
Visit(i) ==
  /\ Libgit2Runs
  /\ i \in Top.left
  /\ ReplaceTop([Top EXCEPT !.at = "visitor", !.left = @ \ {i}, !.seen = @ \cup {i}])
  /\ call' = [of |-> "traversal", meant |-> Top.fn,
              got |-> IF Top.kind = "iterator" THEN Top.fn ELSE WrappedAt(Top.payload)]
  /\ UNCHANGED <<open, raised, registered, meant, lost>>

VisitorReturns ==
  /\ ClientRuns /\ stack # <<>>
  /\ ReplaceTop([Top EXCEPT !.at = "libgit2"])
  /\ UNCHANGED <<open, raised, registered, meant, call, lost>>

(* Mutant: the iterator is not freed after the loop. *)
EndUnfreed ==
  /\ Libgit2Runs
  /\ Top.left = {}
  /\ Pop
  /\ UNCHANGED <<open, raised, registered, meant, call, lost>>

(* Mutant: the iterator is freed twice. *)
EndFreesTwice ==
  /\ Libgit2Runs
  /\ Top.left = {}
  /\ Pop
  /\ open' = open - 2
  /\ UNCHANGED <<raised, registered, meant, call, lost>>

(* GIT_ITEROVER, or libgit2's foreach returns 0. *)
End ==
  /\ Libgit2Runs
  /\ Top.left = {}
  /\ Pop
  /\ open' = open - 1
  /\ UNCHANGED <<raised, registered, meant, call, lost>>

(* An error ends the loop as GIT_ITEROVER does: the code it leaves in ret is
   not looked at. *)
IteratorFails ==
  /\ Libgit2Runs /\ Top.kind = "iterator"
  /\ Pop
  /\ open' = open - 1
  /\ UNCHANGED <<raised, registered, meant, call, lost>>

(* Mutant: a foreach without throw_nonzero. *)
CallbackFailsUnseen ==
  /\ Libgit2Runs /\ Top.kind # "iterator"
  /\ Pop
  /\ open' = open - 1
  /\ UNCHANGED <<raised, registered, meant, call, lost>>

(* throw_nonzero(git_*_foreach(...)) *)
CallbackFails ==
  /\ Libgit2Runs /\ Top.kind # "iterator"
  /\ Pop
  /\ open' = open - 1
  /\ raised' = TRUE
  /\ UNCHANGED <<registered, meant, call, lost>>

(* tree::walk in preorder, a positive code: git_tree_walk goes on without what
   is below the entry, and returns 0 in the end. *)
VisitorSkips(below) ==
  /\ ClientRuns /\ stack # <<>> /\ Top.kind = "walk"
  /\ below \subseteq Top.left
  /\ ReplaceTop([Top EXCEPT !.at = "libgit2", !.left = @ \ below,
                            !.skipped = @ \cup below])
  /\ UNCHANGED <<open, raised, registered, meant, call, lost>>

(* A negative code makes git_tree_walk clean up and return it. *)
VisitorStops ==
  /\ ClientRuns /\ stack # <<>> /\ Top.kind = "walk"
  /\ Pop
  /\ open' = open - 1
  /\ raised' = TRUE
  /\ UNCHANGED <<registered, meant, call, lost>>

VisitorThrows ==
  /\ ClientRuns /\ stack # <<>>
  /\ raised' = TRUE
  /\ UNCHANGED <<stack, open, registered, meant, call, lost>>

(* The exception leaves the traversal: nothing frees the iterator of the loop,
   and no frame of libgit2 cleans up. *)
Unwind ==
  /\ raised /\ stack # <<>>
  /\ Pop
  /\ lost' = lost + 1
  /\ UNCHANGED <<open, raised, registered, meant, call>>

Catch ==
  /\ raised
  /\ raised' = FALSE
  /\ UNCHANGED <<stack, open, registered, meant, call, lost>>

(* set_progress_callback, add_hide_callback: the wrapper is a local variable
   of the function that registers it and is gone when that returns. *)
Register(f) ==
  /\ ClientRuns
  /\ registered' = Len(stack) + 1
  /\ meant' = f
  /\ UNCHANGED <<stack, open, raised, call, lost>>

(* libgit2 reports progress, or asks whether to hide a commit. *)
CallRegistered ==
  /\ Libgit2Runs /\ Top.kind # "iterator"
  /\ registered # 0
  /\ call' = [of |-> "registration", meant |-> meant, got |-> WrappedAt(registered)]
  /\ UNCHANGED <<stack, open, raised, registered, meant, lost>>

Next ==
  \/ \E kind \in Kind, f \in Fn : Begin(kind, f)
  \/ \E i \in Item : Visit(i)
  \/ \E f \in Fn : Register(f)
  \/ \E below \in SUBSET Item : VisitorSkips(below)
  \/ VisitorReturns \/ End \/ IteratorFails \/ CallbackFails \/ CallRegistered
  \/ VisitorStops \/ VisitorThrows \/ Unwind \/ Catch

Spec == Init /\ [][Next]_vars

-----------------------------------------------------------------------------

TypeOK ==
  /\ stack \in Seq(Frame) /\ Len(stack) <= MaxDepth
  /\ open \in Nat
  /\ raised \in BOOLEAN
  /\ registered \in 0..MaxDepth + 1
  /\ meant \in Fn \cup {Junk}
  /\ call \in [of : {"traversal", "registration"}, meant : Fn \cup {Junk},
               got : Fn \cup {Junk}]
  /\ lost \in Nat

(* However traversals are nested, stopped, failed and thrown through, libgit2
   calls the function that was given for the traversal it is in: a payload is
   never the address of another frame's wrapper, or of none. *)
RightFunction == call.of = "traversal" => call.got = call.meant

(* A callback that was registered is called as it was registered
   (revwalk.hpp:28-34, pack_builder.hpp:66-68). *)
RegisteredFunction == call.of = "registration" => call.got = call.meant

(* A callback traversal that is left without an exception has shown its visitor
   everything - in tree::walk, everything its visitor did not skip - also when
   libgit2 failed on the way or a visitor nested, stopped or threw
   (README.md:740, tree.hpp:191-193). *)
CallbackComplete ==
  [][Len(stack') < Len(stack) /\ ~raised' /\ Top.kind # "iterator" =>
       /\ Item \ Top.seen \subseteq Top.skipped
       /\ Top.kind = "callback" => Top.seen = Item]_vars

(* What libgit2 opened for a traversal is closed exactly once when the
   traversal is left by its end, by an error or by a visitor that stops it: the
   only ones that stay open are those an exception of a visitor has left. *)
Closed == open = Len(stack) + lost
=============================================================================
