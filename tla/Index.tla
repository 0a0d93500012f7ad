------------------------------- MODULE Index -------------------------------
(***************************************************************************)
(* The index class.  libgit2's index holds entries, each for a path at a   *)
(* stage: 0 for a staged file, 1 to 3 for the sides of a conflict          *)
(* (ancestor, ours, theirs).  It is read from a file and written to it as  *)
(* a whole.  The wrapper adds, to one call per operation:                  *)
(*                                                                         *)
(*  - for_each and for_each_conflict, whose visitors may change the index  *)
(*    they are called from.  The iterator of the first works on a          *)
(*    snapshot, that of the second on the index itself, and any code of    *)
(*    libgit2's but 0 ends either loop as its end does;                    *)
(*  - the *_entries_that_match functions, which ask a function about every *)
(*    entry: 0 to go on, more to skip it, less to stop.                    *)
(*                                                                         *)
(* Paths are numbers, in the order of the index.  A pathspec is left out:  *)
(* a non-empty one is freed before libgit2 reads it.                       *)
(***************************************************************************)
EXTENDS Integers, FiniteSets

CONSTANTS Paths,  \* the number of paths
          NULL    \* no traversal

ASSUME IndexAssumption == Paths \in Nat

Path == 1..Paths

(* Mutant: the stages of a conflict counted from the wrong end. *)
SidesShifted == 2..4

(* stage::ancestor, ours and theirs; stage::normal is 0. *)
Sides == 1..3

Stage == {0} \cup Sides

VARIABLES entries,  \* the entries <<path, stage>> in memory
          work,     \* the paths that have a file in the working directory
          walk      \* the traversal or the bulk operation being done, or NULL

vars == <<entries, work, walk>>

-----------------------------------------------------------------------------

Of(p, es) == {e \in es : e[1] = p}

Conflict(p) == {p} \X Sides

Conflicted(es) == {p \in Path : \E s \in Sides : <<p, s>> \in es}

(* Every conflict has its three sides. *)
AllSides(es) == \A p \in Conflicted(es) : Conflict(p) \subseteq es

(* The entries become es.  The change may be a visitor's - bound: one at each
   visit; the functions of bulk operations leave the index alone.  What
   for_each_conflict has visited is not recorded over a change. *)
Change(es) ==
  /\ entries' = es
  /\ IF walk = NULL THEN UNCHANGED walk
     ELSE /\ walk.visiting
          /\ walk' = IF walk.kind = "each" THEN [walk EXCEPT !.visiting = FALSE]
                     ELSE [walk EXCEPT !.visiting = FALSE, !.changed = TRUE,
                                       !.start = {}, !.seen = {}]

-----------------------------------------------------------------------------

Init ==
  /\ entries = {}
  /\ work \in SUBSET Path
  /\ walk = NULL

(* add_entry_by_path and add_entry_from_buffer: whatever conflict there was is
   resolved.  The former needs a file, the latter does not. *)
StagePath(p) == Change((entries \ Of(p, entries)) \cup {<<p, 0>>})

AddEntryByPath(p) ==
  /\ p \in work
  /\ StagePath(p)
  /\ UNCHANGED work

AddEntryFromBuffer(p) == StagePath(p) /\ UNCHANGED work

(* add_entry takes the stage from the entry's flags, which come from another
   entry, and replaces what is at this stage only. *)
AddEntry(p, s) ==
  /\ Change(entries \cup {<<p, s>>})
  /\ UNCHANGED work

(* Mutant: add_conflict_entry leaves the staged entry. *)
AddConflictBeside(p) ==
  /\ Change(entries \cup Conflict(p))
  /\ UNCHANGED work

(* add_conflict_entry: all three sides, instead of a staged entry. *)
AddConflictEntry(p) ==
  /\ Change((entries \ {<<p, 0>>}) \cup Conflict(p))
  /\ UNCHANGED work

RemoveConflictEntries(p) ==
  /\ Change(entries \ Conflict(p))
  /\ UNCHANGED work

RemoveAllConflicts ==
  /\ Change({e \in entries : e[2] = 0})
  /\ UNCHANGED work

(* remove_entry: one stage of a path. *)
RemoveEntry(p, s) ==
  /\ <<p, s>> \in entries
  /\ Change(entries \ {<<p, s>>})
  /\ UNCHANGED work

RemoveEntryByPath(p) ==
  /\ Change(entries \ Of(p, entries))
  /\ UNCHANGED work

(* remove_entries_in_directory: one stage of the paths d. *)
RemoveEntriesInDirectory(d, s) ==
  /\ Change(entries \ (d \X {s}))
  /\ UNCHANGED work

(* clear, and read_tree for a tree with the paths t. *)
ReadTree(t) ==
  /\ Change(t \X {0})
  /\ UNCHANGED work

(* read() of a file in which another program has staged the paths t and left
   conflicts in the paths c: what was changed in memory is gone.  write() and
   write_tree() leave the entries as they are. *)
Read(t, c) ==
  /\ Change((t \X {0}) \cup ((c \ t) \X Sides))
  /\ UNCHANGED work

(* The user creates or deletes a file. *)
Outside(p) ==
  /\ walk = NULL
  /\ work' \in {work \cup {p}, work \ {p}}
  /\ UNCHANGED <<entries, walk>>

-----------------------------------------------------------------------------

Begin(kind, start, todo) ==
  /\ walk = NULL
  /\ walk' = [kind |-> kind, start |-> start, todo |-> todo, seen |-> {},
              taken |-> {}, cursor |-> 0, visiting |-> FALSE,
              changed |-> FALSE, again |-> FALSE,
              end |-> "no"]
  /\ UNCHANGED <<entries, work>>

Running(kind) == walk # NULL /\ walk.kind = kind /\ walk.end = "no"

Ends(how) ==
  /\ walk' = [walk EXCEPT !.end = how, !.visiting = FALSE]
  /\ UNCHANGED <<entries, work>>

(* The traversal returns to its caller, normally or with an exception. *)
Return ==
  /\ walk # NULL /\ walk.end \notin {"no", "dead"}
  /\ walk' = NULL
  /\ UNCHANGED <<entries, work>>

(* The order of the entries. *)
Before(e, f) == e[1] < f[1] \/ (e[1] = f[1] /\ e[2] < f[2])

(* for_each: git_index_iterator_new takes a snapshot of the entries. *)
ForEach == Begin("each", {}, entries)

EachNext ==
  /\ Running("each")
  /\ \E e \in walk.todo :
       /\ \A f \in walk.todo : f = e \/ Before(e, f)
       /\ walk' = [walk EXCEPT !.todo = @ \ {e}, !.visiting = TRUE]
  /\ UNCHANGED <<entries, work>>

(* Mutant: the loop does not look for GIT_ITEROVER. *)
EachOverMissed ==
  /\ Running("each") /\ walk.todo = {}
  /\ walk' = [walk EXCEPT !.visiting = TRUE]
  /\ UNCHANGED <<entries, work>>

EachOver == Running("each") /\ walk.todo = {} /\ Ends("normal")

(* An error of git_index_iterator_next: the caller cannot tell. *)
EachFails == Running("each") /\ Ends("cut")

ForEachConflict == Begin("conflicts", entries, {})

(* The entries of the index, numbered from 0. *)
Position(e) == Cardinality({f \in entries : Before(f, e)})

(* The next side of a conflict at the cursor or after it. *)
Ahead == {e \in entries : e[2] \in Sides /\ Position(e) >= walk.cursor}

(* git_index_conflict_next passes the sides of the conflict it returns. *)
Past(e) == Position(e) + Cardinality({f \in Of(e[1], entries) : f[2] >= e[2]})

(* The first side ahead; a visitor that has changed the index may have put the
   cursor inside its conflict. *)
FirstAhead(e) == e \in Ahead /\ \A f \in Ahead : f = e \/ Before(e, f)

ConflictNext ==
  /\ Running("conflicts")
  /\ \E e \in Ahead :
       /\ FirstAhead(e) /\ Conflict(e[1]) \subseteq Ahead
       /\ walk' = [walk EXCEPT !.seen = @ \cup {e[1]}, !.cursor = Past(e),
                               !.again = @ \/ e[1] \in walk.seen,
                               !.visiting = TRUE]
  /\ UNCHANGED <<entries, work>>

(* A side that is not there, or that the cursor has passed, is a null pointer,
   which the loop body dereferences: the program has no defined behaviour. *)
ConflictNull ==
  /\ Running("conflicts")
  /\ \E e \in Ahead : FirstAhead(e) /\ ~(Conflict(e[1]) \subseteq Ahead)
  /\ Ends("dead")

Dead == walk # NULL /\ walk.end = "dead" /\ UNCHANGED vars

(* Mutant: an if instead of the while. *)
ConflictOverOnce ==
  /\ Running("conflicts") /\ (Ahead = {} \/ walk.seen # {})
  /\ Ends("normal")

ConflictOver == Running("conflicts") /\ Ahead = {} /\ Ends("normal")

(* An error of git_index_conflict_next, as in EachFails. *)
ConflictFails == Running("conflicts") /\ Ends("cut")

(* A visitor throws. *)
VisitThrows == (Running("each") \/ Running("conflicts")) /\ Ends("threw")

-----------------------------------------------------------------------------

Bulk == {"add", "update", "remove"}

(* What libgit2 asks the function about: the paths git_index_add_all and
   git_index_update_all would change, the entries for git_index_remove_all,
   each side of a conflict for itself. *)
Matched(kind) ==
  CASE kind = "add"    -> {p \in Path : Of(p, entries) # Of(p, work \X {0})} \X {0}
    [] kind = "update" -> {p \in Path : Of(p, entries) # {} /\
                                        Of(p, entries) # Of(p, work \X {0})} \X {0}
    [] kind = "remove" -> entries

(* add_, update_ and remove_entries_that_match. *)
ForMatching(kind) == Begin(kind, entries, Matched(kind))

(* The entries after libgit2 has staged p, or removed it with all its sides. *)
Taken(p) ==
  (entries \ Of(p, entries))
    \cup (IF walk.kind # "remove" THEN Of(p, work \X {0}) ELSE {})

BulkRunning == walk # NULL /\ walk.kind \in Bulk /\ walk.end = "no"

(* The function returns 0 for e: its path is done with. *)
BulkTake(e) ==
  /\ BulkRunning /\ e \in walk.todo
  /\ entries' = Taken(e[1])
  /\ walk' = [walk EXCEPT !.todo = @ \ Of(e[1], @), !.seen = @ \cup {e[1]},
                          !.taken = @ \cup {e[1]}]
  /\ UNCHANGED work

(* Mutant: the lambda returns 0 whatever the function does. *)
SkipTakes(e) ==
  /\ BulkRunning /\ e \in walk.todo
  /\ entries' = Taken(e[1])
  /\ walk' = [walk EXCEPT !.todo = @ \ Of(e[1], @), !.seen = @ \cup {e[1]}]
  /\ UNCHANGED work

(* It returns more than 0. *)
BulkSkip(e) ==
  /\ BulkRunning /\ e \in walk.todo
  /\ walk' = [walk EXCEPT !.todo = @ \ {e}, !.seen = @ \cup {e[1]}]
  /\ UNCHANGED <<entries, work>>

(* It returns less than 0, which throw_nonzero throws; or it throws, as the
   empty function does that is the default argument; or libgit2 fails. *)
BulkThrows == BulkRunning /\ walk.todo # {} /\ Ends("threw")

BulkOver == BulkRunning /\ walk.todo = {} /\ Ends("normal")

-----------------------------------------------------------------------------

Operations ==
  \/ \E p \in Path :
       \/ AddEntryByPath(p) \/ AddEntryFromBuffer(p)
       \/ AddConflictEntry(p) \/ RemoveConflictEntries(p) \/ RemoveEntryByPath(p)
       \/ \E s \in Stage : AddEntry(p, s) \/ RemoveEntry(p, s)
       \/ Outside(p)
  \/ RemoveAllConflicts
  \/ \E t \in SUBSET Path :
       \/ ReadTree(t)
       \/ \E c \in SUBSET Path : Read(t, c)
       \/ \E s \in Stage : RemoveEntriesInDirectory(t, s)

Traversals ==
  \/ EachNext \/ EachOver
  \/ ConflictNext \/ ConflictNull \/ ConflictOver
  \/ \E e \in Path \X Stage : BulkTake(e) \/ BulkSkip(e)
  \/ BulkOver
  \/ Return

Next ==
  \/ Operations \/ Traversals
  \/ ForEach \/ ForEachConflict \/ \E kind \in Bulk : ForMatching(kind)
  \/ EachFails \/ ConflictFails \/ VisitThrows \/ BulkThrows \/ Dead

(* Visitors and functions return, so that a traversal goes on. *)
Spec == Init /\ [][Next]_vars /\ WF_vars(Traversals)

-----------------------------------------------------------------------------

TypeOK ==
  /\ entries \subseteq Path \X (0..3)
  /\ work \subseteq Path
  /\ walk # NULL =>
       /\ walk.kind \in Bulk \cup {"each", "conflicts"}
       /\ walk.end \in {"no", "normal", "cut", "threw", "dead"}
       /\ walk.taken \subseteq walk.seen

Both(p) == <<p, 0>> \in entries /\ p \in Conflicted(entries)

(* Whatever is removed, read, resolved and added from files and buffers, also
   half-way through a bulk operation and from visitors, a path does not come to
   be staged and in conflict at once: only add_entry can make it so. *)
StageRule ==
  [][\A p \in Path : Both(p)' /\ ~Both(p) => \E s \in Stage : AddEntry(p, s)]_vars

(* for_each_conflict visits every conflict once, if its visitor leaves the
   index alone and libgit2 does not fail, and dereferences no null pointer, if
   every conflict has its three sides: a visitor that resolves the conflict it
   is given makes the iterator pass the next, or come to the middle of one. *)
ConflictsVisited ==
  walk # NULL /\ walk.kind = "conflicts" /\ ~walk.changed =>
    /\ ~walk.again
    /\ walk.end = "normal" => walk.seen = Conflicted(walk.start)
    /\ walk.end = "dead" => ~AllSides(walk.start)

(* A bulk operation changes what its function allowed and nothing else, and
   is complete when it returns normally; so after an exception too the caller
   knows, from what its function was asked, what the index is. *)
BulkExact ==
  walk # NULL /\ walk.kind \in Bulk =>
    /\ \A p \in Path :
         Of(p, entries) = IF p \notin walk.taken THEN Of(p, walk.start)
                          ELSE IF walk.kind = "remove" THEN {}
                          ELSE Of(p, work \X {0})
    /\ walk.end = "normal" =>
         \A p \in Path \ walk.seen :
           Of(p, walk.start) \in {{}, Of(p, work \X {0})}

(* A for_each_conflict whose visitor has changed the index. *)
Unsettled == walk.kind = "conflicts" /\ walk.changed

(* A traversal comes to an end, for_each whatever its visitor does to the index;
   that of for_each_conflict, which could add conflicts for ever, leaves it
   alone.  A null pointer is an end as well. *)
WalkEnds == walk # NULL ~> walk = NULL \/ walk.end = "dead" \/ Unsettled
=============================================================================
