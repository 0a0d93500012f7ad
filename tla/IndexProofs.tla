---------------------------- MODULE IndexProofs -----------------------------
(***************************************************************************)
(* Proofs about Index, for any number of paths, and whatever visitors do.  *)
(***************************************************************************)
EXTENDS Index, FiniteSetTheorems, TLAPS

Entry == Path \X (0..3)

(* The record of a traversal. *)
Shape(w) ==
  w = [kind |-> w.kind, start |-> w.start, todo |-> w.todo, seen |-> w.seen,
       taken |-> w.taken, cursor |-> w.cursor, visiting |-> w.visiting,
       changed |-> w.changed, again |-> w.again, end |-> w.end]

(* The inductive invariant, by kind of traversal. *)

UpTo(m) == {f \in entries : f[1] <= m}

(* for_each_conflict: the cursor is behind all entries of the paths up to  *)
(* some m, and the conflicts visited are those of these paths.             *)
Frontier ==
  walk.kind = "conflicts" /\ ~walk.changed =>
    /\ entries = walk.start
    /\ ~walk.again
    /\ walk.end = "no" =>
         \E m \in Nat : /\ walk.cursor = Cardinality(UpTo(m))
                        /\ walk.seen = {p \in Conflicted(entries) : p <= m}
    /\ walk.end = "normal" => walk.seen = Conflicted(walk.start)
    /\ walk.end = "dead" => ~AllSides(walk.start)

(* A bulk operation: every path is still to be asked about, or was, or is  *)
(* in order already; and what was not taken is as it was.                  *)
Exact ==
  walk.kind \in Bulk =>
    /\ ~walk.visiting
    /\ walk.todo \subseteq Entry
    /\ \A p \in Path :
         Of(p, entries) = IF p \notin walk.taken THEN Of(p, walk.start)
                          ELSE IF walk.kind = "remove" THEN {}
                          ELSE Of(p, work \X {0})
    /\ \A p \in Path \ walk.seen :
         (\A e \in walk.todo : e[1] # p) => Of(p, walk.start) \in {{}, Of(p, work \X {0})}
    /\ walk.end = "normal" => walk.todo = {}

(* The other traversals take nothing.                                      *)
Idle == walk.kind \notin Bulk => walk.taken = {}

IInv ==
  /\ TypeOK
  /\ walk # NULL => Shape(walk) /\ Frontier /\ Exact /\ Idle

-----------------------------------------------------------------------------
(* What a step does to the record of the traversal.                        *)

LEMMA ChangedFields ==
  ASSUME Shape(walk), NEW w,
         w = IF walk.kind = "each" THEN [walk EXCEPT !.visiting = FALSE]
             ELSE [walk EXCEPT !.visiting = FALSE, !.changed = TRUE,
                               !.start = {}, !.seen = {}]
  PROVE  /\ Shape(w) /\ ~w.visiting /\ (w.kind # "each" => w.changed)
         /\ w.kind = walk.kind /\ w.todo = walk.todo /\ w.taken = walk.taken
         /\ w.end = walk.end /\ w.cursor = walk.cursor
         /\ w.kind = "each" => w.seen = walk.seen
  BY DEF Shape

LEMMA EndedFields ==
  ASSUME Shape(walk), NEW w, NEW how, w = [walk EXCEPT !.end = how, !.visiting = FALSE]
  PROVE  /\ Shape(w) /\ w.changed = walk.changed /\ ~w.visiting /\ w.end = how
         /\ w.kind = walk.kind /\ w.start = walk.start /\ w.todo = walk.todo /\ w.seen = walk.seen
         /\ w.taken = walk.taken /\ w.again = walk.again /\ w.cursor = walk.cursor
  BY DEF Shape

LEMMA VisitedFields ==
  ASSUME Shape(walk), NEW w, NEW e,
         w = [walk EXCEPT !.todo = @ \ {e}, !.visiting = TRUE]
  PROVE  /\ Shape(w) /\ w.changed = walk.changed /\ w.end = walk.end /\ w.cursor = walk.cursor
         /\ w.kind = walk.kind /\ w.start = walk.start /\ w.todo = walk.todo \ {e}
         /\ w.seen = walk.seen /\ w.taken = walk.taken
  BY DEF Shape

-----------------------------------------------------------------------------
(* The operations, of a client or a visitor.                               *)

LEMMA ChangeKeeps ==
  ASSUME IInv, NEW es \in SUBSET Entry, Change(es), UNCHANGED work
  PROVE  IInv'
  <1>1. entries' = es /\ work' = work
    BY DEF Change
  <1>2. entries' \subseteq Path \X (0..3) /\ work' \subseteq Path
    BY <1>1 DEF Entry, IInv, TypeOK
  <1>3. CASE walk = NULL
    BY <1>2, <1>3 DEF Change, IInv, TypeOK
  <1>4. CASE walk # NULL
    <2>1. Shape(walk) /\ Exact
      BY <1>4 DEF IInv
    <2>2. walk.visiting /\ walk' = IF walk.kind = "each" THEN [walk EXCEPT !.visiting = FALSE]
                                   ELSE [walk EXCEPT !.visiting = FALSE, !.changed = TRUE,
                                                     !.start = {}, !.seen = {}]
      BY <1>4 DEF Change
    <2>3. /\ Shape(walk)' /\ (walk'.kind # "each" => walk'.changed)
          /\ walk'.kind = walk.kind /\ walk'.taken = walk.taken /\ walk'.end = walk.end
          /\ walk'.kind = "each" => walk'.seen = walk.seen
      BY <2>1, <2>2, ChangedFields
    <2>4. walk.kind \notin Bulk /\ (walk.kind # "each" => walk.taken = {})
      BY <1>4, <2>1, <2>2 DEF Exact, IInv, Idle
    <2>5. Frontier' /\ Exact' /\ Idle'
      BY <1>4, <2>1, <2>3, <2>4 DEF Frontier, Exact, Idle, IInv
    <2>6. TypeOK'
      BY <1>2, <1>4, <2>3, <2>4 DEF TypeOK, IInv
    <2> QED
      BY <1>2, <2>3, <2>5, <2>6 DEF IInv
  <1> QED
    BY <1>3, <1>4

LEMMA OperationsKeep ==
  ASSUME IInv, Operations
  PROVE  IInv'
  <1>1. entries \subseteq Entry
    BY DEF IInv, TypeOK, Entry
  <1>2. ASSUME NEW p \in Path
        PROVE  <<p, 0>> \in Entry /\ Conflict(p) \subseteq Entry
    BY DEF Entry, Conflict, Sides
  <1>3. ASSUME NEW p \in Path, AddEntryByPath(p) \/ AddEntryFromBuffer(p)
        PROVE  IInv'
    BY <1>1, <1>2, <1>3, ChangeKeeps DEF AddEntryByPath, AddEntryFromBuffer, StagePath
  <1>4. ASSUME NEW p \in Path, AddConflictEntry(p) \/ RemoveEntryByPath(p)
                                \/ RemoveConflictEntries(p)
        PROVE  IInv'
    BY <1>1, <1>2, <1>4, ChangeKeeps DEF AddConflictEntry, RemoveEntryByPath, RemoveConflictEntries
  <1>5. ASSUME NEW p \in Path, NEW s \in Stage, AddEntry(p, s) \/ RemoveEntry(p, s)
        PROVE  IInv'
    <2>1. <<p, s>> \in Entry
      BY DEF Entry, Stage, Sides
    <2> QED
      BY <1>1, <1>5, <2>1, ChangeKeeps DEF AddEntry, RemoveEntry
  <1>6. CASE RemoveAllConflicts
    BY <1>1, <1>6, ChangeKeeps DEF RemoveAllConflicts
  <1>7. ASSUME NEW t \in SUBSET Path, NEW c \in SUBSET Path, Read(t, c)
        PROVE  IInv'
    <2>1. (t \X {0}) \cup ((c \ t) \X Sides) \in SUBSET Entry
      BY DEF Entry, Sides
    <2> QED
      BY <1>7, <2>1, ChangeKeeps DEF Read
  <1>8. ASSUME NEW t \in SUBSET Path, ReadTree(t)
        PROVE  IInv'
    <2>1. t \X {0} \in SUBSET Entry
      BY DEF Entry
    <2> QED
      BY <1>8, <2>1, ChangeKeeps DEF ReadTree
  <1>9. ASSUME NEW d \in SUBSET Path, NEW s \in Stage, RemoveEntriesInDirectory(d, s)
        PROVE  IInv'
    BY <1>1, <1>9, ChangeKeeps DEF RemoveEntriesInDirectory
  <1>10. ASSUME NEW p \in Path, Outside(p)
         PROVE  IInv'
    BY <1>10 DEF Outside, IInv, TypeOK
  <1> QED
    BY <1>3, <1>4, <1>5, <1>6, <1>7, <1>8, <1>9, <1>10 DEF Operations

-----------------------------------------------------------------------------
(* The cursor of for_each_conflict.                                        *)

LEMMA Entries ==
  ASSUME entries \subseteq Entry
  PROVE  /\ \A e \in entries : e = <<e[1], e[2]>> /\ e[1] \in Path /\ e[2] \in 0..3
         /\ IsFiniteSet(entries)
         /\ \A t \in SUBSET entries : IsFiniteSet(t) /\ Cardinality(t) \in Nat
  <1>1. IsFiniteSet(1..Paths) /\ IsFiniteSet(0..3)
    <2>1. 1 \in Int /\ 0 \in Int /\ 3 \in Int /\ Paths \in Int
      BY IndexAssumption
    <2> QED
      BY <2>1, FS_Interval, Zenon
  <1>2. IsFiniteSet(Entry)
    BY <1>1, FS_Product DEF Entry, Path
  <1>3. IsFiniteSet(entries)
    BY <1>2, FS_Subset
  <1>4. \A t \in SUBSET entries : IsFiniteSet(t)
    BY <1>3, FS_Subset
  <1>5. \A t \in SUBSET entries : Cardinality(t) \in Nat
    BY <1>4, FS_CardinalityType
  <1>6. \A e \in entries : e = <<e[1], e[2]>> /\ e[1] \in Path /\ e[2] \in 0..3
    BY DEF Entry
  <1> QED
    BY <1>3, <1>4, <1>5, <1>6

(* An entry is before the cursor when its path is.                         *)
LEMMA CursorSplits ==
  ASSUME entries \subseteq Entry, NEW m \in Nat, NEW e \in entries
  PROVE  Position(e) >= Cardinality(UpTo(m)) <=> e[1] > m
  <1> DEFINE b == {f \in entries : Before(f, e)}
  <1>1. b \subseteq entries /\ UpTo(m) \subseteq entries
    BY DEF UpTo
  <1>2. IsFiniteSet(b) /\ IsFiniteSet(UpTo(m)) /\ Cardinality(b) \in Nat /\ Cardinality(UpTo(m)) \in Nat
    BY <1>1, Entries
  <1>3. \A f \in entries : f[1] \in Int /\ f[2] \in Int
    BY Entries DEF Path
  <1>4. Position(e) = Cardinality(b)
    BY DEF Position
  <1>5. CASE e[1] > m
    <2>1. UpTo(m) \subseteq b
      BY <1>3, <1>5 DEF UpTo, Before
    <2>2. Cardinality(UpTo(m)) <= Cardinality(b)
      BY <1>2, <2>1, FS_Subset
    <2> QED
      BY <1>2, <1>4, <1>5, <2>2
  <1>6. CASE ~(e[1] > m)
    <2>1. b \subseteq UpTo(m) /\ e \in UpTo(m) /\ e \notin b
      BY <1>3, <1>6 DEF UpTo, Before
    <2>2. Cardinality(b) <= Cardinality(UpTo(m)) /\ Cardinality(b) # Cardinality(UpTo(m))
      BY <1>2, <2>1, FS_Subset
    <2> QED
      BY <1>2, <1>4, <1>6, <2>2
  <1> QED
    BY <1>5, <1>6

(* git_index_conflict_next passes the whole path.                          *)
LEMMA PastPath ==
  ASSUME entries \subseteq Entry, NEW e \in entries
  PROVE  Past(e) = Cardinality(UpTo(e[1]))
  <1> DEFINE b == {f \in entries : Before(f, e)}
             a == {f \in Of(e[1], entries) : f[2] >= e[2]}
  <1>1. b \subseteq entries /\ a \subseteq entries
    BY DEF Of
  <1>2. IsFiniteSet(a) /\ IsFiniteSet(b) /\ Cardinality(a) \in Nat /\ Cardinality(b) \in Nat
    BY <1>1, Entries
  <1>3. \A f \in entries : f[1] \in Int /\ f[2] \in Int
    BY Entries DEF Path
  <1>4. UpTo(e[1]) = b \cup a /\ b \cap a = {}
    BY <1>3 DEF UpTo, Before, Of
  <1>5. Cardinality(b \cup a) = Cardinality(b) + Cardinality(a) - Cardinality(b \cap a)
    BY <1>2, FS_Union
  <1>6. Cardinality(b \cap a) = 0
    BY <1>4, FS_EmptySet
  <1> QED
    BY <1>2, <1>4, <1>5, <1>6 DEF Past, Position

LEMMA FrontierMoves ==
  ASSUME entries \subseteq Entry, NEW m \in Nat, walk.cursor = Cardinality(UpTo(m)),
         NEW e \in Ahead, \A f \in Ahead : f = e \/ Before(e, f)
  PROVE  /\ e[1] \in Nat /\ e[1] > m
         /\ {p \in Conflicted(entries) : p <= e[1]}
              = {p \in Conflicted(entries) : p <= m} \cup {e[1]}
  <1>1. e \in entries /\ e[2] \in Sides /\ e[1] > m
    BY CursorSplits DEF Ahead
  <1>2. e = <<e[1], e[2]>> /\ e[1] \in Path /\ e[1] \in Nat
    BY <1>1, Entries DEF Path
  <1>3. e[1] \in Conflicted(entries)
    BY <1>1, <1>2 DEF Conflicted
  <1>4. ASSUME NEW p \in Conflicted(entries), p <= e[1], p > m
        PROVE  p = e[1]
    <2>1. PICK s \in Sides : <<p, s>> \in entries
      BY DEF Conflicted
    <2> DEFINE f == <<p, s>>
    <2>2. f \in entries /\ f[1] = p /\ f[2] = s
      BY <2>1
    <2>3. f \in Ahead
      BY <1>4, <2>2, CursorSplits DEF Ahead
    <2>4. f = e \/ e[1] <= p
      <3>1. f = e \/ Before(e, f)
        BY <2>3
      <3> QED
        BY <1>2, <2>2, <3>1, <1>4 DEF Before, Conflicted, Path
    <2> QED
      BY <1>2, <1>4, <2>2, <2>4 DEF Conflicted, Path
  <1>5. \A p \in Conflicted(entries) : p \in Int
    BY DEF Conflicted, Path
  <1> QED
    BY <1>1, <1>2, <1>3, <1>4, <1>5

(* All the sides of a conflict ahead are ahead.                            *)
LEMMA SidesAhead ==
  ASSUME entries \subseteq Entry, AllSides(entries), NEW m \in Nat,
         walk.cursor = Cardinality(UpTo(m)), NEW e \in Ahead
  PROVE  Conflict(e[1]) \subseteq Ahead
  <1>1. e \in entries /\ e[2] \in Sides /\ e[1] > m
    BY CursorSplits DEF Ahead
  <1>2. e = <<e[1], e[2]>> /\ e[1] \in Path
    BY <1>1, Entries
  <1>3. e[1] \in Conflicted(entries)
    BY <1>1, <1>2 DEF Conflicted
  <1>4. ASSUME NEW s \in Sides
        PROVE  <<e[1], s>> \in Ahead
    <2> DEFINE f == <<e[1], s>>
    <2>1. f \in entries
      BY <1>3 DEF AllSides, Conflict
    <2>2. f[1] = e[1] /\ f[2] = s
      OBVIOUS
    <2>3. Position(f) >= walk.cursor
      BY <1>1, <2>1, <2>2, CursorSplits
    <2> QED
      BY <2>1, <2>2, <2>3 DEF Ahead
  <1> QED
    BY <1>4 DEF Conflict

LEMMA FrontierEnds ==
  ASSUME entries \subseteq Entry, NEW m \in Nat, walk.cursor = Cardinality(UpTo(m)), Ahead = {}
  PROVE  {p \in Conflicted(entries) : p <= m} = Conflicted(entries)
  <1>1. ASSUME NEW p \in Conflicted(entries)
        PROVE  p <= m
    <2>1. PICK s \in Sides : <<p, s>> \in entries
      BY DEF Conflicted
    <2> DEFINE f == <<p, s>>
    <2>2. f \in entries /\ f[1] = p /\ f[2] \in Sides
      BY <2>1
    <2>3. ~(f[1] > m)
      BY <2>2, CursorSplits DEF Ahead
    <2> QED
      BY <2>2, <2>3 DEF Conflicted, Path
  <1> QED
    BY <1>1

-----------------------------------------------------------------------------
(* The traversals.                                                         *)

(* Half of a step that leaves the entries alone.                           *)
LEMMA WalkKeeps ==
  ASSUME IInv, UNCHANGED <<entries, work>>,
         walk' # NULL =>
           /\ walk'.kind \in Bulk \cup {"each", "conflicts"}
           /\ walk'.end \in {"no", "normal", "cut", "threw", "dead"}
           /\ walk'.taken \subseteq walk'.seen
           /\ Shape(walk)' /\ Frontier' /\ Exact' /\ Idle'
  PROVE  IInv'
  BY DEF IInv, TypeOK

LEMMA BeginKeeps ==
  ASSUME IInv, NEW kind \in Bulk \cup {"each", "conflicts"}, NEW start, NEW todo,
         Begin(kind, start, todo), kind # "each" => start = entries,
         kind \in Bulk => todo = Matched(kind)
  PROVE  IInv'
  <1>1. /\ walk' = [kind |-> kind, start |-> start, todo |-> todo, seen |-> {},
                    taken |-> {}, cursor |-> 0, visiting |-> FALSE,
                    changed |-> FALSE, again |-> FALSE, end |-> "no"]
        /\ UNCHANGED <<entries, work>>
    BY DEF Begin
  <1>2. /\ Shape(walk)' /\ walk'.kind = kind /\ walk'.start = start /\ walk'.todo = todo
        /\ walk'.seen = {} /\ walk'.taken = {} /\ walk'.cursor = 0 /\ ~walk'.visiting
        /\ ~walk'.changed /\ ~walk'.again /\ walk'.end = "no"
    BY <1>1 DEF Shape
  <1>3. Idle'
    BY <1>2 DEF Idle
  <1>4. Frontier'
    <2>1. entries \subseteq Entry
      BY DEF IInv, TypeOK, Entry
    <2>2. \A f \in entries : ~(f[1] <= 0)
      BY <2>1, Entries DEF Path
    <2>3. UpTo(0) = {} /\ {p \in Conflicted(entries) : p <= 0} = {}
      BY <2>2 DEF UpTo, Conflicted, Path
    <2>4. Cardinality(UpTo(0)) = 0
      BY <2>3, FS_EmptySet
    <2>5. \E m \in Nat : /\ walk'.cursor = Cardinality(UpTo(m))
                         /\ walk'.seen = {p \in Conflicted(entries) : p <= m}
      BY <1>2, <2>3, <2>4
    <2> QED
      BY <1>1, <1>2, <2>5 DEF Frontier, UpTo, Conflicted
  <1>5. Exact'
    <2> SUFFICES ASSUME kind \in Bulk PROVE Exact'
      BY <1>2 DEF Exact
    <2>1. todo \subseteq Entry
      <3>1. entries \subseteq Entry /\ Path \X {0} \subseteq Entry
        BY DEF IInv, TypeOK, Entry
      <3> QED
        BY <3>1 DEF Matched, Bulk
    <2>2. ASSUME NEW p \in Path, \A e \in todo : e[1] # p
          PROVE  Of(p, entries) \in {{}, Of(p, work \X {0})}
      <3>1. CASE kind = "remove"
        BY <2>2, <3>1 DEF Matched, Of
      <3>2. CASE kind # "remove"
        <4>1. <<p, 0>> \notin todo
          BY <2>2
        <4> QED
          BY <3>2, <4>1 DEF Matched, Bulk
      <3> QED
        BY <3>1, <3>2
    <2> QED
      BY <1>1, <1>2, <2>1, <2>2 DEF Exact, Bulk
  <1> QED
    BY <1>1, <1>2, <1>3, <1>4, <1>5, WalkKeeps

LEMMA EndsKeeps ==
  ASSUME IInv, walk # NULL, walk.end = "no", 
         NEW how \in {"normal", "cut", "threw", "dead"}, Ends(how),
         how = "normal" => \/ walk.kind \in Bulk /\ walk.todo = {}
                           \/ walk.kind = "each"
                           \/ walk.kind = "conflicts" /\ Ahead = {},
         how = "dead" => walk.kind = "conflicts" /\ \E e \in Ahead :
                           FirstAhead(e) /\ ~(Conflict(e[1]) \subseteq Ahead)
  PROVE  IInv'
  <1>1. walk' = [walk EXCEPT !.end = how, !.visiting = FALSE] /\ UNCHANGED <<entries, work>>
    BY DEF Ends
  <1>2. Shape(walk) /\ Frontier /\ Exact /\ Idle
    BY DEF IInv
  <1>3. /\ Shape(walk)' /\ walk'.changed = walk.changed /\ ~walk'.visiting /\ walk'.end = how
        /\ walk'.kind = walk.kind /\ walk'.start = walk.start /\ walk'.todo = walk.todo
        /\ walk'.seen = walk.seen /\ walk'.taken = walk.taken /\ walk'.again = walk.again
    BY <1>1, <1>2, EndedFields
  <1>4. Idle'
    BY <1>2, <1>3 DEF Idle
  <1>5. Frontier'
    <2> SUFFICES ASSUME walk.kind = "conflicts", ~walk.changed PROVE Frontier'
      BY <1>3 DEF Frontier
    <2>1. entries = walk.start /\ ~walk.again
      BY <1>2 DEF Frontier
    <2>2. ASSUME how = "normal"
          PROVE  walk.seen = Conflicted(entries)
      <3>1. Ahead = {} /\ entries \subseteq Entry
        BY <2>2 DEF Bulk, IInv, TypeOK, Entry
      <3>2. PICK m \in Nat : /\ walk.cursor = Cardinality(UpTo(m))
                             /\ walk.seen = {p \in Conflicted(entries) : p <= m}
        BY <1>2 DEF Frontier
      <3> QED
        BY <3>1, <3>2, FrontierEnds
    <2>3. ASSUME how = "dead"
          PROVE  ~AllSides(entries)
      <3>1. entries \subseteq Entry
        BY DEF IInv, TypeOK, Entry
      <3>2. PICK e \in Ahead : ~(Conflict(e[1]) \subseteq Ahead)
        BY <2>3
      <3>3. PICK m \in Nat : walk.cursor = Cardinality(UpTo(m))
        BY <1>2 DEF Frontier
      <3> QED
        BY <3>1, <3>2, <3>3, SidesAhead
    <2> QED
      BY <1>1, <1>3, <2>1, <2>2, <2>3 DEF Frontier
  <1>6. Exact'
    BY <1>1, <1>2, <1>3 DEF Exact, Bulk
  <1>7. walk.kind \in Bulk \cup {"each", "conflicts"} /\ walk.taken \subseteq walk.seen
    BY DEF IInv, TypeOK
  <1> QED
    BY <1>1, <1>3, <1>4, <1>5, <1>6, <1>7, WalkKeeps

LEMMA EachKeeps ==
  ASSUME IInv, EachNext
  PROVE  IInv'
  <1>1. PICK e \in walk.todo : walk' = [walk EXCEPT !.todo = @ \ {e}, !.visiting = TRUE]
    BY DEF EachNext
  <1>2. walk # NULL /\ walk.kind = "each" /\ walk.end = "no" /\ UNCHANGED <<entries, work>>
    BY DEF EachNext, Running
  <1>3. Shape(walk) /\ Idle
    BY <1>2 DEF IInv
  <1>4. /\ Shape(walk)' /\ walk'.changed = walk.changed /\ walk'.end = walk.end
        /\ walk'.kind = walk.kind /\ walk'.seen = walk.seen /\ walk'.taken = walk.taken
    BY <1>1, <1>3, VisitedFields
  <1>5. Frontier' /\ Exact' /\ Idle'
    BY <1>2, <1>3, <1>4 DEF Frontier, Exact, Idle, Bulk
  <1>6. walk.taken \subseteq walk.seen
    BY <1>2 DEF IInv, TypeOK
  <1> QED
    BY <1>2, <1>4, <1>5, <1>6, WalkKeeps

LEMMA ConflictKeeps ==
  ASSUME IInv, ConflictNext
  PROVE  IInv'
  <1>1. PICK e \in Ahead :
          /\ \A f \in Ahead : f = e \/ Before(e, f)
          /\ walk' = [walk EXCEPT !.seen = @ \cup {e[1]}, !.cursor = Past(e),
                                  !.again = @ \/ e[1] \in walk.seen, !.visiting = TRUE]
    BY DEF ConflictNext, FirstAhead
  <1>2. walk # NULL /\ walk.kind = "conflicts" /\ walk.end = "no" /\ UNCHANGED <<entries, work>>
    BY DEF ConflictNext, Running
  <1>3. Shape(walk) /\ Frontier /\ Idle /\ entries \subseteq Entry
    BY <1>2 DEF IInv, TypeOK, Entry
  <1> DEFINE q == e[1]
             c == Past(e)
  <1>4. walk' = [walk EXCEPT !.seen = @ \cup {q}, !.cursor = c, !.again = @ \/ q \in walk.seen,
                             !.visiting = TRUE]
    BY <1>1
  <1> HIDE DEF q, c
  <1>5. /\ Shape(walk)' /\ walk'.changed = walk.changed /\ walk'.end = walk.end
        /\ walk'.kind = walk.kind /\ walk'.start = walk.start /\ walk'.seen = walk.seen \cup {q}
        /\ walk'.taken = walk.taken /\ walk'.cursor = c
        /\ walk'.again = (walk.again \/ q \in walk.seen)
    BY <1>3, <1>4 DEF Shape
  <1>6. Exact' /\ Idle'
    BY <1>2, <1>3, <1>5 DEF Exact, Idle, Bulk
  <1>7. Frontier'
    <2> SUFFICES ASSUME ~walk.changed PROVE Frontier'
      BY <1>5 DEF Frontier
    <2>1. PICK m \in Nat : /\ walk.cursor = Cardinality(UpTo(m))
                           /\ walk.seen = {p \in Conflicted(entries) : p <= m}
      BY <1>2, <1>3 DEF Frontier
    <2>2. /\ q \in Nat /\ q > m
          /\ {p \in Conflicted(entries) : p <= q} = walk.seen \cup {q}
      BY <1>1, <1>3, <2>1, FrontierMoves DEF q
    <2>3. q \notin walk.seen
      BY <2>1, <2>2
    <2>4. c = Cardinality(UpTo(q))
      BY <1>1, <1>3, PastPath DEF Ahead, c, q
    <2>5. entries = walk.start /\ ~walk.again
      BY <1>2, <1>3 DEF Frontier
    <2>6. \E n \in Nat : /\ walk'.cursor = Cardinality(UpTo(n))
                         /\ walk'.seen = {p \in Conflicted(entries) : p <= n}
      BY <1>5, <2>2, <2>4
    <2> QED
      BY <1>2, <1>5, <2>3, <2>5, <2>6 DEF Frontier, UpTo, Conflicted
  <1>8. walk.taken \subseteq walk.seen
    BY <1>2 DEF IInv, TypeOK
  <1> QED
    BY <1>2, <1>5, <1>6, <1>7, <1>8, WalkKeeps

(* What libgit2 has done for a path is what a bulk operation says.         *)
LEMMA TakenOf ==
  ASSUME NEW p \in Path, NEW q
  PROVE  Of(q, Taken(p)) = IF q # p THEN Of(q, entries)
                           ELSE IF walk.kind = "remove" THEN {} ELSE Of(q, work \X {0})
  <1> DEFINE new == IF walk.kind # "remove" THEN Of(p, work \X {0}) ELSE {}
  <1>1. Taken(p) = (entries \ Of(p, entries)) \cup new
    BY DEF Taken
  <1>2. \A e \in new : e[1] = p
    BY DEF Of
  <1>3. Of(p, new) = new
    BY <1>2 DEF Of
  <1> HIDE DEF new
  <1>4. Of(q, Taken(p)) = IF q = p THEN new ELSE Of(q, entries)
    BY <1>1, <1>2, <1>3 DEF Of
  <1> QED
    BY <1>4 DEF new

LEMMA TakeKeeps ==
  ASSUME IInv, NEW e \in Path \X Stage, BulkTake(e)
  PROVE  IInv'
  <1> DEFINE p == e[1]
             todo == walk.todo \ Of(p, walk.todo)
             seen == walk.seen \cup {p}
             taken == walk.taken \cup {p}
  <1>1. /\ walk # NULL /\ walk.kind \in Bulk /\ walk.end = "no" /\ e \in walk.todo
        /\ entries' = Taken(p) /\ work' = work
        /\ walk' = [walk EXCEPT !.todo = todo, !.seen = seen, !.taken = taken]
    BY DEF BulkTake, BulkRunning
  <1>2. Shape(walk) /\ Exact /\ walk.taken \subseteq walk.seen /\ work \subseteq Path
        /\ entries \subseteq Entry /\ p \in Path
    BY <1>1 DEF IInv, TypeOK, Entry
  <1>3. todo \subseteq walk.todo /\ \A f \in walk.todo : f \notin todo => f[1] = p
    BY DEF Of
  <1>4. \A q \in Path : Of(q, entries') = IF q # p THEN Of(q, entries)
                                          ELSE IF walk.kind = "remove" THEN {}
                                          ELSE Of(q, work \X {0})
    BY <1>1, <1>2, TakenOf
  <1>5. Taken(p) \subseteq Entry
    BY <1>2 DEF Taken, Of, Entry
  <1> HIDE DEF todo, seen, taken, p
  <1>6. /\ Shape(walk)' /\ walk'.changed = walk.changed /\ walk'.end = walk.end
        /\ walk'.kind = walk.kind /\ walk'.start = walk.start /\ walk'.todo = todo
        /\ walk'.seen = seen /\ walk'.taken = taken /\ walk'.visiting = walk.visiting
    BY <1>1, <1>2 DEF Shape
  <1>7. Exact'
    <2>1. ASSUME NEW q \in Path
          PROVE  Of(q, entries') = IF q \notin taken THEN Of(q, walk.start)
                                   ELSE IF walk.kind = "remove" THEN {}
                                   ELSE Of(q, work \X {0})
      <3>1. CASE q = p
        BY <1>4, <3>1 DEF taken
      <3>2. CASE q # p
        <4>1. Of(q, entries') = Of(q, entries) /\ (q \in taken <=> q \in walk.taken)
          BY <1>4, <3>2 DEF taken
        <4> QED
          BY <1>1, <1>2, <4>1 DEF Exact
      <3> QED
        BY <3>1, <3>2
    <2>2. ASSUME NEW q \in Path \ seen, \A f \in todo : f[1] # q
          PROVE  Of(q, walk.start) \in {{}, Of(q, work \X {0})}
      <3>1. q \in Path \ walk.seen /\ q # p
        BY DEF seen
      <3>2. \A f \in walk.todo : f[1] # q
        BY <1>3, <2>2, <3>1
      <3> QED
        BY <1>1, <1>2, <3>1, <3>2 DEF Exact
    <2>3. ~walk.visiting /\ walk.todo \subseteq Entry
      BY <1>1, <1>2 DEF Exact
    <2> QED
      BY <1>1, <1>3, <1>6, <2>1, <2>2, <2>3 DEF Exact
  <1>8. Frontier' /\ Idle'
    BY <1>1, <1>6 DEF Frontier, Idle, Bulk
  <1>9. taken \subseteq seen
    BY <1>2 DEF taken, seen
  <1>10. TypeOK'
    BY <1>1, <1>2, <1>5, <1>6, <1>9 DEF TypeOK, Entry
  <1> QED
    BY <1>6, <1>7, <1>8, <1>10 DEF IInv

LEMMA SkipKeeps ==
  ASSUME IInv, NEW e \in Path \X Stage, BulkSkip(e)
  PROVE  IInv'
  <1> DEFINE todo == walk.todo \ {e}
             seen == walk.seen \cup {e[1]}
  <1>1. /\ walk # NULL /\ walk.kind \in Bulk /\ walk.end = "no" /\ e \in walk.todo
        /\ UNCHANGED <<entries, work>>
        /\ walk' = [walk EXCEPT !.todo = todo, !.seen = seen]
    BY DEF BulkSkip, BulkRunning
  <1>2. Shape(walk) /\ Exact /\ walk.taken \subseteq walk.seen
    BY <1>1 DEF IInv, TypeOK
  <1>3. todo \subseteq walk.todo /\ \A f \in walk.todo : f \notin todo => f[1] \in seen
    OBVIOUS
  <1>4. walk.seen \subseteq seen
    OBVIOUS
  <1> HIDE DEF todo, seen
  <1>5. walk' = [walk EXCEPT !.todo = todo, !.seen = seen, !.taken = walk.taken]
    BY <1>1, <1>2 DEF Shape
  <1>6. /\ Shape(walk)' /\ walk'.changed = walk.changed /\ walk'.end = walk.end
        /\ walk'.kind = walk.kind /\ walk'.start = walk.start /\ walk'.todo = todo
        /\ walk'.seen = seen /\ walk'.taken = walk.taken /\ walk'.visiting = walk.visiting
    BY <1>2, <1>5 DEF Shape
  <1>7. Exact'
    <2>1. ASSUME NEW q \in Path \ seen, \A f \in todo : f[1] # q
          PROVE  Of(q, walk.start) \in {{}, Of(q, work \X {0})}
      <3>1. q \in Path \ walk.seen /\ \A f \in walk.todo : f[1] # q
        BY <1>3, <1>4, <2>1
      <3> QED
        BY <1>1, <1>2, <3>1 DEF Exact
    <2> QED
      BY <1>1, <1>2, <1>3, <1>6, <2>1 DEF Exact
  <1>8. Frontier' /\ Idle'
    BY <1>1, <1>6 DEF Frontier, Idle, Bulk
  <1> QED
    BY <1>1, <1>2, <1>4, <1>6, <1>7, <1>8, WalkKeeps

LEMMA TraversalsKeep ==
  ASSUME IInv, Traversals \/ EachFails \/ ConflictFails \/ VisitThrows \/ BulkThrows
  PROVE  IInv'
  <1>1. CASE EachOver \/ EachFails
    BY <1>1, EndsKeeps DEF EachOver, EachFails, Running
  <1>2. CASE ConflictOver \/ ConflictFails \/ ConflictNull
    BY <1>2, EndsKeeps DEF ConflictOver, ConflictFails, ConflictNull, Running
  <1>3. CASE BulkOver
    BY <1>3, EndsKeeps DEF BulkOver, BulkRunning
  <1>4. CASE VisitThrows
    BY <1>4, EndsKeeps DEF VisitThrows, Running
  <1>5. CASE BulkThrows
    BY <1>5, EndsKeeps DEF BulkThrows, BulkRunning
  <1>6. CASE Return
    BY <1>6, WalkKeeps DEF Return
  <1> QED
    BY <1>1, <1>2, <1>3, <1>4, <1>5, <1>6, EachKeeps, ConflictKeeps, TakeKeeps, SkipKeeps
    DEF Traversals

LEMMA Inductive == Spec => []IInv
  <1>1. Init => IInv
    BY DEF Init, IInv, TypeOK
  <1>2. IInv /\ [Next]_vars => IInv'
    <2> SUFFICES ASSUME IInv, [Next]_vars PROVE IInv'
      OBVIOUS
    <2>1. CASE UNCHANGED vars
      <3>1. entries' = entries /\ work' = work /\ walk' = walk
        BY <2>1 DEF vars
      <3>2. TypeOK'
        BY <3>1 DEF IInv, TypeOK
      <3>3. ASSUME walk # NULL
            PROVE  Shape(walk)' /\ Exact' /\ Idle'
        BY <3>1, <3>3 DEF IInv, Shape, Exact, Idle
      <3>4. ASSUME walk # NULL
            PROVE  Frontier'
        BY <3>1, <3>4 DEF IInv, Frontier, UpTo
      <3> QED
        BY <3>1, <3>2, <3>3, <3>4 DEF IInv
    <2>2. CASE Operations
      BY <2>2, OperationsKeep
    <2>3. CASE Traversals \/ EachFails \/ ConflictFails \/ VisitThrows \/ BulkThrows
      BY <2>3, TraversalsKeep
    <2>4. CASE ForEach \/ ForEachConflict \/ \E kind \in Bulk : ForMatching(kind)
      BY <2>4, BeginKeeps DEF ForEach, ForEachConflict, ForMatching, Bulk
    <2>5. CASE Dead
      BY <2>1, <2>5 DEF Dead
    <2> QED
      BY <2>1, <2>2, <2>3, <2>4, <2>5 DEF Next
  <1> QED
    BY <1>1, <1>2, PTL DEF Spec

(* The types, for any number of paths.                                     *)
THEOREM TypeCorrect == Spec => []TypeOK
  BY Inductive, PTL DEF IInv

(* The entries es have no path staged and in conflict that entries does not *)
(* have so.                                                                *)
NoNew(es) == \A p \in Path : <<p, 0>> \in es /\ p \in Conflicted(es) => Both(p)

LEMMA NoNewSubset ==
  ASSUME NEW es, \A e \in es : e \in entries
  PROVE  NoNew(es)
  BY DEF NoNew, Both, Conflicted

LEMMA NoNewPath ==
  ASSUME NEW p \in Path
  PROVE  /\ NoNew((entries \ Of(p, entries)) \cup {<<p, 0>>})
         /\ NoNew((entries \ {<<p, 0>>}) \cup Conflict(p))
  <1>1. NoNew((entries \ Of(p, entries)) \cup {<<p, 0>>})
    <2> DEFINE es == (entries \ Of(p, entries)) \cup {<<p, 0>>}
    <2>1. \A s \in Sides : <<p, s>> \notin es
      BY DEF Of, Sides
    <2>2. \A q \in Path : q # p => \A s : <<q, s>> \in es => <<q, s>> \in entries
      OBVIOUS
    <2> QED
      BY <2>1, <2>2 DEF NoNew, Both, Conflicted
  <1>2. NoNew((entries \ {<<p, 0>>}) \cup Conflict(p))
    <2> DEFINE es == (entries \ {<<p, 0>>}) \cup Conflict(p)
    <2>1. <<p, 0>> \notin es
      BY DEF Conflict, Sides
    <2>2. \A q \in Path : q # p => \A s : <<q, s>> \in es => <<q, s>> \in entries
      BY DEF Conflict
    <2> QED
      BY <2>1, <2>2 DEF NoNew, Both, Conflicted
  <1> QED
    BY <1>1, <1>2

LEMMA NoNewRead ==
  ASSUME NEW t \in SUBSET Path, NEW c \in SUBSET Path
  PROVE  NoNew((t \X {0}) \cup ((c \ t) \X Sides))
  <1> DEFINE es == (t \X {0}) \cup ((c \ t) \X Sides)
  <1>1. \A p \in Path : (<<p, 0>> \in es => p \in t) /\ (p \in Conflicted(es) => p \notin t)
    BY DEF Conflicted, Sides
  <1> QED
    BY <1>1 DEF NoNew

(* No sequence of operations, of visitors and of interrupted bulk          *)
(* operations makes a path both staged and in conflict, but for add_entry. *)
THEOREM StagedOrConflicted == Spec => StageRule
  <1> DEFINE Rule == \A p \in Path : Both(p)' /\ ~Both(p) => \E s \in Stage : AddEntry(p, s)
  <1>1. ASSUME NEW es, NoNew(es), entries' = es
        PROVE  Rule
    BY <1>1 DEF NoNew, Both, Conflicted
  <1>2. ASSUME entries' = entries
        PROVE  Rule
    BY <1>2 DEF Both, Conflicted
  <1>3. ASSUME NEW p \in Path,
               \/ AddEntryByPath(p) \/ AddEntryFromBuffer(p) \/ AddConflictEntry(p)
               \/ RemoveConflictEntries(p) \/ RemoveEntryByPath(p)
        PROVE  Rule
    BY <1>1, <1>3, NoNewPath, NoNewSubset
    DEF AddEntryByPath, AddEntryFromBuffer, StagePath, AddConflictEntry,
        RemoveConflictEntries, RemoveEntryByPath, Change
  <1>4. ASSUME NEW p \in Path, NEW s \in Stage, AddEntry(p, s)
        PROVE  Rule
    <2>1. entries' = entries \cup {<<p, s>>}
      BY <1>4 DEF AddEntry, Change
    <2>2. \A q \in Path : q # p => \A r : <<q, r>> \in entries' => <<q, r>> \in entries
      BY <2>1
    <2> QED
      BY <1>4, <2>2 DEF Both, Conflicted
  <1>5. ASSUME NEW p \in Path, NEW s \in Stage, RemoveEntry(p, s)
        PROVE  Rule
    BY <1>1, <1>5, NoNewSubset DEF RemoveEntry, Change
  <1>6. ASSUME RemoveAllConflicts \/ \E d \in SUBSET Path, s \in Stage : RemoveEntriesInDirectory(d, s)
        PROVE  Rule
    BY <1>1, <1>6, NoNewSubset DEF RemoveAllConflicts, RemoveEntriesInDirectory, Change
  <1>7. ASSUME NEW t \in SUBSET Path, NEW c \in SUBSET Path, Read(t, c) \/ ReadTree(t)
        PROVE  Rule
    <2>1. t \X {0} = (t \X {0}) \cup (({} \ t) \X Sides)
      OBVIOUS
    <2>2. NoNew(t \X {0}) /\ NoNew((t \X {0}) \cup ((c \ t) \X Sides))
      BY <2>1, NoNewRead
    <2> QED
      BY <1>1, <1>7, <2>2 DEF Read, ReadTree, Change
  <1>8. ASSUME NEW e \in Path \X Stage, BulkTake(e)
        PROVE  Rule
    <2>1. entries' = Taken(e[1]) /\ e[1] \in Path
      BY <1>8 DEF BulkTake
    <2>2. Of(e[1], work \X {0}) \in {{}, {<<e[1], 0>>}}
      BY DEF Of
    <2>3. \/ Taken(e[1]) = entries \ Of(e[1], entries)
          \/ Taken(e[1]) = (entries \ Of(e[1], entries)) \cup {<<e[1], 0>>}
      BY <2>2 DEF Taken
    <2>4. NoNew(Taken(e[1]))
      BY <2>1, <2>3, NoNewPath, NoNewSubset
    <2> QED
      BY <1>1, <2>1, <2>4
  <1>9. ASSUME Next
        PROVE  Rule
    <2>1. CASE Operations
      <3>1. ASSUME NEW p \in Path, Outside(p)
            PROVE  Rule
        BY <1>2, <3>1 DEF Outside
      <3> QED
        BY <2>1, <3>1, <1>3, <1>4, <1>5, <1>6, <1>7 DEF Operations
    <2>2. CASE Traversals
      <3>1. CASE \E e \in Path \X Stage : BulkTake(e)
        BY <1>8, <3>1
      <3>2. CASE entries' = entries
        BY <1>2, <3>2
      <3> QED
        BY <2>2, <3>1, <3>2 DEF Traversals, EachNext, EachOver, ConflictNext, ConflictNull,
           ConflictOver, BulkSkip, BulkOver, Return, Ends
    <2>3. CASE entries' = entries
      BY <1>2, <2>3
    <2> QED
      BY <1>9, <2>1, <2>2, <2>3 DEF Next, ForEach, ForEachConflict, ForMatching, Begin, EachFails,
         ConflictFails, VisitThrows, BulkThrows, Ends, Dead, vars
  <1> HIDE DEF Rule
  <1>10. [Next]_vars => [Rule]_vars
    BY <1>9
  <1>11. [][Rule]_vars <=> StageRule
    BY DEF Rule, StageRule
  <1> QED
    BY <1>10, <1>11, PTL DEF Spec

(* for_each_conflict visits every conflict once when its visitor changes   *)
(* nothing: the cursor passes whole paths.                                 *)
THEOREM VisitsConflicts == Spec => []ConflictsVisited
  <1>1. IInv => ConflictsVisited
    BY DEF IInv, Frontier, ConflictsVisited
  <1> QED
    BY <1>1, Inductive, PTL

(* A bulk operation does what its function allowed, also when it is cut    *)
(* short.                                                                  *)
THEOREM TakesAllowed == Spec => []BulkExact
  <1>1. IInv => BulkExact
    <2> SUFFICES ASSUME IInv, walk # NULL, walk.kind \in Bulk PROVE BulkExact
      BY DEF BulkExact
    <2> QED
      BY DEF IInv, Exact, BulkExact
  <1> QED
    BY <1>1, Inductive, PTL

-----------------------------------------------------------------------------
(* A traversal comes to an end: WalkEnds without its fairness.             *)

(* The elements or positions a traversal has before it. *)
Coming ==
  IF walk.kind = "conflicts" THEN Cardinality(entries) - walk.cursor ELSE Cardinality(walk.todo)

(* What is left of it, with the end and the change its visitor may make. *)
WalkRest ==
  2 * (Coming + (IF walk.end = "no" THEN 1 ELSE 0)) + (IF walk.visiting THEN 1 ELSE 0)

(* Every step there is while an index is traversed brings the end nearer, also
   those of a visitor of for_each that adds entries: for_each and the bulk
   operations work on what there was.  The cursor of for_each_conflict passes
   some entry each time; its visitor could add as many, and leaves the index
   alone.  WalkRest is a natural number. *)
StepConverges == walk # NULL => walk' = NULL \/ Unsettled' \/ WalkRest' < WalkRest

WalkConverges == [][StepConverges]_vars

InRange ==
  walk # NULL =>
    /\ Shape(walk)
    /\ IsFiniteSet(walk.todo)
    /\ walk.kind = "conflicts" /\ ~walk.changed => walk.cursor \in 0..Cardinality(entries)

LEMMA EntriesFinite ==
  ASSUME IInv
  PROVE  entries \subseteq Entry /\ IsFiniteSet(entries) /\ Cardinality(entries) \in Nat
  <1>1. entries \subseteq Entry
    BY DEF IInv, TypeOK, Entry
  <1> QED
    BY <1>1, Entries

(* The cursor passes the side it returns, and stays inside the index. *)
LEMMA PastAdvances ==
  ASSUME entries \subseteq Entry, NEW e \in entries
  PROVE  Past(e) \in 0..Cardinality(entries) /\ Position(e) \in Nat /\ Past(e) > Position(e)
  <1> DEFINE b == {f \in entries : Before(f, e)}
             a == {f \in Of(e[1], entries) : f[2] >= e[2]}
  <1>1. b \subseteq entries /\ a \subseteq entries /\ UpTo(e[1]) \subseteq entries
    BY DEF Of, UpTo
  <1>2. IsFiniteSet(a) /\ Cardinality(a) \in Nat /\ Cardinality(b) \in Nat
        /\ IsFiniteSet(entries) /\ Cardinality(entries) \in Nat
    BY <1>1, Entries
  <1>3. e[2] \in Int
    BY Entries
  <1>4. e \in a
    BY <1>3 DEF Of
  <1>5. Cardinality(a) # 0
    BY <1>2, <1>4, FS_EmptySet
  <1>6. Past(e) = Cardinality(b) + Cardinality(a) /\ Position(e) = Cardinality(b)
    BY DEF Past, Position
  <1>7. Cardinality(UpTo(e[1])) <= Cardinality(entries)
    BY <1>1, <1>2, FS_Subset
  <1>8. Past(e) <= Cardinality(entries)
    BY <1>7, PastPath
  <1> HIDE DEF a, b
  <1> QED
    BY <1>2, <1>5, <1>6, <1>8

(* Having less to come, or ending, is less to do. *)
LEMMA RestShrinks ==
  ASSUME Coming \in Nat, Coming' \in Nat,
         \/ Coming' < Coming /\ walk'.end = walk.end
         \/ Coming' = Coming /\ walk.end = "no" /\ walk'.end # "no"
         \/ Coming' = Coming /\ walk'.end = walk.end /\ walk.visiting /\ ~walk'.visiting
  PROVE  WalkRest \in Nat /\ WalkRest' \in Nat /\ WalkRest' < WalkRest
  <1> DEFINE k == IF walk.end = "no" THEN 1 ELSE 0
             m == IF walk'.end = "no" THEN 1 ELSE 0
             v == IF walk.visiting THEN 1 ELSE 0
             w == IF walk'.visiting THEN 1 ELSE 0
             c == Coming
             d == Coming'
  <1>1. k \in 0..1 /\ m \in 0..1 /\ v \in 0..1 /\ w \in 0..1
    OBVIOUS
  <1>2. WalkRest = 2 * (c + k) + v /\ WalkRest' = 2 * (d + m) + w
    BY DEF WalkRest
  <1>3. \/ d < c /\ m = k
        \/ d = c /\ k = 1 /\ m = 0
        \/ d = c /\ m = k /\ v = 1 /\ w = 0
    OBVIOUS
  <1>4. c \in Nat /\ d \in Nat
    OBVIOUS
  <1> HIDE DEF k, m, v, w, c, d
  <1> QED
    BY <1>1, <1>2, <1>3, <1>4

LEMMA ComingType ==
  ASSUME IInv, InRange, walk # NULL, ~Unsettled
  PROVE  Coming \in Nat /\ WalkRest \in Nat
  <1>1. Coming \in Nat
    BY EntriesFinite, FS_CardinalityType DEF InRange, Coming, Unsettled
  <1> HIDE DEF Coming
  <1> QED
    BY <1>1 DEF WalkRest

(* Some elements less to give. *)
LEMMA SomeLess ==
  ASSUME InRange, walk # NULL, NEW x \in walk.todo, walk.kind # "conflicts", Shape(walk)',
         walk'.kind = walk.kind, walk'.end = walk.end,
         walk'.todo \subseteq walk.todo, x \notin walk'.todo
  PROVE  InRange' /\ WalkRest' < WalkRest
  <1>1. /\ IsFiniteSet(walk.todo) /\ Cardinality(walk.todo) \in Nat
        /\ IsFiniteSet(walk'.todo) /\ Cardinality(walk'.todo) \in Nat
        /\ Cardinality(walk'.todo) < Cardinality(walk.todo)
    <2>1. IsFiniteSet(walk.todo) /\ Cardinality(walk.todo) \in Nat
      BY FS_CardinalityType DEF InRange
    <2>2. IsFiniteSet(walk'.todo) /\ Cardinality(walk'.todo) \in Nat
      BY <2>1, FS_Subset, FS_CardinalityType
    <2>3. Cardinality(walk'.todo) <= Cardinality(walk.todo)
          /\ Cardinality(walk'.todo) # Cardinality(walk.todo)
      BY <2>1, FS_Subset
    <2> QED
      BY <2>1, <2>2, <2>3
  <1>2. Coming = Cardinality(walk.todo) /\ Coming' = Cardinality(walk'.todo)
    BY DEF Coming
  <1>3. InRange'
    BY <1>1 DEF InRange
  <1>4. Coming \in Nat /\ Coming' \in Nat /\ Coming' < Coming
    BY <1>1, <1>2
  <1> QED
    BY <1>3, <1>4, RestShrinks

(* The traversal ends, or its visitor changes the index of a for_each: what it
   has before it is the same. *)
LEMMA SameToCome ==
  ASSUME IInv, InRange, walk # NULL, ~Unsettled, Shape(walk)', ~walk'.visiting,
         walk'.kind = walk.kind, walk'.cursor = walk.cursor, walk'.todo = walk.todo,
         walk.kind = "conflicts" => UNCHANGED entries,
         \/ walk'.end = walk.end /\ walk.visiting
         \/ walk.end = "no" /\ walk'.end # "no"
  PROVE  InRange' /\ WalkRest' < WalkRest
  <1>1. Coming' = Coming
    BY DEF Coming
  <1>2. InRange'
    BY DEF InRange, Unsettled
  <1>3. Coming \in Nat
    BY ComingType
  <1> QED
    BY <1>1, <1>2, <1>3, RestShrinks

LEMMA ChangeShrinks ==
  ASSUME IInv, InRange, walk # NULL, ~Unsettled, NEW es, Change(es)
  PROVE  InRange' /\ (Unsettled' \/ WalkRest' < WalkRest)
  <1>1. Shape(walk) /\ IsFiniteSet(walk.todo) /\ Exact
    BY DEF IInv, InRange
  <1>2. walk.visiting /\ walk' = IF walk.kind = "each" THEN [walk EXCEPT !.visiting = FALSE]
                                 ELSE [walk EXCEPT !.visiting = FALSE, !.changed = TRUE,
                                                   !.start = {}, !.seen = {}]
    BY DEF Change
  <1>3. /\ Shape(walk)' /\ ~walk'.visiting /\ (walk'.kind # "each" => walk'.changed)
        /\ walk'.kind = walk.kind /\ walk'.todo = walk.todo
        /\ walk'.end = walk.end /\ walk'.cursor = walk.cursor
    BY <1>1, <1>2, ChangedFields
  <1>4. CASE walk.kind = "conflicts"
    BY <1>1, <1>3, <1>4 DEF InRange, Unsettled
  <1>5. CASE walk.kind # "conflicts"
    BY <1>2, <1>3, <1>5, SameToCome
  <1> QED
    BY <1>4, <1>5

LEMMA EachShrinks ==
  ASSUME IInv, InRange, walk # NULL, EachNext
  PROVE  InRange' /\ WalkRest' < WalkRest
  <1>1. PICK e \in walk.todo : walk' = [walk EXCEPT !.todo = @ \ {e}, !.visiting = TRUE]
    BY DEF EachNext
  <1>2. walk.kind = "each" /\ Shape(walk)
    BY DEF EachNext, Running, InRange
  <1>3. /\ Shape(walk)' /\ walk'.kind = walk.kind /\ walk'.end = walk.end
        /\ walk'.todo = walk.todo \ {e}
    BY <1>1, <1>2, VisitedFields
  <1> QED
    BY <1>2, <1>3, SomeLess

LEMMA BulkShrinks ==
  ASSUME IInv, InRange, walk # NULL, NEW e \in Path \X Stage, BulkTake(e) \/ BulkSkip(e)
  PROVE  InRange' /\ WalkRest' < WalkRest
  <1>1. e \in walk.todo /\ walk.kind # "conflicts" /\ Shape(walk)
    BY DEF BulkTake, BulkSkip, BulkRunning, Bulk, InRange
  <1>2. \E todo \in SUBSET walk.todo : \E seen, taken :
          /\ e \notin todo
          /\ walk' = [walk EXCEPT !.todo = todo, !.seen = seen, !.taken = taken]
    <2>1. CASE BulkTake(e)
      <3>1. walk' = [walk EXCEPT !.todo = walk.todo \ Of(e[1], walk.todo),
                                 !.seen = walk.seen \cup {e[1]},
                                 !.taken = walk.taken \cup {e[1]}]
        BY <2>1 DEF BulkTake
      <3>2. e \notin walk.todo \ Of(e[1], walk.todo)
        BY <1>1 DEF Of
      <3> QED
        BY <3>1, <3>2
    <2>2. CASE BulkSkip(e)
      <3>1. walk' = [walk EXCEPT !.todo = walk.todo \ {e}, !.seen = walk.seen \cup {e[1]}]
        BY <2>2 DEF BulkSkip
      <3>2. walk' = [walk EXCEPT !.todo = walk.todo \ {e}, !.seen = walk.seen \cup {e[1]},
                                 !.taken = walk.taken]
        BY <1>1, <3>1 DEF Shape
      <3> QED
        BY <3>2
    <2> QED
      BY <2>1, <2>2
  <1>3. PICK todo \in SUBSET walk.todo : \E seen, taken :
          /\ e \notin todo
          /\ walk' = [walk EXCEPT !.todo = todo, !.seen = seen, !.taken = taken]
    BY <1>2
  <1>4. /\ Shape(walk)' /\ walk'.kind = walk.kind /\ walk'.end = walk.end /\ walk'.todo = todo
    BY <1>1, <1>3 DEF Shape
  <1> QED
    BY <1>1, <1>3, <1>4, SomeLess

LEMMA ConflictShrinks ==
  ASSUME IInv, InRange, walk # NULL, ~Unsettled, ConflictNext
  PROVE  InRange' /\ WalkRest' < WalkRest
  <1>1. PICK e \in Ahead :
          walk' = [walk EXCEPT !.seen = @ \cup {e[1]}, !.cursor = Past(e),
                               !.again = @ \/ e[1] \in walk.seen, !.visiting = TRUE]
    BY DEF ConflictNext
  <1>2. /\ walk.kind = "conflicts" /\ e \in entries /\ Position(e) >= walk.cursor
        /\ UNCHANGED entries /\ Shape(walk) /\ ~walk.changed /\ IsFiniteSet(walk.todo)
        /\ walk.cursor \in 0..Cardinality(entries)
    BY <1>1 DEF ConflictNext, Running, Ahead, InRange, Unsettled
  <1> DEFINE c == Past(e)
             q == e[1]
             a == walk.again \/ q \in walk.seen
             k == Cardinality(entries)
  <1>3. k \in Nat /\ entries \subseteq Entry
    BY EntriesFinite
  <1>4. c \in 0..k /\ Position(e) \in Nat /\ c > Position(e)
    BY <1>2, <1>3, PastAdvances
  <1>5. walk' = [walk EXCEPT !.seen = @ \cup {q}, !.cursor = c, !.again = a, !.visiting = TRUE]
    BY <1>1
  <1>6. k' = k /\ k = Cardinality(entries)
    BY <1>2
  <1> HIDE DEF c, q, a, k
  <1>7. /\ Shape(walk)' /\ walk'.kind = walk.kind /\ walk'.end = walk.end
        /\ walk'.cursor = c /\ walk'.todo = walk.todo
    BY <1>2, <1>5 DEF Shape
  <1>8. c > walk.cursor
    BY <1>2, <1>3, <1>4, <1>6
  <1>9. InRange'
    BY <1>2, <1>4, <1>6, <1>7 DEF InRange
  <1>10. Coming = k - walk.cursor /\ Coming' = k - c
    BY <1>2, <1>6, <1>7 DEF Coming
  <1>11. Coming \in Nat /\ Coming' \in Nat /\ Coming' < Coming
    BY <1>2, <1>3, <1>4, <1>6, <1>8, <1>10
  <1> QED
    BY <1>7, <1>9, <1>11, RestShrinks

LEMMA EndShrinks ==
  ASSUME IInv, InRange, walk # NULL, ~Unsettled, walk.end = "no",
         NEW how, how # "no", Ends(how)
  PROVE  InRange' /\ WalkRest' < WalkRest
  <1>1. Shape(walk) /\ walk' = [walk EXCEPT !.end = how, !.visiting = FALSE] /\ UNCHANGED entries
    BY DEF Ends, InRange
  <1>2. /\ Shape(walk)' /\ ~walk'.visiting /\ walk'.end = how /\ walk'.kind = walk.kind
        /\ walk'.todo = walk.todo /\ walk'.cursor = walk.cursor
    BY <1>1, EndedFields
  <1> QED
    BY <1>1, <1>2, SameToCome

LEMMA WalkShrinks ==
  ASSUME IInv, InRange, walk # NULL, ~Unsettled, Next, walk' # NULL
  PROVE  InRange' /\ (UNCHANGED vars \/ Unsettled' \/ WalkRest' < WalkRest)
  <1>1. CASE Operations
    <2>1. ~\E p \in Path : Outside(p)
      BY DEF Outside
    <2>2. \E es : Change(es)
      BY <1>1, <2>1 DEF Operations, AddEntryByPath, AddEntryFromBuffer, StagePath, AddEntry,
         AddConflictEntry, RemoveConflictEntries, RemoveAllConflicts, RemoveEntry,
         RemoveEntryByPath, ReadTree, Read, RemoveEntriesInDirectory
    <2> QED
      BY <2>2, ChangeShrinks
  <1>2. CASE EachNext \/ \E e \in Path \X Stage : BulkTake(e) \/ BulkSkip(e)
    BY <1>2, EachShrinks, BulkShrinks
  <1>3. CASE ConflictNext
    BY <1>3, ConflictShrinks
  <1>4. CASE \/ EachOver \/ EachFails \/ ConflictNull \/ ConflictOver \/ ConflictFails
             \/ BulkOver \/ VisitThrows \/ BulkThrows
    BY <1>4, EndShrinks
    DEF EachOver, EachFails, ConflictNull, ConflictOver, ConflictFails, BulkOver, VisitThrows,
        BulkThrows, Running, BulkRunning
  <1>5. CASE Dead
    BY <1>5 DEF Dead, vars, InRange, Shape
  <1> QED
    BY <1>1, <1>2, <1>3, <1>4, <1>5
    DEF Next, Traversals, Return, ForEach, ForEachConflict, ForMatching, Begin

(* Once a visitor has changed the index of a for_each_conflict, that stays so. *)
LEMMA UnsettledStays ==
  ASSUME IInv, InRange, walk # NULL, Unsettled, [Next]_vars, walk' # NULL
  PROVE  InRange' /\ Unsettled'
  <1>1. /\ Shape(walk) /\ IsFiniteSet(walk.todo) /\ walk.kind = "conflicts" /\ walk.changed
        /\ "conflicts" \notin Bulk
    BY DEF InRange, Unsettled, Bulk
  <1>2. ASSUME Shape(walk)', walk'.kind = walk.kind, walk'.changed, walk'.todo = walk.todo
        PROVE  InRange' /\ Unsettled'
    BY <1>1, <1>2 DEF InRange, Unsettled
  <1>3. CASE Operations
    <2>1. \E es : Change(es)
      BY <1>3 DEF Operations, AddEntryByPath, AddEntryFromBuffer, StagePath, AddEntry, Outside,
         AddConflictEntry, RemoveConflictEntries, RemoveAllConflicts, RemoveEntry,
         RemoveEntryByPath, ReadTree, Read, RemoveEntriesInDirectory
    <2>2. walk' = IF walk.kind = "each" THEN [walk EXCEPT !.visiting = FALSE]
                  ELSE [walk EXCEPT !.visiting = FALSE, !.changed = TRUE, !.start = {}, !.seen = {}]
      BY <2>1 DEF Change
    <2> QED
      BY <1>1, <1>2, <2>2, ChangedFields
  <1>4. CASE ConflictNext
    <2>1. PICK e : walk' = [walk EXCEPT !.seen = @ \cup {e[1]}, !.cursor = Past(e),
                                        !.again = @ \/ e[1] \in walk.seen, !.visiting = TRUE]
      BY <1>4 DEF ConflictNext
    <2>2. Shape(walk)' /\ walk'.kind = walk.kind /\ walk'.changed = walk.changed
          /\ walk'.todo = walk.todo
      BY <1>1, <2>1 DEF Shape
    <2> QED
      BY <1>1, <1>2, <2>2
  <1>5. ASSUME NEW how, Ends(how)
        PROVE  InRange' /\ Unsettled'
    <2>1. walk' = [walk EXCEPT !.end = how, !.visiting = FALSE]
      BY <1>5 DEF Ends
    <2> QED
      BY <1>1, <1>2, <2>1, EndedFields
  <1>6. CASE ConflictNull \/ ConflictOver \/ ConflictFails \/ VisitThrows
    BY <1>5, <1>6 DEF ConflictNull, ConflictOver, ConflictFails, VisitThrows
  <1>7. CASE Dead \/ UNCHANGED vars
    BY <1>2, <1>1, <1>7 DEF Dead, vars
  <1> QED
    BY <1>1, <1>3, <1>4, <1>6, <1>7
    DEF Next, Traversals, Return, ForEach, ForEachConflict, ForMatching, Begin, EachNext, EachOver,
        EachFails, BulkTake, BulkSkip, BulkOver, BulkThrows, Running, BulkRunning

LEMMA BeginInRange ==
  ASSUME IInv, walk = NULL, Next, walk' # NULL
  PROVE  InRange'
  <1>1. entries \subseteq Entry /\ IsFiniteSet(entries) /\ Cardinality(entries) \in Nat
    BY EntriesFinite
  <1>2. IsFiniteSet(Entry) /\ IsFiniteSet({})
    <2>1. 1 \in Int /\ 0 \in Int /\ 3 \in Int /\ Paths \in Int
      BY IndexAssumption
    <2>2. IsFiniteSet(1..Paths) /\ IsFiniteSet(0..3)
      BY <2>1, FS_Interval, Zenon
    <2> QED
      BY <2>2, FS_Product, FS_EmptySet DEF Entry, Path
  <1>3. ASSUME NEW kind, NEW start, NEW todo, Begin(kind, start, todo), IsFiniteSet(todo)
        PROVE  InRange'
    <2>1. /\ walk' = [kind |-> kind, start |-> start, todo |-> todo, seen |-> {},
                      taken |-> {}, cursor |-> 0, visiting |-> FALSE,
                      changed |-> FALSE, again |-> FALSE, end |-> "no"]
          /\ UNCHANGED entries
      BY <1>3 DEF Begin
    <2>2. Shape(walk)' /\ walk'.todo = todo /\ walk'.cursor = 0
      BY <2>1 DEF Shape
    <2>3. 0 \in 0..Cardinality(entries)'
      BY <1>1, <2>1
    <2> QED
      BY <1>3, <2>2, <2>3 DEF InRange
  <1>4. \A kind \in Bulk : IsFiniteSet(Matched(kind))
    <2>1. \A kind \in Bulk : Matched(kind) \subseteq Entry
      BY <1>1 DEF Matched, Bulk, Entry
    <2> QED
      BY <1>2, <2>1, FS_Subset
  <1>5. ~\E es : Change(es)
    BY DEF Change
  <1>6. ~Operations
    BY <1>5 DEF Operations, AddEntryByPath, AddEntryFromBuffer, StagePath, Outside,
       AddEntry, AddConflictEntry, RemoveConflictEntries, RemoveAllConflicts, RemoveEntry,
       RemoveEntryByPath, ReadTree, Read, RemoveEntriesInDirectory
  <1>7. CASE ForEach \/ ForEachConflict \/ \E kind \in Bulk : ForMatching(kind)
    BY <1>1, <1>2, <1>3, <1>4, <1>7 DEF ForEach, ForEachConflict, ForMatching
  <1> QED
    BY <1>6, <1>7 DEF Next, Traversals, Return, EachNext, EachOver, EachFails, ConflictNext,
       ConflictNull, ConflictOver, ConflictFails, BulkTake, BulkSkip, BulkOver, VisitThrows,
       BulkThrows, Running, BulkRunning, Dead

LEMMA InRangeInvariant == Spec => []InRange
  <1>1. Init => InRange
    BY DEF Init, InRange
  <1>2. ASSUME IInv, InRange, [Next]_vars
        PROVE  InRange'
    <2>1. CASE UNCHANGED vars
      BY <1>2, <2>1 DEF vars, InRange, Shape
    <2>2. CASE walk' = NULL
      BY <2>2 DEF InRange
    <2>3. CASE Next /\ walk' # NULL
      BY <1>2, <2>3, WalkShrinks, UnsettledStays, BeginInRange
    <2> QED
      BY <1>2, <2>1, <2>2, <2>3
  <1> QED
    BY <1>1, <1>2, Inductive, PTL DEF Spec

(* A for_each has boundedly many steps, for any number of paths and whatever its
   visitor does to the index, and so have the bulk operations, and a
   for_each_conflict until its visitor changes the index. *)
THEOREM TraversalsEnd ==
  Spec => [](walk # NULL /\ ~Unsettled => WalkRest \in Nat) /\ WalkConverges
  <1>1. IInv /\ InRange => (walk # NULL /\ ~Unsettled => WalkRest \in Nat)
    BY ComingType
  <1>2. ASSUME IInv, InRange, [Next]_vars
        PROVE  [StepConverges]_vars
    <2> SUFFICES ASSUME walk # NULL, walk' # NULL, ~Unsettled', ~UNCHANGED vars
                 PROVE  WalkRest' < WalkRest
      BY DEF StepConverges
    <2>1. Next /\ ~Unsettled
      BY <1>2, UnsettledStays
    <2> QED
      BY <1>2, <2>1, WalkShrinks
  <1> QED
    BY <1>1, <1>2, Inductive, InRangeInvariant, PTL DEF Spec, WalkConverges

=============================================================================
