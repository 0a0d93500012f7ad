-------------------------- MODULE OwnershipProofs --------------------------
(***************************************************************************)
(* Proofs about Ownership, for every set of variables, every set of        *)
(* addresses and every client.  The first lemmas count the variables that  *)
(* hold an object.                                                         *)
(***************************************************************************)
EXTENDS Ownership, FiniteSetTheorems, TLAPS

(* The members of S to which h assigns o. *)
Holders(S, h, o) == {s \in S : h[s] = o}

HolderCount(S, h, o) == Cardinality(Holders(S, h, o))

(* One more or one less, when the object changing hands is o. *)
Unit(o, x) == IF o = x THEN 1 ELSE 0

(* d now holds x. *)
Assign(h, d, x) == [h EXCEPT ![d] = x]

(* d takes over what s holds, and s holds null. *)
PassOn(h, d, s, null) == [h EXCEPT ![d] = h[s], ![s] = null]

(* A finite set of variables has finitely many holders of any object. *)
LEMMA HoldersFinite ==
  ASSUME NEW S, IsFiniteSet(S), NEW h, NEW o
  PROVE  IsFiniteSet(Holders(S, h, o)) /\ HolderCount(S, h, o) \in Nat
  <1>1. Holders(S, h, o) \subseteq S
    BY DEF Holders
  <1>2. IsFiniteSet(Holders(S, h, o))
    BY <1>1, FS_Subset
  <1> QED
    BY <1>2, FS_CardinalityType DEF HolderCount

(* When d changes from h[d] to x, the holders of h[d] lose one and those of
   x gain one. *)
LEMMA TakeCount ==
  ASSUME NEW S, IsFiniteSet(S), NEW X, NEW h \in [S -> X], NEW d \in S,
         NEW x \in X, NEW g, g = Assign(h, d, x), NEW o
  PROVE  HolderCount(S, g, o)
           = HolderCount(S, h, o) - Unit(o, h[d]) + Unit(o, x)
  <1> DEFINE Rest == {s \in S \ {d} : h[s] = o}
  <1>1. IsFiniteSet(Rest) /\ Cardinality(Rest) \in Nat /\ d \notin Rest
    <2>1. Rest \subseteq S
      OBVIOUS
    <2> QED
      BY <2>1, FS_Subset, FS_CardinalityType
  <1>2. HolderCount(S, h, o) = Cardinality(Rest) + Unit(o, h[d])
    <2>1. CASE h[d] = o
      <3>1. Holders(S, h, o) = Rest \cup {d}
        BY <2>1 DEF Holders
      <3> QED
        BY <2>1, <3>1, <1>1, FS_AddElement DEF HolderCount, Unit
    <2>2. CASE h[d] # o
      <3>1. Holders(S, h, o) = Rest
        BY <2>2 DEF Holders
      <3> QED
        BY <2>2, <3>1, <1>1 DEF HolderCount, Unit
    <2> QED
      BY <2>1, <2>2
  <1>3. HolderCount(S, g, o) = Cardinality(Rest) + Unit(o, x)
    <2>1. CASE x = o
      <3>1. Holders(S, g, o) = Rest \cup {d}
        BY <2>1 DEF Holders, Assign
      <3> QED
        BY <2>1, <3>1, <1>1, FS_AddElement DEF HolderCount, Unit
    <2>2. CASE x # o
      <3>1. Holders(S, g, o) = Rest
        BY <2>2 DEF Holders, Assign
      <3>2. HolderCount(S, g, o) = Cardinality(Rest)
        BY <3>1 DEF HolderCount
      <3>3. Unit(o, x) = 0
        BY <2>2 DEF Unit
      <3> HIDE DEF Rest
      <3> QED
        BY <3>2, <3>3, <1>1
    <2> QED
      BY <2>1, <2>2
  <1>4. Unit(o, x) \in Int /\ Unit(o, h[d]) \in Int
    BY DEF Unit
  <1> QED
    BY <1>1, <1>2, <1>3, <1>4

(* When s passes what it holds on to d, only the object d held before loses
   a holder. *)
LEMMA PassCount ==
  ASSUME NEW S, IsFiniteSet(S), NEW X, NEW h \in [S -> X], NEW d \in S,
         NEW s \in S, d # s, NEW null \in X, NEW o, o # null,
         NEW f, f = PassOn(h, d, s, null)
  PROVE  HolderCount(S, f, o)
           = HolderCount(S, h, o) - Unit(o, h[d])
  <1> DEFINE g == Assign(h, s, null)
  <1>1. g \in [S -> X] /\ g[d] = h[d] /\ h[s] \in X
    BY DEF Assign
  <1>2. f = Assign(g, d, h[s])
    BY DEF Assign, PassOn
  <1>3. HolderCount(S, g, o) = HolderCount(S, h, o) - Unit(o, h[s]) + Unit(o, null)
    BY TakeCount
  <1>4. HolderCount(S, f, o) = HolderCount(S, g, o) - Unit(o, g[d]) + Unit(o, h[s])
    <2> HIDE DEF g
    <2> QED
      BY <1>1, <1>2, TakeCount
  <1>5. HolderCount(S, h, o) \in Nat
    BY HoldersFinite
  <1>6. Unit(o, null) = 0 /\ Unit(o, h[s]) \in Int /\ Unit(o, h[d]) \in Int
    BY DEF Unit
  <1> HIDE DEF g
  <1> QED
    BY <1>1, <1>2, <1>3, <1>4, <1>5, <1>6

(* Nobody holds an object that h never assigns. *)
LEMMA NoHolders ==
  ASSUME NEW S, NEW h, NEW o, \A s \in S : h[s] # o
  PROVE  HolderCount(S, h, o) = 0
  <1>1. Holders(S, h, o) = {}
    BY DEF Holders
  <1> QED
    BY <1>1, FS_EmptySet DEF HolderCount

-----------------------------------------------------------------------------

(* The three operations that make a wrapper release what it does not own:
   the owner() accessors, the implicit copies, and a duplication that fails
   in the middle of a copy assignment. *)
CoverClient == {"owner", "shallow_copy", "dup_fails"} \cap Uses = {}

LEMMA TypeInit == Init => TypeOK
  BY OwnershipAssumption DEF Init, TypeOK, Unused

LEMMA TypeStep == TypeOK /\ [Next]_vars => TypeOK'
  <1> SUFFICES ASSUME TypeOK, [Next]_vars
               PROVE  TypeOK'
    OBVIOUS
  <1> USE OwnershipAssumption DEF TypeOK, Ready, InUse, Usable
  <1>1. ASSUME NEW s \in Slot, NEW c \in Classes, DefaultConstruct(s, c)
        PROVE  TypeOK'
    BY <1>1 DEF DefaultConstruct, Construct, InitOne
  <1>2. ASSUME NEW s \in Slot, NEW c \in Classes, BeginFactory(s, c)
        PROVE  TypeOK'
    BY <1>2 DEF BeginFactory, Construct, InitOne
  <1>3. ASSUME NEW s \in Slot, NEW c \in Classes, NEW o \in Obj, Adopt(s, c, o)
        PROVE  TypeOK'
    BY <1>3 DEF Adopt, Construct, InitOne, Acquire
  <1>22. ASSUME NEW s \in Slot, NEW c \in Classes, NEW o \in Obj, Fill(s, c, o)
         PROVE  TypeOK'
    BY <1>22 DEF Fill, Construct, InitOne, Acquire
  <1>4. ASSUME NEW s \in Slot, NEW c \in Classes, NEW o \in Obj,
               ConstructUninitialised(s, c, o)
        PROVE  TypeOK'
    BY <1>4 DEF ConstructUninitialised, Construct, InitOne, Acquire
  <1>21. ASSUME NEW s \in Slot, NEW o \in Obj, VisitReference(s, o)
         PROVE  TypeOK'
    BY <1>21 DEF VisitReference, Construct, InitOne, Acquire
  <1>5. ASSUME NEW s \in Slot, FactoryThrows(s)
        PROVE  TypeOK'
    BY <1>5 DEF FactoryThrows
  <1>6. ASSUME NEW s \in Slot, NEW o \in Obj, FactoryReturns(s, o)
        PROVE  TypeOK'
    BY <1>6 DEF FactoryReturns, Acquire
  <1>7. ASSUME NEW s \in Slot, Destroy(s)
        PROVE  TypeOK'
    BY <1>7 DEF Destroy, ReleaseHeld
  <1>8. ASSUME NEW d \in Slot, NEW s \in Slot, MoveConstruct(d, s)
        PROVE  TypeOK'
    BY <1>8 DEF MoveConstruct, InitOne
  <1>9. ASSUME NEW d \in Slot, NEW s \in Slot, MoveAssign(d, s)
        PROVE  TypeOK'
    BY <1>9 DEF MoveAssign, ReleaseHeld
  <1>10. ASSUME NEW d \in Slot, NEW s \in Slot, CopyShared(d, s)
         PROVE  TypeOK'
    BY <1>10 DEF CopyShared, Construct, InitOne, Acquire
  <1>11. ASSUME NEW d \in Slot, NEW s \in Slot, AsBlob(d, s)
         PROVE  TypeOK'
    BY <1>11 DEF AsBlob, Construct, InitOne, Acquire
  <1>12. ASSUME NEW d \in Slot, NEW s \in Slot, CopyBorrowedEntry(d, s)
         PROVE  TypeOK'
    BY <1>12 DEF CopyBorrowedEntry, Construct, InitOne, Unused
  <1>13. ASSUME NEW d \in Slot, NEW s \in Slot, ShallowCopy(d, s)
         PROVE  TypeOK'
    BY <1>13 DEF ShallowCopy, Construct
  <1>14. ASSUME NEW d \in Slot, NEW s \in Slot, CopyAssignBlob(d, s)
         PROVE  TypeOK'
    BY <1>14 DEF CopyAssignBlob, ReleaseHeld
  <1>15. ASSUME NEW d \in Slot, NEW s \in Slot, NEW o \in Obj, CopyDeep(d, s, o)
         PROVE  TypeOK'
    BY <1>15 DEF CopyDeep, Construct, InitOne, Acquire
  <1>16. ASSUME NEW d \in Slot, NEW s \in Slot, NEW o \in Obj, EntryCopy(d, s, o)
         PROVE  TypeOK'
    BY <1>16 DEF EntryCopy, Construct, InitOne, Acquire, Unused
  <1>17. ASSUME NEW d \in Slot, NEW s \in Slot, NEW o \in Obj,
                CopyAssignEntry(d, s, o)
         PROVE  TypeOK'
    BY <1>17 DEF CopyAssignEntry, Acquire
  <1>18. ASSUME NEW d \in Slot, NEW s \in Slot, NEW c \in Classes, Borrow(d, s, c)
         PROVE  TypeOK'
    BY <1>18 DEF Borrow, Construct, InitOne
  <1>19. ASSUME NEW d \in Slot, NEW s \in Slot, NEW r \in Slot, RepositoryOf(d, s, r)
         PROVE  TypeOK'
    BY <1>19 DEF RepositoryOf, Construct, InitOne, Unused
  <1>20. CASE UNCHANGED vars
    BY <1>20 DEF vars
  <1> QED
    BY <1>1, <1>2, <1>3, <1>4, <1>5, <1>6, <1>7, <1>8, <1>9, <1>10, <1>11,
       <1>12, <1>13, <1>14, <1>15, <1>16, <1>17, <1>18, <1>19, <1>20, <1>21,
       <1>22
    DEF Next, Create, Copy

(* Every variable of the model always has its type. *)
THEOREM TypeCorrect == Spec => []TypeOK
  <1> QED
    BY TypeInit, TypeStep, PTL DEF Spec

-----------------------------------------------------------------------------

(* Besides, the operations that lose a reference: move assignment of a class
   that does not release the old pointer, copy assignment of a tree entry,
   tree::entry::copy(), an indexer, a constructor that leaves owner_ unset, a
   reference handed to a visitor. *)
HandleClient ==
  /\ CoverClient
  /\ {"entry_copy", "uninitialised", "visit"} \cap Uses = {}
  /\ MoveAssigned \subseteq ReleasesOnMoveAssign
  /\ "tree_entry" \notin CopyAssigned
  /\ "adopt" \in Uses => "indexer" \notin Classes

(* One reference to `lost` is released and one to `gained` is taken ... *)
RefsExactly(lost, gained) ==
  \A o \in Obj : refs'[o] = refs[o] - Unit(o, lost) + Unit(o, gained)

(* ... or references are taken that no wrapper will release. *)
RefsAtLeast(lost, gained) ==
  \A o \in Obj : refs'[o] >= refs[o] - Unit(o, lost) + Unit(o, gained)

Counted(lost, gained) == /\ CoverClient => RefsAtLeast(lost, gained)
                         /\ HandleClient => RefsExactly(lost, gained)

(* A step after which only d holds something else. *)
TakeStep(d) == /\ Held' = Assign(Held, d, Held'[d])
               /\ Counted(Held[d], Held'[d])

(* A step in which s passes what it holds on to d. *)
PassStep(d, s) == /\ d # s
                  /\ Held' = PassOn(Held, d, s, NULL)
                  /\ Counted(Held[d], NULL)

LEMMA ClassesUsed == \A c \in Classes : c # Unused
  BY OwnershipAssumption DEF AllClasses, ObjectFamily, DeepCopied, MoveOnly,
     ShallowCopied, Unused

LEMMA HeldType == TypeOK => Held \in [Slot -> Obj \cup {NULL}]
  BY DEF TypeOK, Held

(* When the others hold what they held, d was assigned. *)
LEMMA OthersHold ==
  ASSUME NEW d \in Slot, \A z \in Slot \ {d} : Held'[z] = Held[z]
  PROVE  Held' = Assign(Held, d, Held'[d])
  BY DEF Held, Assign

(* A constructor runs in a variable that held nothing, and makes it hold what
   its destructor would release. *)
LEMMA ConstructHeld ==
  ASSUME TypeOK, Tidy, NEW s \in Slot, NEW c, NEW p, NEW w, c # Unused,
         Construct(s, c, p, w)
  PROVE  /\ s \notin InUse /\ InUse' = InUse \cup {s}
         /\ s \notin building
         /\ Held[s] = NULL
         /\ Held'[s] = IF p # NULL /\ Releases(c, w) THEN p ELSE NULL
         /\ Held' = Assign(Held, s, Held'[s])
  BY OwnershipAssumption
  DEF TypeOK, Tidy, InUse, Construct, Held, Owns, Assign

LEMMA ConstructTidy ==
  ASSUME TypeOK, Tidy, NEW s \in Slot, NEW c, NEW p, NEW w, c # Unused,
         Construct(s, c, p, w), UNCHANGED building
  PROVE  Tidy'
  BY OwnershipAssumption DEF TypeOK, Tidy, InUse, Construct, Releases

(* The constructors, one by one: the reference taken is the one the new
   wrapper will release. *)
LEMMA CreateStep ==
  ASSUME TypeOK, Tidy, NEW s \in Slot, Create(s)
  PROVE  TakeStep(s) /\ Tidy'
  <1> USE OwnershipAssumption, ClassesUsed, ConstructHeld
      DEF TakeStep, Counted, RefsExactly, RefsAtLeast, Unit, TypeOK
  <1>1. ASSUME NEW c \in Classes, DefaultConstruct(s, c)
        PROVE  TakeStep(s) /\ Tidy'
    BY <1>1, ConstructTidy DEF DefaultConstruct
  <1>2. ASSUME NEW c \in Classes, BeginFactory(s, c)
        PROVE  TakeStep(s) /\ Tidy'
    <2>1. TakeStep(s)
      BY <1>2 DEF BeginFactory
    <2>2. Tidy'
      BY <1>2 DEF BeginFactory, Tidy, InUse, Construct, Releases
    <2> QED
      BY <2>1, <2>2
  <1>3. ASSUME NEW c \in Classes, NEW o \in Obj, Adopt(s, c, o)
        PROVE  TakeStep(s) /\ Tidy'
    BY <1>3, ConstructTidy
    DEF Adopt, Acquire, HandleClient, Releases, NeverReleased
  <1>6. ASSUME NEW c \in Classes, NEW o \in Obj, Fill(s, c, o)
        PROVE  TakeStep(s) /\ Tidy'
    BY <1>6, ConstructTidy DEF Fill, Acquire, Releases, NeverReleased, Buffers
  <1>4. ASSUME NEW c \in Classes, NEW o \in Obj, ConstructUninitialised(s, c, o)
        PROVE  TakeStep(s) /\ Tidy'
    BY <1>4, ConstructTidy DEF ConstructUninitialised, Acquire, HandleClient
  <1>5. ASSUME NEW o \in Obj, VisitReference(s, o)
        PROVE  TakeStep(s) /\ Tidy'
    BY <1>5, ConstructTidy DEF VisitReference, Acquire, HandleClient
  <1> QED
    BY <1>1, <1>2, <1>3, <1>4, <1>5, <1>6 DEF Create

(* The copies: constructors that take a reference of their own, constructors
   that borrow, and the two copy assignments. *)
LEMMA CopyStep ==
  ASSUME TypeOK, Tidy, NEW d \in Slot, NEW s \in Slot, Copy(d, s)
  PROVE  TakeStep(d) /\ Tidy'
  <1> USE OwnershipAssumption, ClassesUsed, ConstructHeld
      DEF TakeStep, Counted, RefsExactly, RefsAtLeast, Unit, TypeOK, Usable, Ready,
          InUse
  <1>1. CASE CopyShared(d, s)
    BY <1>1, ConstructTidy
    DEF CopyShared, Acquire, Releases, NeverReleased, ObjectFamily
  <1>2. CASE AsBlob(d, s)
    BY <1>2, ConstructTidy DEF AsBlob, Acquire, Releases, NeverReleased, Unused
  <1>3. CASE CopyBorrowedEntry(d, s)
    BY <1>3, ConstructTidy DEF CopyBorrowedEntry, Releases, Flagless
  <1>4. CASE ShallowCopy(d, s)
    BY <1>4, ConstructTidy DEF ShallowCopy, CoverClient, HandleClient
  <1>5. CASE CopyAssignBlob(d, s)
    <2> USE <1>5 DEF CopyAssignBlob, Releases, Flagless, NeverReleased
    <2>0. class' = class /\ \A z \in Slot \ {d} : ptr'[z] = ptr[z] /\ owner'[z] = owner[z]
      OBVIOUS
    <2>1. Held' = Assign(Held, d, Held'[d])
      <3>1. \A z \in Slot \ {d} : Held'[z] = Held[z]
        BY <2>0 DEF Held, Owns
      <3> QED
        BY <3>1, OthersHold
    <2>2. ASSUME CoverClient
          PROVE  RefsExactly(Held[d], Held'[d])
      BY <2>2 DEF CoverClient, Held, Owns
    <2>3. Tidy'
      BY DEF Tidy
    <2> QED
      BY <2>1, <2>2, <2>3 DEF HandleClient
  <1>6. ASSUME NEW o \in Obj, CopyDeep(d, s, o)
        PROVE  TakeStep(d) /\ Tidy'
    BY <1>6, ConstructTidy
    DEF CopyDeep, Acquire, Releases, NeverReleased, DeepCopied
  <1>7. ASSUME NEW o \in Obj, EntryCopy(d, s, o)
        PROVE  TakeStep(d) /\ Tidy'
    BY <1>7, ConstructTidy DEF EntryCopy, Acquire, HandleClient
  <1>8. ASSUME NEW o \in Obj, CopyAssignEntry(d, s, o)
        PROVE  TakeStep(d) /\ Tidy'
    <2> USE <1>8 DEF CopyAssignEntry, Releases, Flagless, NeverReleased
    <2>1. Held' = Assign(Held, d, Held'[d])
      BY DEF Held, Owns, Assign
    <2>2. ASSUME CoverClient
          PROVE  RefsAtLeast(Held[d], Held'[d])
      BY <2>2 DEF CoverClient, Held, Owns, Acquire
    <2>3. Tidy'
      BY DEF Tidy
    <2> QED
      BY <2>1, <2>2, <2>3 DEF HandleClient
  <1>9. ASSUME NEW c \in Classes, Borrow(d, s, c)
        PROVE  TakeStep(d) /\ Tidy'
    BY <1>9, ConstructTidy DEF Borrow, Releases, Flagless
  <1>10. ASSUME NEW r \in Slot, RepositoryOf(d, s, r)
         PROVE  TakeStep(d) /\ Tidy'
    BY <1>10, ConstructTidy DEF RepositoryOf, CoverClient, HandleClient
  <1> QED
    BY <1>1, <1>2, <1>3, <1>4, <1>5, <1>6, <1>7, <1>8, <1>9, <1>10 DEF Copy

(* The moves: the pointer and the duty to release it go together. *)
LEMMA MoveStep ==
  ASSUME TypeOK, Tidy, NEW d \in Slot, NEW s \in Slot,
         MoveConstruct(d, s) \/ MoveAssign(d, s)
  PROVE  PassStep(d, s) /\ Tidy'
  <1> USE OwnershipAssumption DEF TypeOK, Ready, InUse, Releases
  <1>1. CASE MoveConstruct(d, s)
    <2> USE <1>1 DEF MoveConstruct
    <2>1. d # s /\ Held[d] = NULL /\ UNCHANGED refs
      BY DEF Held, Owns, Tidy
    <2>2. Held' = PassOn(Held, d, s, NULL)
      BY DEF Held, Owns, PassOn, Tidy
    <2>3. Tidy'
      BY DEF Tidy
    <2> QED
      BY <2>1, <2>2, <2>3 DEF PassStep, Counted, RefsExactly, RefsAtLeast, Unit
  <1>2. CASE MoveAssign(d, s)
    <2> USE <1>2 DEF MoveAssign
    <2>1. d # s
      OBVIOUS
    <2>2. Held' = PassOn(Held, d, s, NULL)
      BY <2>1 DEF Held, Owns, PassOn
    <2>3. RefsAtLeast(Held[d], NULL)
      BY DEF RefsAtLeast, ReleaseHeld, Unit, Held, Owns
    <2>4. HandleClient => RefsExactly(Held[d], NULL)
      BY DEF RefsExactly, ReleaseHeld, Unit, Held, Owns, HandleClient
    <2>5. Tidy'
      BY DEF Tidy
    <2> QED
      BY <2>1, <2>2, <2>3, <2>4, <2>5 DEF PassStep, Counted
  <1> QED
    BY <1>1, <1>2

(* A factory that returns gives its result the reference it was handed; one
   that throws, and a destructor, give up what their variable held. *)
LEMMA FinishStep ==
  ASSUME TypeOK, Tidy, NEW s \in Slot,
         \/ FactoryThrows(s)
         \/ Destroy(s)
         \/ \E o \in Obj : FactoryReturns(s, o)
  PROVE  TakeStep(s) /\ Tidy'
  <1> USE OwnershipAssumption DEF TypeOK, Ready, InUse
  <1>1. Held' = Assign(Held, s, Held'[s])
    BY DEF FactoryThrows, Destroy, FactoryReturns, Held, Owns, Assign, Tidy
  <1>2. RefsExactly(Held[s], Held'[s])
    <2> USE DEF RefsExactly, Unit, Held, Owns
    <2>1. CASE FactoryThrows(s)
      BY <2>1 DEF FactoryThrows, Tidy
    <2>2. CASE Destroy(s)
      BY <2>2 DEF Destroy, ReleaseHeld
    <2>3. ASSUME NEW o \in Obj, FactoryReturns(s, o)
          PROVE  RefsExactly(Held[s], Held'[s])
      BY <2>3 DEF FactoryReturns, Acquire, Tidy
    <2> QED
      BY <2>1, <2>2, <2>3
  <1>3. Tidy'
    BY DEF FactoryThrows, Destroy, FactoryReturns, Tidy
  <1>4. RefsAtLeast(Held[s], Held'[s])
    BY <1>2, HeldType DEF RefsExactly, RefsAtLeast, Unit
  <1> QED
    BY <1>1, <1>2, <1>3, <1>4 DEF TakeStep, Counted

(* Every step takes or passes. *)
LEMMA StepHeld ==
  ASSUME TypeOK, Tidy, Next
  PROVE  /\ (\E d \in Slot : TakeStep(d)) \/ (\E d, s \in Slot : PassStep(d, s))
         /\ Tidy'
  BY CreateStep, CopyStep, MoveStep, FinishStep DEF Next

-----------------------------------------------------------------------------

(* Owners counts the variables that Held says hold an object. *)
LEMMA OwnersHeld ==
  ASSUME NEW o \in Obj
  PROVE  /\ Cardinality(Owners(o)) = HolderCount(Slot, Held, o)
         /\ Cardinality(Owners(o))' = HolderCount(Slot, Held', o)
  <1>1. Owners(o) = Holders(Slot, Held, o) /\ Owners(o)' = Holders(Slot, Held', o)
    BY OwnershipAssumption DEF Owners, Owns, Holders, Held
  <1> QED
    BY <1>1 DEF HolderCount

(* How a step changes the number of owners of an object: by what the step
   releases and takes. *)
LEMMA OwnersStep ==
  ASSUME TypeOK, Tidy, Next
  PROVE  \E lost, gained \in Obj \cup {NULL} :
           /\ Counted(lost, gained)
           /\ \A o \in Obj : Cardinality(Owners(o))'
                               = Cardinality(Owners(o)) - Unit(o, lost) + Unit(o, gained)
  <1> DEFINE Value == Obj \cup {NULL}
  <1>0. IsFiniteSet(Slot) /\ NULL \in Value /\ \A o \in Obj : o # NULL
    BY OwnershipAssumption
  <1>1. Held \in [Slot -> Value] /\ Held' \in [Slot -> Value]
    <2>1. TypeOK'
      BY TypeStep
    <2> QED
      BY <2>1, HeldType DEF TypeOK, Held
  <1>2. ASSUME NEW d \in Slot, TakeStep(d), NEW o \in Obj
        PROVE  Cardinality(Owners(o))'
                 = Cardinality(Owners(o)) - Unit(o, Held[d]) + Unit(o, Held'[d])
    <2>1. Held[d] \in Value /\ Held'[d] \in Value /\ Held' = Assign(Held, d, Held'[d])
      BY <1>1, <1>2 DEF TakeStep
    <2>2. HolderCount(Slot, Held', o)
            = HolderCount(Slot, Held, o) - Unit(o, Held[d]) + Unit(o, Held'[d])
      <3> HIDE DEF Value
      <3> QED
        BY <1>0, <1>1, <2>1, TakeCount
    <2> QED
      BY <2>2, OwnersHeld
  <1>3. ASSUME NEW d \in Slot, NEW s \in Slot, PassStep(d, s), NEW o \in Obj
        PROVE  Cardinality(Owners(o))'
                 = Cardinality(Owners(o)) - Unit(o, Held[d]) + Unit(o, NULL)
    <2>1. HolderCount(Slot, Held', o) = HolderCount(Slot, Held, o) - Unit(o, Held[d])
      <3> HIDE DEF Value
      <3> QED
        BY <1>0, <1>1, <1>3, PassCount DEF PassStep
    <2>2. HolderCount(Slot, Held, o) \in Nat /\ Unit(o, NULL) = 0
          /\ Unit(o, Held[d]) \in Int
      BY <1>0, HoldersFinite DEF Unit
    <2> QED
      BY <2>1, <2>2, OwnersHeld
  <1>4. CASE \E d \in Slot : TakeStep(d)
    <2>1. PICK d \in Slot : TakeStep(d)
      BY <1>4
    <2>2. Held[d] \in Obj \cup {NULL} /\ Held'[d] \in Obj \cup {NULL}
      BY <1>1
    <2>3. Counted(Held[d], Held'[d])
      BY <2>1 DEF TakeStep
    <2> QED
      BY <1>2, <2>1, <2>2, <2>3
  <1>5. CASE \E d, s \in Slot : PassStep(d, s)
    <2>1. PICK d \in Slot, s \in Slot : PassStep(d, s)
      BY <1>5
    <2>2. Held[d] \in Obj \cup {NULL} /\ Counted(Held[d], NULL)
      BY <1>1, <2>1 DEF PassStep
    <2> QED
      BY <1>3, <2>1, <2>2
  <1> QED
    BY <1>4, <1>5, StepHeld

LEMMA OwnersFinite ==
  ASSUME NEW o
  PROVE  Cardinality(Owners(o)) \in Nat
  BY FS_Subset, FS_CardinalityType, OwnershipAssumption DEF Owners

(* A step that changes no variable changes no state function. *)
LEMMA Stutter ==
  ASSUME UNCHANGED vars
  PROVE  UNCHANGED <<TypeOK, Tidy, RefsCover, NoLeak, InUse, Held>>
  BY DEF vars, TypeOK, Tidy, RefsCover, NoLeak, InUse, Held, Owners, Owns

LEMMA EmptyStart ==
  ASSUME Init
  PROVE  Tidy /\ InUse = {} /\ \A o \in Obj : refs[o] = 0 /\ Owners(o) = {}
  BY OwnershipAssumption DEF Init, Tidy, InUse, Owners, Owns

(* No sequence of constructions, moves, copies, assignments, borrowings and
   destructions releases an object twice: as long as the client does not call
   the owner() accessors, copy a class through its implicit copy constructor,
   or meet a failing duplication, every wrapper that will release an object
   has a reference of its own to release. *)
THEOREM CoverSafe == ASSUME CoverClient PROVE Spec => []RefsCover
  <1> DEFINE IInv == TypeOK /\ Tidy /\ RefsCover
  <1>1. Init => IInv
    BY TypeInit, EmptyStart, FS_EmptySet DEF RefsCover
  <1>2. IInv /\ [Next]_vars => IInv'
    <2> SUFFICES ASSUME IInv, [Next]_vars
                 PROVE  IInv'
      OBVIOUS
    <2>1. CASE Next
      <3>1. PICK lost \in Obj \cup {NULL}, gained \in Obj \cup {NULL} :
              /\ RefsAtLeast(lost, gained)
              /\ \A o \in Obj : Cardinality(Owners(o))'
                    = Cardinality(Owners(o)) - Unit(o, lost) + Unit(o, gained)
        BY <2>1, OwnersStep DEF Counted
      <3>2. TypeOK'
        BY <2>1, TypeStep
      <3>3. ASSUME NEW o \in Obj
            PROVE  refs'[o] >= Cardinality(Owners(o))'
        BY <3>1, <3>2, OwnersFinite DEF RefsAtLeast, RefsCover, Unit, TypeOK
      <3> QED
        BY <2>1, <3>2, <3>3, StepHeld DEF RefsCover
    <2>2. CASE UNCHANGED vars
      BY <2>2, Stutter
    <2> QED
      BY <2>1, <2>2
  <1> QED
    BY <1>1, <1>2, PTL DEF Spec

(* ... and if it also avoids the operations that lose a reference, every
   reference handed to the client has a wrapper that will release it. *)
THEOREM LeakFree == ASSUME HandleClient PROVE Spec => []NoLeak
  <1> DEFINE IInv == TypeOK /\ Tidy /\ NoLeak
  <1>1. Init => IInv
    BY TypeInit, EmptyStart, FS_EmptySet DEF NoLeak
  <1>2. IInv /\ [Next]_vars => IInv'
    <2> SUFFICES ASSUME IInv, [Next]_vars
                 PROVE  IInv'
      OBVIOUS
    <2>1. CASE Next
      <3>1. PICK lost \in Obj \cup {NULL}, gained \in Obj \cup {NULL} :
              /\ RefsExactly(lost, gained)
              /\ \A o \in Obj : Cardinality(Owners(o))'
                    = Cardinality(Owners(o)) - Unit(o, lost) + Unit(o, gained)
        BY <2>1, OwnersStep DEF Counted
      <3>2. TypeOK'
        BY <2>1, TypeStep
      <3>3. ASSUME NEW o \in Obj
            PROVE  refs'[o] <= Cardinality(Owners(o))'
        BY <3>1, <3>2, OwnersFinite DEF RefsExactly, NoLeak, Unit, TypeOK
      <3> QED
        BY <2>1, <3>2, <3>3, StepHeld DEF NoLeak
    <2>2. CASE UNCHANGED vars
      BY <2>2, Stutter
    <2> QED
      BY <2>1, <2>2
  <1> QED
    BY <1>1, <1>2, PTL DEF Spec

(* For such a client the wrappers implement owning handles: the initial state
   is that of Handles and every step is a Take, a Pass or a stutter. *)
THEOREM ImplementsHandles == ASSUME HandleClient PROVE Spec => HandleSpec
  <1>1. Init => H!HInit
    BY OwnershipAssumption DEF Init, H!HInit, Held, Owns
  <1>2. TypeOK /\ Tidy /\ [Next]_vars => [H!HNext]_(H!hvars) /\ TypeOK' /\ Tidy'
    <2> SUFFICES ASSUME TypeOK, Tidy, [Next]_vars
                 PROVE  [H!HNext]_(H!hvars) /\ Tidy'
      BY TypeStep
    <2>1. CASE Next
      <3>1. TypeOK' /\ Held' \in [Slot -> Obj \cup {NULL}]
        BY <2>1, TypeStep DEF TypeOK, Held
      <3>2. ASSUME NEW d \in Slot, TakeStep(d)
            PROVE  H!Take(d, Held'[d]) /\ Held'[d] \in Obj \cup {NULL}
        BY <3>1, <3>2
        DEF TakeStep, Counted, RefsExactly, Unit, Assign, H!Take, H!Exchange, TypeOK
      <3>3. ASSUME NEW d \in Slot, NEW s \in Slot, PassStep(d, s)
            PROVE  H!Pass(d, s)
        BY <3>1, <3>3
        DEF PassStep, Counted, RefsExactly, Unit, PassOn, H!Pass, H!Exchange, TypeOK
      <3> QED
        BY <2>1, <3>2, <3>3, StepHeld DEF H!HNext
    <2>2. CASE UNCHANGED vars
      BY <2>2, Stutter DEF H!hvars, vars
    <2> QED
      BY <2>1, <2>2
  <1>3. Init => TypeOK /\ Tidy
    BY TypeInit, EmptyStart
  <1> QED
    BY <1>1, <1>2, <1>3, PTL DEF Spec, HandleSpec, H!HSpec

-----------------------------------------------------------------------------

(* A step constructs a wrapper, destroys one, or leaves the set of wrappers
   alone; only an implicit copy does not count the one it constructs. *)
Born(s) == /\ s \notin InUse /\ InUse' = InUse \cup {s}
           /\ \/ inits' = inits + 1
              \/ "shallow_copy" \in Uses /\ inits' = inits

Gone(s) == s \in InUse /\ InUse' = InUse \ {s} /\ inits' = inits - 1

LEMMA InUseStep ==
  ASSUME TypeOK, Tidy, Next
  PROVE  (\E s \in Slot : Born(s) \/ Gone(s)) \/ UNCHANGED <<InUse, inits>>
  <1> USE ClassesUsed DEF TypeOK
  <1>1. ASSUME NEW s \in Slot, Create(s)
        PROVE  Born(s)
    BY <1>1, ConstructHeld
    DEF Create, DefaultConstruct, BeginFactory, Adopt, Fill, ConstructUninitialised,
        VisitReference, InitOne, Born
  <1>2. ASSUME NEW s \in Slot, FactoryThrows(s) \/ Destroy(s)
        PROVE  Gone(s)
    BY <1>2 DEF FactoryThrows, Destroy, Gone, InUse, Tidy, Ready
  <1>3. ASSUME NEW s \in Slot, NEW o \in Obj, FactoryReturns(s, o)
        PROVE  UNCHANGED <<InUse, inits>>
    BY <1>3 DEF FactoryReturns, InUse
  <1>4. ASSUME NEW d \in Slot, NEW s \in Slot, MoveConstruct(d, s)
        PROVE  Born(d)
    BY <1>4 DEF MoveConstruct, InitOne, Born, InUse, Ready
  <1>5. ASSUME NEW d \in Slot, NEW s \in Slot, MoveAssign(d, s)
        PROVE  UNCHANGED <<InUse, inits>>
    BY <1>5 DEF MoveAssign, InUse
  <1>6. ASSUME NEW d \in Slot, NEW s \in Slot, Copy(d, s)
        PROVE  Born(d) \/ UNCHANGED <<InUse, inits>>
    <2>1. CASE CopyAssignBlob(d, s) \/ \E o \in Obj : CopyAssignEntry(d, s, o)
      BY <2>1 DEF CopyAssignBlob, CopyAssignEntry, InUse
    <2>2. CASE ShallowCopy(d, s)
      BY <2>2, ConstructHeld DEF ShallowCopy, Ready, InUse, Born
    <2>3. CASE CopyShared(d, s) \/ AsBlob(d, s) \/ CopyBorrowedEntry(d, s)
               \/ \E r \in Slot : RepositoryOf(d, s, r)
      BY <2>3, ConstructHeld
      DEF CopyShared, AsBlob, CopyBorrowedEntry, RepositoryOf, InitOne, Usable,
          Ready, InUse, Born, Unused
    <2>4. CASE \/ \E o \in Obj : CopyDeep(d, s, o) \/ EntryCopy(d, s, o)
               \/ \E c \in Classes : Borrow(d, s, c)
      BY <2>4, ConstructHeld
      DEF CopyDeep, EntryCopy, Borrow, InitOne, Usable, Ready, InUse, Born, Unused
    <2> QED
      BY <1>6, <2>1, <2>2, <2>3, <2>4 DEF Copy
  <1> QED
    BY <1>1, <1>2, <1>3, <1>4, <1>5, <1>6 DEF Next

(* How the number of wrappers changes with the set of wrappers. *)
LEMMA InUseCount ==
  ASSUME NEW s \in Slot
  PROVE  /\ Cardinality(InUse) \in Nat
         /\ Born(s) => Cardinality(InUse)' = Cardinality(InUse) + 1
         /\ Gone(s) => Cardinality(InUse)' = Cardinality(InUse) - 1
  <1>1. IsFiniteSet(InUse) /\ Cardinality(InUse) \in Nat
    BY FS_Subset, FS_CardinalityType, OwnershipAssumption DEF InUse
  <1>2. ASSUME Born(s) PROVE Cardinality(InUse') = Cardinality(InUse) + 1
    BY <1>1, <1>2, FS_AddElement DEF Born
  <1>3. ASSUME Gone(s) PROVE Cardinality(InUse') = Cardinality(InUse) - 1
    BY <1>1, <1>3, FS_RemoveElement DEF Gone
  <1> QED
    BY <1>1, <1>2, <1>3

(* As long as no class is copied by its implicit copy constructor, the
   library's initialisation count is the number of wrappers that exist, so
   the library lives as long as the first and the last of them. *)
THEOREM LibraryAlive ==
  ASSUME "shallow_copy" \notin Uses PROVE Spec => [](InitsExact /\ InitWhileAlive)
  <1> DEFINE IInv == TypeOK /\ Tidy /\ InitsExact
  <1>1. Init => IInv
    <2>1. Init => inits = 0
      BY DEF Init
    <2> QED
      BY <2>1, TypeInit, EmptyStart, FS_EmptySet DEF InitsExact
  <1>2. IInv /\ [Next]_vars => IInv'
    <2> SUFFICES ASSUME IInv, [Next]_vars
                 PROVE  IInv'
      OBVIOUS
    <2>1. CASE Next
      <3>1. InitsExact'
        <4>1. CASE \E s \in Slot : Born(s) \/ Gone(s)
          BY <4>1, InUseCount DEF InitsExact, Born, Gone
        <4>2. CASE UNCHANGED <<InUse, inits>>
          BY <4>2 DEF InitsExact
        <4> QED
          BY <2>1, <4>1, <4>2, InUseStep
      <3> QED
        BY <2>1, <3>1, TypeStep, StepHeld
    <2>2. CASE UNCHANGED vars
      BY <2>2, Stutter DEF vars, InitsExact, InUse
    <2> QED
      BY <2>1, <2>2
  <1>3. IInv => InitsExact /\ InitWhileAlive
    <2> SUFFICES ASSUME IInv, InUse # {}
                 PROVE  inits > 0
      BY DEF InitWhileAlive
    <2>1. IsFiniteSet(InUse) /\ Cardinality(InUse) \in Nat
      BY FS_Subset, FS_CardinalityType, OwnershipAssumption DEF InUse
    <2>2. Cardinality(InUse) # 0
      BY <2>1, FS_EmptySet
    <2> QED
      BY <2>1, <2>2 DEF InitsExact
  <1> QED
    BY <1>1, <1>2, <1>3, PTL DEF Spec

(* Whatever the client does, the library is initialised at most once per
   wrapper, so that it is shut down when the last wrapper is gone. *)
THEOREM LibraryReleased == Spec => []InitsBounded
  <1> DEFINE IInv == TypeOK /\ Tidy /\ InitsBounded
  <1>1. Init => IInv
    <2>1. Init => inits = 0
      BY DEF Init
    <2> QED
      BY <2>1, TypeInit, EmptyStart, FS_EmptySet DEF InitsBounded
  <1>2. IInv /\ [Next]_vars => IInv'
    <2> SUFFICES ASSUME IInv, [Next]_vars
                 PROVE  IInv'
      OBVIOUS
    <2>1. CASE Next
      <3>1. InitsBounded'
        <4>1. CASE \E s \in Slot : Born(s) \/ Gone(s)
          BY <4>1, InUseCount DEF InitsBounded, Born, Gone, TypeOK
        <4>2. CASE UNCHANGED <<InUse, inits>>
          BY <4>2 DEF InitsBounded
        <4> QED
          BY <2>1, <4>1, <4>2, InUseStep
      <3> QED
        BY <2>1, <3>1, TypeStep, StepHeld
    <2>2. CASE UNCHANGED vars
      BY <2>2, Stutter DEF vars, InitsBounded, InUse
    <2> QED
      BY <2>1, <2>2
  <1> QED
    BY <1>1, <1>2, PTL DEF Spec

-----------------------------------------------------------------------------
(* What a program that uses the wrappers can rely on. *)

(* What Handles is about: a count is the number of handles. *)
CountsHolders == \A o \in Obj : refs[o] = HolderCount(Slot, Held, o)

LEMMA HandlesCount == H!HSpec => []CountsHolders
  <1> DEFINE Value == Obj \cup {NULL}
             IInv == /\ Held \in [Slot -> Value]
                     /\ refs \in [Obj -> Int]
                     /\ CountsHolders
  <1>0. IsFiniteSet(Slot) /\ NULL \in Value /\ \A o \in Obj : o # NULL
    BY OwnershipAssumption
  <1>1. H!HInit => IInv
    BY <1>0, NoHolders DEF H!HInit, CountsHolders
  <1>2. IInv /\ [H!HNext]_(H!hvars) => IInv'
    <2> SUFFICES ASSUME IInv, [H!HNext]_(H!hvars)
                 PROVE  IInv'
      OBVIOUS
    <2>1. ASSUME NEW d \in Slot, NEW x \in Value, H!Take(d, x)
          PROVE  IInv'
      <3>1. /\ Held' = Assign(Held, d, x)
            /\ refs' = [o \in Obj |-> refs[o] - Unit(o, Held[d]) + Unit(o, x)]
        BY <2>1 DEF H!Take, H!Exchange, Assign, Unit
      <3>2. ASSUME NEW o \in Obj
            PROVE  HolderCount(Slot, Held', o)
                     = HolderCount(Slot, Held, o) - Unit(o, Held[d]) + Unit(o, x)
        <4> HIDE DEF Value
        <4> QED
          BY <1>0, <3>1, TakeCount
      <3>3. Held' \in [Slot -> Value] /\ refs' \in [Obj -> Int]
        BY <3>1 DEF Assign, Unit
      <3>4. ASSUME NEW o \in Obj
            PROVE  refs'[o] = HolderCount(Slot, Held', o)
        BY <3>1, <3>2 DEF CountsHolders
      <3> QED
        BY <3>3, <3>4 DEF CountsHolders
    <2>2. ASSUME NEW d \in Slot, NEW s \in Slot, H!Pass(d, s)
          PROVE  IInv'
      <3>1. d # s /\ Held' = PassOn(Held, d, s, NULL)
        BY <2>2 DEF H!Pass, PassOn
      <3>2. /\ \A o \in Obj : refs'[o] = refs[o] - Unit(o, Held[d])
            /\ refs' \in [Obj -> Int]
        BY <1>0, <2>2 DEF H!Pass, H!Exchange, Unit
      <3>3. ASSUME NEW o \in Obj
            PROVE  HolderCount(Slot, Held', o)
                     = HolderCount(Slot, Held, o) - Unit(o, Held[d])
        <4> HIDE DEF Value
        <4> QED
          BY <1>0, <3>1, PassCount
      <3>4. Held' \in [Slot -> Value]
        BY <1>0, <3>1 DEF PassOn
      <3> QED
        BY <3>2, <3>3, <3>4 DEF CountsHolders
    <2>3. CASE UNCHANGED H!hvars
      BY <2>3 DEF H!hvars, CountsHolders
    <2> QED
      BY <2>1, <2>2, <2>3 DEF H!HNext
  <1> HIDE DEF IInv
  <1>3. IInv => CountsHolders
    BY DEF IInv
  <1> QED
    BY <1>1, <1>2, <1>3, PTL DEF H!HSpec

(* The number of references libgit2 waits for is the number of wrappers that
   will release one, exactly: what Handles promises, carried over to the code
   by ImplementsHandles. *)
THEOREM ReferencesExact == ASSUME HandleClient PROVE Spec => []CountsHolders
  BY ImplementsHandles, HandlesCount, PTL DEF HandleSpec

(* The object of a wrapper that owns one has not been freed: its own reference
   is still there, whatever was destroyed, moved from and assigned before. *)
THEOREM OwnersAlive ==
  ASSUME CoverClient
  PROVE  Spec => [](\A s \in Slot : Owns(s) => ptr[s] \in Obj /\ refs[ptr[s]] > 0)
  <1>1. ASSUME TypeOK, RefsCover, NEW s \in Slot, Owns(s)
        PROVE  ptr[s] \in Obj /\ refs[ptr[s]] > 0
    <2>1. ptr[s] \in Obj /\ s \in Owners(ptr[s])
      BY <1>1 DEF Owns, Owners, TypeOK
    <2>2. IsFiniteSet(Owners(ptr[s]))
      BY FS_Subset, OwnershipAssumption DEF Owners
    <2>3. Cardinality(Owners(ptr[s])) \in Nat /\ Cardinality(Owners(ptr[s])) # 0
      BY <2>1, <2>2, FS_CardinalityType, FS_EmptySet
    <2> QED
      BY <1>1, <2>1, <2>3 DEF RefsCover, TypeOK
  <1>2. TypeOK /\ RefsCover
          => \A s \in Slot : Owns(s) => ptr[s] \in Obj /\ refs[ptr[s]] > 0
    BY <1>1
  <1> QED
    BY <1>2, TypeCorrect, CoverSafe, PTL

(* When the last wrapper is gone everything that libgit2 handed out has been
   released and the library is shut down: not one reference more or less,
   whatever the wrappers did in between. *)
THEOREM CleanExit ==
  ASSUME HandleClient
  PROVE  Spec => [](InUse = {} => inits = 0 /\ \A o \in Obj : refs[o] = 0)
  <1>1. CoverClient /\ "shallow_copy" \notin Uses
    BY DEF HandleClient, CoverClient
  <1>2. ASSUME TypeOK, Tidy, RefsCover, NoLeak, InitsExact, InUse = {}
        PROVE  inits = 0 /\ \A o \in Obj : refs[o] = 0
    <2>1. \A o \in Obj : Owners(o) = {}
      BY <1>2, OwnershipAssumption DEF Tidy, Owners, Owns
    <2> QED
      BY <1>2, <2>1, FS_EmptySet DEF TypeOK, RefsCover, NoLeak, InitsExact
  <1>3. Spec => []Tidy
    <2>1. TypeOK /\ Tidy /\ [Next]_vars => TypeOK' /\ Tidy'
      BY TypeStep, StepHeld, Stutter
    <2>2. Init => TypeOK /\ Tidy
      BY TypeInit, EmptyStart
    <2> QED
      BY <2>1, <2>2, PTL DEF Spec
  <1>4. TypeOK /\ Tidy /\ RefsCover /\ NoLeak /\ InitsExact
          => (InUse = {} => inits = 0 /\ \A o \in Obj : refs[o] = 0)
    BY <1>2
  <1>5. Spec => [](TypeOK /\ RefsCover /\ NoLeak /\ InitsExact)
    BY <1>1, TypeCorrect, CoverSafe, LeakFree, LibraryAlive, PTL
  <1> QED
    BY <1>3, <1>4, <1>5, PTL
=============================================================================
