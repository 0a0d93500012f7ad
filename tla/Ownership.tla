----------------------------- MODULE Ownership -----------------------------
(***************************************************************************)
(* The wrapper classes of cppgit2 and the resources they manage.           *)
(*                                                                         *)
(* Every wrapper is a C++ variable holding a libgit2 pointer (c_ptr_) and, *)
(* in most classes, a flag (owner_) that says whether the destructor       *)
(* releases the pointer.  All of them derive from libgit2_api, whose       *)
(* constructor and destructor count the initialisations of the library.    *)
(* One action is one constructor, assignment, destructor or factory step;  *)
(* a client program runs them in any order, and a factory's libgit2 call   *)
(* may run other wrappers' operations (through std::function callbacks)    *)
(* before it returns.                                                      *)
(*                                                                         *)
(* libgit2 is external: it is the number of references to each object that *)
(* its callers still have to release.  An address whose count is zero may  *)
(* be handed out again, so a pointer kept too long may name a new object.  *)
(***************************************************************************)
EXTENDS Integers, FiniteSets

CONSTANTS Slot,      \* the client's variables
          Obj,       \* addresses of libgit2 objects
          CacheObj,  \* the addresses used for objects of the object database
          NULL,      \* the null pointer
          Classes,   \* the wrapper classes this client uses
          MoveAssigned,  \* the classes it move-assigns
          CopyAssigned,  \* the classes it copy-assigns
          Uses,      \* the other operations it uses, see UseFlags
          MaxRefs    \* bound: references outstanding on one object

Unused == "unused"

(* The objects of the object database share one counted representation. *)
ObjectFamily == {"object", "commit", "tree", "tag", "blob"}

(* Copied by duplicating the object under a new address. *)
DeepCopied == {"reference", "remote", "tree_entry", "strarray"}

(* Neither copied nor reference counted. *)
MoveOnly == {"index", "config", "diff", "indexer", "revwalk", "repository", "data_buffer"}

(* No move or copy of their own: the implicit copy copies the pointer and
   skips the libgit2_api constructor. *)
ShallowCopied == {"stream", "options"}

AllClasses == ObjectFamily \cup DeepCopied \cup MoveOnly \cup ShallowCopied

(* Classes without owner_: the destructor releases any non-null pointer. *)
Flagless == {"blob", "repository", "stream", "strarray", "data_buffer"}

(* Classes with a structure instead of a pointer; ptr is the memory it holds. *)
Buffers == {"strarray", "data_buffer"}

(* The destructor of options releases nothing. *)
NeverReleased == {"options"}

(* Mutant: object::operator=(object&&) forgets to release, as the others do. *)
ReleasesOnlyEntries == {"tree_entry"}

(* The two classes whose move assignment releases the old pointer. *)
ReleasesOnMoveAssign == {"object", "tree_entry"}

(* Constructors that leave owner_ uninitialised: diff(buffer) and
   indexer(path, mode, odb, options). *)
UninitialisedOwner == {"diff", "indexer"}

UseFlags == {"copy", "dup_fails", "entry_copy", "borrow", "owner",
             "shallow_copy", "adopt", "uninitialised", "visit"}

ASSUME OwnershipAssumption ==
  /\ IsFiniteSet(Slot)
  /\ NULL \notin Obj
  /\ CacheObj \subseteq Obj
  /\ Classes \subseteq AllClasses
  /\ MoveAssigned \subseteq Classes \ ShallowCopied
  /\ CopyAssigned \subseteq Classes \cap {"blob", "tree_entry"}
  /\ Uses \subseteq UseFlags
  /\ MaxRefs \in Nat

VARIABLES class,     \* class[s]: the type of the wrapper in s, or Unused
          building,  \* the factory results whose libgit2 call has not returned
          ptr,       \* ptr[s]: c_ptr_
          owner,     \* owner[s]: owner_
          refs,      \* refs[o]: references libgit2 waits to be released
          inits      \* the library's initialisation count

vars == <<class, building, ptr, owner, refs, inits>>

-----------------------------------------------------------------------------

InUse == {s \in Slot : class[s] # Unused}

(* Mutant: the destructor does not look at owner_. *)
ReleasesAnything(c, w) == c \notin NeverReleased

(* What a destructor tests before it releases c_ptr_. *)
Releases(c, w) == c \notin NeverReleased /\ (c \in Flagless \/ w = "user")

Owns(s) == ptr[s] # NULL /\ Releases(class[s], owner[s])

Owners(o) == {s \in Slot : Owns(s) /\ ptr[s] = o}

Ready(s) == s \in InUse /\ s \notin building

(* A pointer the client may still dereference. *)
Usable(s) == Ready(s) /\ ptr[s] \in Obj /\ refs[ptr[s]] > 0

(* Bound on the operations that can go wrong: a program that has released
   something twice, or shut the library down too often, has no defined
   behaviour, so it is not given more such operations. *)
Defined == inits >= 0 /\ \A o \in Obj : refs[o] >= 0

(* What libgit2 may return for a request of class c: an object of the
   database may already be held, anything else is newly allocated. *)
Handed(c, o) == IF c \in ObjectFamily THEN o \in CacheObj /\ refs[o] < MaxRefs
                                      ELSE o \notin CacheObj /\ refs[o] = 0

Acquire(o) == refs' = [refs EXCEPT ![o] = @ + 1]

(* Mutant: a destructor that forgets to release. *)
ReleaseNothing(s) == UNCHANGED refs

(* The release a destructor or an assignment makes for the pointer in s. *)
ReleaseHeld(s) ==
  refs' = [o \in Obj |-> IF Owns(s) /\ o = ptr[s] THEN refs[o] - 1 ELSE refs[o]]

(* Mutant: a constructor that leaves owner_ out of its initialisers. *)
ConstructUnset(s, c, p, w) ==
  /\ class[s] = Unused
  /\ class' = [class EXCEPT ![s] = c]
  /\ ptr' = [ptr EXCEPT ![s] = p]
  /\ owner' = [owner EXCEPT ![s] = "unset"]

(* Run a constructor of class c in the unused variable s. *)
Construct(s, c, p, w) ==
  /\ class[s] = Unused
  /\ class' = [class EXCEPT ![s] = c]
  /\ ptr' = [ptr EXCEPT ![s] = p]
  /\ owner' = [owner EXCEPT ![s] = w]

(* Mutants: a constructor that misses the libgit2_api base, and one that
   initialises the library itself besides. *)
InitMissed == UNCHANGED inits
InitTwice == inits' = inits + 2

InitOne == inits' = inits + 1

-----------------------------------------------------------------------------

Init ==
  /\ class = [s \in Slot |-> Unused]
  /\ building = {}
  /\ ptr = [s \in Slot |-> NULL]
  /\ owner = [s \in Slot |-> "libgit2"]
  /\ refs = [o \in Obj |-> 0]
  /\ inits = 0

(* X::X(): a null pointer; object() marks it as the user's, and so does an
   index() - or odb() - whose allocation failed: nobody looks at its code.
   data_buffer() is declared and not defined. *)
DefaultConstruct(s, c) ==
  /\ c # "data_buffer"
  /\ Construct(s, c, NULL, IF c \in {"object", "index"} THEN "user" ELSE "libgit2")
  /\ InitOne
  /\ UNCHANGED <<building, refs>>

(* X result(nullptr, ownership::user), before the libgit2 call. *)
BeginFactory(s, c) ==
  /\ c \notin NeverReleased \cup {"data_buffer"}
  /\ Construct(s, c, NULL, "user")
  /\ building' = building \cup {s}
  /\ InitOne
  /\ UNCHANGED refs

(* The call stored the new pointer; result is returned in place or moved. *)
FactoryReturns(s, o) ==
  /\ s \in building
  /\ Handed(class[s], o)
  /\ building' = building \ {s}
  /\ ptr' = [ptr EXCEPT ![s] = o]
  /\ Acquire(o)
  /\ UNCHANGED <<class, owner, inits>>

(* The call failed: throw_nonzero throws and result is destroyed. *)
FactoryThrows(s) ==
  /\ s \in building
  /\ building' = building \ {s}
  /\ class' = [class EXCEPT ![s] = Unused]
  /\ owner' = [owner EXCEPT ![s] = "libgit2"]
  /\ inits' = inits - 1
  /\ UNCHANGED <<ptr, refs>>

(* X(c_ptr, ownership::user): the client hands over a reference it got from
   the C API.  indexer's constructor ignores the flag. *)
Adopt(s, c, o) ==
  /\ "adopt" \in Uses
  /\ c \notin Flagless \cup NeverReleased
  /\ Handed(c, o)
  /\ Construct(s, c, o, IF c = "indexer" THEN "libgit2" ELSE "user")
  /\ Acquire(o)
  /\ InitOne
  /\ UNCHANGED building

(* strarray(strings) copies the strings into memory of its own; data_buffer(&buf)
   takes the memory libgit2 has put into buf; index(), and odb() like it, has
   libgit2 allocate an index in memory. *)
Fill(s, c, o) ==
  /\ c \in Buffers \cup {"index"}
  /\ Handed(c, o)
  /\ Construct(s, c, o, "user")
  /\ Acquire(o)
  /\ InitOne
  /\ UNCHANGED building

(* diff(buffer), indexer(path, ...): owner_ is whatever was in memory. *)
ConstructUninitialised(s, c, o) ==
  /\ "uninitialised" \in Uses
  /\ c \in UninitialisedOwner
  /\ Handed(c, o)
  /\ \E w \in {"user", "libgit2"} : Construct(s, c, o, w)
  /\ Acquire(o)
  /\ InitOne
  /\ UNCHANGED building

(* for_each_reference, for_each_branch: the iterator hands out a reference the
   caller has to free, and the payload wraps it as libgit2's. *)
VisitReference(s, o) ==
  /\ "visit" \in Uses /\ "reference" \in Classes
  /\ Handed("reference", o)
  /\ Construct(s, "reference", o, "libgit2")
  /\ Acquire(o)
  /\ InitOne
  /\ UNCHANGED building

(* object::as_commit, as_tree, as_tag and tree::lookup_entry_by_*: a wrapper
   of class c around memory that another wrapper keeps alive. *)
Borrow(d, s, c) ==
  /\ "borrow" \in Uses
  /\ c \in Classes
  /\ Usable(s)
  /\ \/ class[s] = "object" /\ c \in {"commit", "tree", "tag"}
     \/ class[s] = "tree" /\ c = "tree_entry"
  /\ Construct(d, c, ptr[s], "libgit2")
  /\ InitOne
  /\ UNCHANGED <<building, refs>>

(* commit::owner() and its like: the repository the object in s belongs to,
   the one of some repository wrapper r, wrapped once more. *)
RepositoryOf(d, s, r) ==
  /\ "owner" \in Uses /\ Defined
  /\ Usable(s) /\ class[s] \in ObjectFamily \cup {"reference"}
  /\ Usable(r) /\ class[r] = "repository"
  /\ Construct(d, "repository", ptr[r], "libgit2")
  /\ InitOne
  /\ UNCHANGED <<building, refs>>

(* X(X&& other): take the pointer and the flag, null the source's pointer. *)
MoveConstruct(d, s) ==
  /\ Ready(s) /\ class[s] \notin ShallowCopied
  /\ class[d] = Unused
  /\ class' = [class EXCEPT ![d] = class[s]]
  /\ ptr' = [ptr EXCEPT ![d] = ptr[s], ![s] = NULL]
  /\ owner' = [owner EXCEPT ![d] = owner[s]]
  /\ InitOne
  /\ UNCHANGED <<building, refs>>

(* operator=(X&& other): does nothing when both hold the same pointer.  Only
   two classes release the pointer that is overwritten. *)
MoveAssign(d, s) ==
  /\ Ready(s) /\ Ready(d)
  /\ class[s] = class[d] /\ class[d] \in MoveAssigned
  /\ ptr[s] # ptr[d]
  /\ IF class[d] \in ReleasesOnMoveAssign THEN ReleaseHeld(d) ELSE UNCHANGED refs
  /\ ptr' = [ptr EXCEPT ![d] = ptr[s], ![s] = NULL]
  /\ owner' = [owner EXCEPT ![d] = owner[s]]
  /\ UNCHANGED <<class, building, inits>>

(* git_commit_dup and its like: one more reference to the same object. *)
CopyShared(d, s) ==
  /\ "copy" \in Uses
  /\ Usable(s) /\ class[s] \in ObjectFamily
  /\ refs[ptr[s]] < MaxRefs
  /\ Construct(d, class[s], ptr[s], "user")
  /\ Acquire(ptr[s])
  /\ InitOne
  /\ UNCHANGED building

(* object::as_blob: the blob constructor duplicates the reference. *)
AsBlob(d, s) ==
  /\ "borrow" \in Uses /\ "blob" \in Classes
  /\ Usable(s) /\ class[s] = "object"
  /\ refs[ptr[s]] < MaxRefs
  /\ Construct(d, "blob", ptr[s], "user")
  /\ Acquire(ptr[s])
  /\ InitOne
  /\ UNCHANGED building

(* git_reference_dup, git_remote_dup, git_tree_entry_dup: a new object. *)
CopyDeep(d, s, o) ==
  /\ "copy" \in Uses
  /\ Usable(s) /\ class[s] \in DeepCopied
  /\ class[s] = "tree_entry" => owner[s] = "user"
  /\ Handed(class[s], o)
  /\ Construct(d, class[s], o, "user")
  /\ Acquire(o)
  /\ InitOne
  /\ UNCHANGED building

(* tree::entry's copy constructor shares a null or borrowed pointer. *)
CopyBorrowedEntry(d, s) ==
  /\ "copy" \in Uses
  /\ Ready(s) /\ class[s] = "tree_entry"
  /\ ptr[s] = NULL \/ owner[s] = "libgit2"
  /\ Construct(d, "tree_entry", ptr[s], owner[s])
  /\ InitOne
  /\ UNCHANGED <<building, refs>>

(* tree::entry::copy(): the duplicate goes into a default-constructed entry,
   whose owner_ says libgit2. *)
EntryCopy(d, s, o) ==
  /\ "entry_copy" \in Uses
  /\ Usable(s) /\ class[s] = "tree_entry"
  /\ Handed("tree_entry", o)
  /\ Construct(d, "tree_entry", o, "libgit2")
  /\ Acquire(o)
  /\ InitOne
  /\ UNCHANGED building

(* blob::operator=(const blob&): release, then duplicate.  When the
   duplication fails the released pointer stays in c_ptr_. *)
CopyAssignBlob(d, s) ==
  /\ "blob" \in CopyAssigned
  /\ d # s /\ Ready(d) /\ Usable(s)
  /\ class[d] = "blob" /\ class[s] = "blob"
  /\ refs[ptr[s]] < MaxRefs
  /\ \/ /\ refs' = [o \in Obj |-> refs[o] - (IF o = ptr[d] THEN 1 ELSE 0)
                                          + (IF o = ptr[s] THEN 1 ELSE 0)]
        /\ ptr' = [ptr EXCEPT ![d] = ptr[s]]
     \/ "dup_fails" \in Uses /\ Defined /\ ReleaseHeld(d) /\ UNCHANGED ptr
  /\ UNCHANGED <<class, building, owner, inits>>

(* tree::entry::operator=(const entry&): sets owner_, then duplicates over
   the old pointer, which is not released.  When the duplication fails only
   owner_ has changed. *)
CopyAssignEntry(d, s, o) ==
  /\ "tree_entry" \in CopyAssigned
  /\ d # s /\ Ready(d) /\ Usable(s)
  /\ class[d] = "tree_entry" /\ class[s] = "tree_entry"
  /\ owner' = [owner EXCEPT ![d] = "user"]
  /\ \/ Handed("tree_entry", o) /\ Acquire(o) /\ ptr' = [ptr EXCEPT ![d] = o]
     \/ "dup_fails" \in Uses /\ Defined /\ UNCHANGED <<refs, ptr>>
  /\ UNCHANGED <<class, building, inits>>

(* The implicit copy constructor: same pointer, and the implicit copy of the
   libgit2_api base does not call git_libgit2_init. *)
ShallowCopy(d, s) ==
  /\ "shallow_copy" \in Uses /\ Defined
  /\ Ready(s) /\ class[s] \in ShallowCopied
  /\ Construct(d, class[s], ptr[s], owner[s])
  /\ UNCHANGED <<building, refs, inits>>

(* X::~X(), then libgit2_api::~libgit2_api(). *)
Destroy(s) ==
  /\ Ready(s)
  /\ ReleaseHeld(s)
  /\ class' = [class EXCEPT ![s] = Unused]
  /\ ptr' = [ptr EXCEPT ![s] = NULL]
  /\ owner' = [owner EXCEPT ![s] = "libgit2"]
  /\ inits' = inits - 1
  /\ UNCHANGED building

-----------------------------------------------------------------------------

Create(s) ==
  \/ \E c \in Classes : DefaultConstruct(s, c) \/ BeginFactory(s, c)
  \/ \E c \in Classes, o \in Obj :
       Adopt(s, c, o) \/ Fill(s, c, o) \/ ConstructUninitialised(s, c, o)
  \/ \E o \in Obj : VisitReference(s, o)

Copy(d, s) ==
  \/ CopyShared(d, s)
  \/ AsBlob(d, s)
  \/ CopyBorrowedEntry(d, s)
  \/ ShallowCopy(d, s)
  \/ CopyAssignBlob(d, s)
  \/ \E o \in Obj : CopyDeep(d, s, o) \/ EntryCopy(d, s, o) \/ CopyAssignEntry(d, s, o)
  \/ \E c \in Classes : Borrow(d, s, c)
  \/ \E r \in Slot : RepositoryOf(d, s, r)

Next ==
  \/ \E s \in Slot : Create(s) \/ FactoryThrows(s) \/ Destroy(s)
  \/ \E s \in Slot, o \in Obj : FactoryReturns(s, o)
  \/ \E d, s \in Slot : MoveConstruct(d, s) \/ MoveAssign(d, s) \/ Copy(d, s)

Spec == Init /\ [][Next]_vars

-----------------------------------------------------------------------------

TypeOK ==
  /\ class \in [Slot -> Classes \cup {Unused}]
  /\ building \in SUBSET Slot
  /\ ptr \in [Slot -> Obj \cup {NULL}]
  /\ owner \in [Slot -> {"user", "libgit2"}]
  /\ refs \in [Obj -> Int]
  /\ inits \in Int

(* An unused variable holds no pointer; an unfinished factory result holds
   none yet and will own the one it gets. *)
Tidy ==
  /\ \A s \in Slot \ InUse : ptr[s] = NULL
  /\ \A s \in building : /\ s \in InUse
                        /\ ptr[s] = NULL
                        /\ Releases(class[s], owner[s])

(* Every wrapper that will release an object still has a reference of its own
   to release: no sequence of constructions, moves, copies, assignments,
   borrowings and destructions releases an object twice or while another
   owner still points at it. *)
RefsCover == \A o \in Obj : refs[o] >= Cardinality(Owners(o))

(* Every reference handed to the client has a wrapper that will release it
   (README.md:726: the destructor frees it and cleans up properly). *)
NoLeak == \A o \in Obj : refs[o] <= Cardinality(Owners(o))

(* The initialisation count is the number of wrappers that exist. *)
InitsExact == inits = Cardinality(InUse)

(* The library is never shut down under a wrapper that is still alive. *)
InitWhileAlive == InUse # {} => inits > 0

(* Whatever the client does, the library is not initialised more often than
   there are wrappers: when the last one is gone the library is shut down. *)
InitsBounded == inits <= Cardinality(InUse)

(* What each wrapper holds, in the terms of the abstract specification. *)
Held == [s \in Slot |-> IF Owns(s) THEN ptr[s] ELSE NULL]

H == INSTANCE Handles WITH Handle <- Slot, Object <- Obj, Nothing <- NULL,
                           holds <- Held, count <- refs

(* For a client that stays with the operations that neither leak nor release
   what they do not own, the wrappers behave as owning handles. *)
HandleSpec == H!HSpec
=============================================================================
