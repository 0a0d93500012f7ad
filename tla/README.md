# cppgit2 in TLA+

cppgit2 wraps the C library libgit2 in C++11 classes: one class per libgit2 type,
each holding the C pointer, with constructors, moves, copies and a destructor that
manage it; factories in `repository`; `for_each_*` traversals that call a
`std::function`; and exceptions for libgit2's error codes. The algorithms of git
(packing, diffing, merging, walking) are libgit2's and not in the repository. What
cppgit2 itself has to get right is *protocol*: who releases which pointer, when the
library is initialised, which address a callback gets, what a code means, in which
state an object is left when a call throws. That is what is specified here.

All paths are relative to the repository root, `src/`: `src/src/commit.cpp` is the
implementation of `commit`, `src/include/cppgit2/commit.hpp` its header and
`src/README.md` the documentation.

## 1. Inventory

| Component | State | Operations | Module |
|---|---|---|---|
| Resource wrappers: `object`, `commit`, `tree`, `tree::entry`, `tag`, `blob`, `reference`, `remote`, `index`, `config`, `diff`, `indexer`, `revwalk`, `repository`, `odb::stream`, ... | `c_ptr_`, `owner_` of each variable; libgit2's reference counts | constructors, factories, move, copy, `as_*`, `owner()`, destructors | `Ownership` |
| Library initialisation, `libgit2_api` | the initialisation count | base constructor and destructor of every wrapper | `Ownership` |
| Revision walk, `revwalk` | libgit2's roots and returned commits; `done_` | `push*`, `hide*`, `next`, `done`, `reset`, move | `RevWalk` |
| Reference transactions, `transaction`, `config::lock` | locks, queued updates, `c_ptr_` | create, lock, set, commit, destroy | `Transaction` |
| Traversals and callbacks, `for_each_*`, `tree::walk`, `set_progress_callback`, `add_hide_callback` | stack of traversals, open iterators, payload addresses | begin, visit, end, fail, throw, register | `Visitors` |
| Errors, `git_exception`, `throw_nonzero`, `throw_nonbool` | libgit2's last error of the thread; the exception on its way | every call of every function, catches, `clear` | `Calls`, `Facade` |
| String arrays and buffers, `strarray`, `data_buffer` | memory of their own or libgit2's | construct, fill, move, copy, destroy | `Ownership`; who frees a buffer: `Calls` |
| Options: `rebase::options`, `checkout::options`, `merge::options`, `clone::options`, ... | the C structure, `c_ptr_` pointing to it or into another's | setters, getters that return views, copies | `Options` |
| Rebase, `rebase`, `init_rebase`, `open_rebase` | the operations and the current one, in memory and on disk; HEAD, the index, the branch | `next`, `commit`, `finish`, `abort`, `index`; crash and open | `Rebase`, `RebaseList` |
| Object database, `odb`, `odb::stream` | none but the stream's pointer | `read`, `write`, `open_*stream`, `for_each` | `Ownership`, `Visitors`, `Facade` |
| Index and conflicts, `index` | entries by path and stage, in memory and in a file | add, remove, read, conflict operations, `for_each`, `for_each_conflict`, `*_entries_that_match` | `Index` |
| Object ids and signatures, `oid`, `signature` | bytes | construct, compare, convert | `Facade` |
| Configuration, `config` | levels, entries, lock | typed getters and setters, snapshot, lock | `Transaction` (lock), `Facade` |
| Repository facade, merge, checkout, diff, remotes, submodules, ... | none of their own | one libgit2 call each, tested and reported | `Facade` |
| libgit2 (external) | objects, walkers, locks, iterators | what the wrappers call | the parts each module needs |

How they interact. Every wrapper contains a `libgit2_api` base, so every constructor
and destructor also moves the initialisation count. Factories build an empty wrapper
marked as the user's, let libgit2 write the pointer into it, and throw if it fails;
unwinding then runs the destructor on the empty wrapper. Wrappers of one object
database share reference-counted objects. Traversals call back into the client,
which may use any other wrapper, start another traversal or throw. Transactions
exclude each other through locks on disk, also between processes. Every function
reports a failure through the one error slot of the thread, which every other call
may overwrite, a visitor's included. A rebase lives in memory, in files and in the
index at once, and only the last two survive its process.

What is hard here: an object's lifetime depends on a flag that moves, copies and
constructors have to keep up to date in every class separately; a pointer borrowed
from one wrapper outlives it; a call throws half-way and a destructor runs on what
is left; several sessions interleave between the locking, writing and unlocking of
references; a traversal runs inside another's visitor and an exception crosses both;
a callback is called after the function that registered it has returned; a walk is
used again after it ended; an error is read from the slot after other calls were
made; a rebase is cut off between two of its writes, and opened again by a program
that sees only the files; a visitor changes the index it is walking. None of this is
reached by the repository's tests, which cover `oid`, `signature` and `strarray`.
The list with line numbers is under "hazards" in `PROJECT.json`.

What correctness means, by component:

* wrappers - every reference libgit2 handed out is released exactly once, by a
  wrapper that owns it, and never while another owner still points at it;
* initialisation - the library is alive as long as any wrapper is, and is shut down
  when the last one is gone;
* revision walk - a loop `while (!walk.done())` sees exactly the commits asked for,
  each once, and ends if errors do;
* transactions - no update is lost, references are registers under locks, and no
  lock outlives every variable that could release it;
* traversals - each callback reaches its own function, everything opened is closed
  once, and a callback traversal that returns normally has shown what its visitor
  did not skip;
* errors - an exception is about the call that failed and says what that call said,
  a function that returns normally has hidden no failure, and what libgit2 allocated
  for it is freed on every way out;
* rebase - whatever is interrupted and retried, operations are committed once and in
  order, a branch that passes for rebased has everything that can be there, and the
  end of the operations is recognised;
* index - a path is staged or in conflict, traversals visit what they promise and
  end, and a bulk operation changes what its function allowed;
* options - the structures and texts libgit2 is given are alive when it reads them.

Where the code falls short of one of these, the property says exactly where, and the
disagreement is listed in section 4.

## 2. Modules

| Module | What it is |
|---|---|
| `Handles` | abstract specification: owning handles with exact counts |
| `Ownership` | the wrapper classes and `libgit2_api`, one action per constructor, assignment, factory step and destructor |
| `OwnershipProofs` | theorems about `Ownership`, and that it implements `Handles`; lemmas on the number of holders of an object |
| `Enumeration` | abstract specification: what an iterator gives the loop that uses it |
| `RevWalk` | `revwalk`, its client loop and the reuse of a walker |
| `RevWalkProofs` | theorems about `RevWalk`, and that it implements `Enumeration` |
| `Registers` | abstract specification: references as registers with locks |
| `Transaction` | transactions of several sessions on one repository |
| `TransactionProofs` | theorems about `Transaction`, and that it implements `Registers` |
| `Visitors`, `VisitorsProofs` | nested traversals, payload addresses, exceptions; theorems |
| `Options` | options variables in nested scopes, views, copies, borrowed texts |
| `OptionsProofs` | theorems about `Options` |
| `Calls` | how a function calls libgit2 and reports what went wrong; functions are programs |
| `Facade` | the programs: every function of cppgit2, by file, as a table of names and programs |
| `CallsProofs` | theorems about `Calls`, for any programs and for those of `Facade` |
| `RebaseList` | abstract specification: what a rebase promises about the repository |
| `Rebase` | `rebase`, its client, the files, crashes and retries |
| `RebaseProofs` | theorems about `Rebase`, and that it implements `RebaseList` |
| `Index`, `IndexProofs` | entries, conflicts, traversals and bulk operations; theorems |
| `MCOwnership`, `MCRevWalk`, `MCTransaction`, `MCVisitors`, `MCCalls` | instances for TLC: symmetry sets, the commit graph, the programs of `Facade`; the others are run as they are |

Order and composition: `Handles` is instantiated by `Ownership`, `Enumeration` by
`RevWalk`, `Registers` by `Transaction`, `RebaseList` by `Rebase`, and `MCCalls`
runs `Calls` on `Facade`. The other modules share no state: a component's wrapper is
constructed and destroyed as `Ownership` says, and what one of its calls throws is
what `Calls` says.

## 3. Models and code

### Ownership

A `Slot` is a C++ variable. `class[s]` is its type, `ptr[s]` its `c_ptr_`,
`owner[s]` its `owner_`; `building` holds the results of factories whose libgit2
call has not returned, because that call may run callbacks that use other wrappers.
`refs[o]` is how many references to the object at address `o` libgit2 expects to be
released: it is libgit2's side of the contract and may become negative when the code
releases too much. Addresses are reused: an address with no references left may be
handed out again, so a stale pointer can come to point at a new object.

The classes are grouped by the way the code treats them, and each group is a set:
`ObjectFamily` (one counted object), `DeepCopied` (copied with a `*_dup` that
allocates), `MoveOnly`, `ShallowCopied` (no copy of their own, so the implicit one),
`Flagless` (the destructor does not look at `owner_`), `NeverReleased` (options),
`ReleasesOnMoveAssign`, `UninitialisedOwner`, `Buffers` (`strarray` and
`data_buffer`, which hold a structure: its memory is `ptr`). One member stands for
every class of the same treatment; `PROJECT.json` maps each definition to one
class's lines.

`Uses` is what the client program does besides constructing, moving and destroying,
so that the properties can say for *which* clients they hold:

| flag | operation |
|---|---|
| `copy` | copy constructors and `copy()` |
| `entry_copy` | `tree::entry::copy()`, whose result does not own its pointer |
| `borrow` | `as_commit`, `as_tree`, `as_tag`, `as_blob`, `lookup_entry_by_*` |
| `owner` | `owner()`, which wraps a borrowed repository |
| `shallow_copy` | implicit copies of streams and options |
| `dup_fails` | a duplication inside a copy assignment fails |
| `adopt` | wrapping a pointer of the C API as the user's |
| `uninitialised` | constructors that leave `owner_` uninitialised |
| `visit` | the references `for_each_reference` and `for_each_branch` wrap |

`MoveAssigned` and `CopyAssigned` are the classes the client assigns.

### RevWalk

libgit2's walker is the roots, the hidden commits and those returned already; `done`
is the wrapper's `done_`. `next()` is three actions, one per outcome of
`git_revwalk_next`: a commit, `GIT_ITEROVER` (libgit2 blanks its walker), an error
(which the code does not look at, and which may come again and again: `failed` says
that this walk has met one). `item` is the oid it returns: when libgit2 does not
fill it, its bytes are uninitialised and may be any commit (`Unfilled`). The client
loop follows `samples/revwalk_from_head.cpp`, except that it looks at `done()`
before it uses the id, which the sample does not: its last round uses an oid nobody
filled. `Reuse` says how the client starts over: with `reset()`, by pushing again,
by assigning a new walker. Only `reset()` clears `done_`, so `stale` records whether
a walk was begun with it set; what such a walk does is among the disagreements of
section 4, and the properties speak about all others. The order of a walk is not
modelled, since sorting changes nothing the properties speak about.

`Enumeration` is what the loop may rely on: it is given what was asked for, each
commit once and no other, and is over when it has all. Under the mapping a commit
counts as given when `next()` returned it with `done_` clear, so that the unfilled
id of the last round is no element, and the enumeration is faulty from an error on,
or from its beginning if `done_` was set. Only then may it give anything else or end
early.

### Transaction

A session is a process with one transaction variable in a scope. `lock`, `live` and
`queued` are libgit2's. `commit` is not atomic: it writes and unlocks one reference
at a time (`CommitOne`) and may fail in between (`CommitThrows`). A failing call
throws; the session catches it inside the scope, or leaves the scope and the
destructor frees the transaction. `version[r]` counts the updates a reader of `r`
can see, `applied[r]` those written to it: `base` is what the session read when it
locked `r`, and the update it queues is computed from that, so an update made from a
stale value shows as a difference between the two. `abandoned` collects the
transactions to which the last pointer was lost: move assignment overwrites `c_ptr_`
without freeing it, and `config::lock` drops the one libgit2 returned. The
properties say that nothing else loses one.

`Registers` is the promise of `transaction.hpp`: who locks a reference reads it, and
an update swaps exactly the value read under that lock and gives up the lock in the
same step; a writer that goes away unlocks everything it can, and one may lose its
locks. Under the mapping the holder of a reference is the session whose variable has
the transaction that locked it. A `commit` that fails half-way is some `Update`s
followed by a `Leave`.

### Visitors

`stack` is the C++ stack of traversals, innermost last. A frame is an iterator loop
of cppgit2's, a foreach of libgit2 with a payload, or `tree::walk`, the one foreach
whose visitor's code reaches libgit2: a negative code stops it and is thrown
(`VisitorStops`), a positive one takes items away from it that are never shown
(`VisitorSkips`; they are in `skipped`). An error of an iterator ends its loop as
the end does (`IteratorFails`). The payload is an address, that is a position on the
stack, and `WrappedAt` is what `reinterpret_cast` finds there: the wrapper of the
frame that lies there now, or `Junk`. `open` counts what libgit2 opened for
traversals. `registered` is a callback that libgit2 keeps after the registering
function returned. `lost` counts the traversals that an exception of a visitor has
left: it passes the call that would have closed them.

### Options

An options class holds a libgit2 structure, `default_options_`, and a pointer
`c_ptr_` through which everything is read and written. The default constructor
points `c_ptr_` to `default_options_`; `checkout_options()` of enclosing options
returns options that point into the enclosing structure (`DeclareView`) and leave
their own uninitialised; the implicit copy constructor and assignment copy both
members, so a copy's `c_ptr_` points where the original's does. `set_*_options`
copies a structure with the pointers in it. Text setters keep their argument's
`c_str()`.

Variables live on a stack: `1..depth` are in scope, `Leave` destroys the last, and
pointers to or into it become `Wild`. An argument by value (`diff::compare_files`)
is a copy that dies before anything older. `OptionsKind` has one class that contains
options (`outer`) and one that is contained (`inner`), and each structure has one
text field, which stands for all of them. One part of the client's contract is
written into the guards of the setters, `Outlives`: a text must be older than the
variable that *holds* the structure written, which through a view or a copy is
another one than that whose setter is called.

Assignment has no such guard, as the code has none: any options may be assigned any
others of their class. What then goes wrong is recorded in two history variables:
`exposed` has the options whose `c_ptr_` was last taken from others when those
pointed to a younger variable or to nothing alive, and `spoilt` the structures an
assignment gave a text that does not outlive them (the owner's `default_options_` is
overwritten, which copies and views of it read), or the garbage of a view.
`TargetsAlive` and `TextAlive` say that nothing else ever dangles, and that a later
assignment or setter mends these. Nothing keeps a client of cppgit2 from such an
assignment; that is a disagreement of section 4. Copies made when a function returns
a local options variable are taken as elided, which the language permits and
compilers do; where they are not, the copy points to the dead local.

The setters of string arrays (`checkout.hpp:176`, `diff.hpp:265`, `fetch.hpp:93`)
keep the pointers of a temporary `strarray` that frees them before the setter
returns. That is wrong on every call with a non-empty vector, so `Options` leaves
the arrays out and the hazard list names them.

### Calls and Facade

A function of cppgit2 is a short straight line, if a loop counts as one step: call
libgit2, look at the code, allocate or free something. `Facade` writes every
function but those of section 6 down as a *program*, a sequence of the steps listed
in the header of `Calls`, under the file it is in; most are one of a dozen shapes (`Checked`,
`Filled`, `Array`, ...), each named and mapped to a function that has it. `Calls`
runs them: `stack` is the C++ stack of functions, `slot` libgit2's last error,
`raised` an exception on its way up, `held` one that a client caught and keeps.

A message is represented by the call that set it, `<<depth, step>>`, so that
`ExceptionTrue` can compare what `what()` says with what happened. When a function
is left, what its calls set becomes `Old`: a message nobody running can mean. A call
that fails may set the slot or leave it (`"silent"`), and one that succeeds may have
met an error inside (`SlotAfter`). Visitors call any function again, throw, or
catch; the program may `clear()` the slot between calls.

`Functions` names every function with its class, `MayHide` and `MayLose` list those
known to hide a failure and to lose memory; for cppgit2 these are `Hides` and
`Loses` of `Facade`, by name. A function that begins to drop a code, or whose
release a check begins to pass by, is not on the list and breaks `FailureSeen` or
`RawFreed`, in the run and in the proof.

In `Hides` are those that drop or convert the code: `is_shallow`,
`is_descendant_of`, `reference_has_reflog` (an error converted to bool is true),
`state` (-1 converted to an enum), `remove_message`, `tree_builder::clear` and
`filter`, the default constructors of `odb` and `index`, `revwalk::next`,
`config::size` and every loop over an iterator (`for_each_branch`,
`for_each_commit`, `for_each_reference*`, the two of `index`), which any code but 0
ends as its end does; and `config::value_as_string`, whose test is inverted. In
`Loses`: `find_merge_bases` never frees its `git_oidarray`; `signature` has no
destructor, so its constructors and the functions that make one
(`default_signature`, `author`, `committer`, `tagger`) never free it; the `match_*`
functions of `pathspec` lose the match list; `create_updated_tree`,
`lookup_multiple_attributes` and `normalize_name` lose their array when the check
throws; the loops lose their iterator when a visitor throws (`config::size` has no
visitor). A loop is one `visit` step here: what it does element by element is in
`Visitors`.

### Rebase and RebaseList

The state is what a crash distinguishes: `mem` is the `git_rebase` the wrapper
points to and is lost; `branch`, `head`, `onDisk`, `msgnum`, `index`, `unmerged` are
in files and stay. An operation is a number, and a list of commits is the sequence
of the operations they came from. `attached` says that there is a rebase while HEAD
is on the branch, as it is between two writes of `init_rebase` and of `abort()`, and
`Mixed` stands for the branch with commits made on top of it then. `Conflicting`
operations leave conflicts to resolve, `Contained` ones leave nothing to commit
because the new base has their changes.

Every call is split where a crash or an error can fall. `next()`: `NextMoves` writes
the number, `NextApplies` stages the changes, `NextThrowsEarly` and `NextThrows` are
an error before the file is written and after; `NextOver` is the `GIT_ITEROVER` that
`throw_nonzero` makes an exception of, and `AfterNext` is the client's only way to
tell the two apart. `finish()` moves the branch and then removes the files
(`Finish`, `FinishCleans`, `FinishThrows`). `abort()` attaches HEAD to the branch,
resets it with the index and the working directory, and removes the files
(`AbortAttaches`, `AbortResets`, `AbortCleans`); after an exception in between
(`AbortThrows`) the client may go on with what is still there, and after a crash the
rebase is opened again. Then, as after an `init_rebase` that was cut short
(`InitCut`), what is committed goes to the branch itself (`CommitAstray`).
`StartThrows` are failing calls of `init_rebase` and `open_rebase`. `Thrown` is the
code an exception carries. The client commits what is pending after it opened a
rebase, because the files do not say whether the last operation was committed; a
commit that was made already answers that nothing is left (`CommitApplied`).
`unsure` collects the operations whose `next()` was cut short: neither `next()`
called again nor `open_rebase` goes back to them, and `Complete` says that nothing
else is ever missing from a branch that passes for rebased.

`RebaseList` keeps the branch, the commits beside it (`head` of `Rebase`), whether
HEAD is on the branch (`cut`) and whether it is being put back (`aborting`). The
branch moves at once to all commits, and an abort that ends has put it back; stray
commits come on top of it only while `cut`, and never count as rebased. An in-memory
rebase is a stuttering.

### Index

`entries` is a set of `<<path, stage>>`, `work` the files of the working directory,
`walk` the traversal or bulk operation in progress. The operations may run on their
own or as what a visitor does, once per visit (`Change`); the functions of bulk
operations leave the index alone. `add_entry` passes any entry to `git_index_add`,
one side of a conflict beside a staged entry included, and is the one operation
`StageRule` excepts. `for_each` has a snapshot (`todo`); `for_each_conflict` has a
position in the live entries (`cursor`), and copies three sides without testing that
they are there. When one is not, because the conflict never had it or because a
visitor's change left the cursor inside the conflict, the loop dereferences a null
pointer (`ConflictNull`), and nothing is said about what follows (`end` is
`"dead"`). `AllSides` says that every conflict has its sides. Both loops end
normally at any code but 0: `EachFails` and `ConflictFails` are errors of libgit2's,
after which `end` is `"cut"` but the caller sees a normal return. The bulk
operations ask their function about the items libgit2 would change, `remove` about
each entry, the others about each path: 0 takes the path, more skips the item, less
stops and is thrown.

## 4. Runs

Passing runs:

| Run | Question | Instance |
|---|---|---|
| `Ownership_cover` | is anything released twice or too early, or the library's count wrong? | 3 variables, 3 addresses (1 for database objects), 10 classes, up to 3 references |
| `Ownership_handles` | do wrappers behave as owning handles (`Handles`), and never leak, for clients without the leaking operations? | 3 variables, 3 addresses, 10 classes |
| `Ownership_any` | what remains true of the initialisation count with the faulty operations too? | 3 variables, 2 addresses, 6 classes |
| `RevWalk` | is every walk an enumeration (`Enumeration`), complete and finite, however a walker is reused, and does its loop end if failures do? | a merge of two branches, 2 walks, any number of errors, every way to reuse |
| `Transaction` | are references registers with locks (`Registers`), updates kept, and all locks released but those of lost transactions? | 2 sessions, 2 references and the configuration, 3 transactions, 2 updates each |
| `Visitors` | does each callback reach its own visitor, is everything closed, is a normal return of a callback traversal complete but for what was skipped? | 2 items, 2 functions, depth 3, 4 open traversals |
| `Options` | when is libgit2 given a structure or a text that has died? | 4 variables in scope |
| `Rebase` | is a rebase in order, complete, atomic for readers, and finite, whatever is interrupted, fails and is retried? | 5 operations, two conflicting, one contained, 3 crashes, 3 errors, on disk and in memory |
| `Index` | who can make a path staged and in conflict, are conflict traversals complete, all finite, bulk operations exact, with visitors that change the index? | 2 paths with 4 stages each, every change at every visit |
| `Calls` | do exceptions tell the truth, which functions hide a failure, which lose memory? | every function of `Facade`, functions nested 3 deep through visitors |

Each of these finds its properties violated when the code is changed the way a
plausible bug would change it; the changes are the definitions marked "Mutant" in
the modules. `CHECK_DEADLOCK FALSE` is set in two configurations: for the
transactions, where abandoned locks and the bounded supply of transaction objects
and updates really do leave sessions with nothing to do, and for the rebase, whose
program ends.

Violations, each one disagreement between the code and a statement of its
documentation:

| Run | What TLC shows |
|---|---|
| `Transaction_config` | `config::lock` returns an empty transaction; the lock cannot be released |
| `Visitors_deferred` | registered callbacks are called through the address of a dead local |

Other disagreements met while modelling have no run of their own. They follow from
one call, or are kept apart from the properties by a client flag, a history variable
or the shape of a program.

* Ownership: move-assigning over an owning wrapper loses its reference
  (`commit.cpp:19`; all classes but `object` and `tree::entry`, also
  `strarray.cpp:46`); `owner()` wraps a borrowed repository in a wrapper that frees
  it (`object.cpp:83`); `indexer(c_ptr, owner)` ignores `owner` (`indexer.cpp:4`);
  references given to the visitors of `for_each_reference` and `for_each_branch` are
  never freed; both copies of an `odb::stream` free it; implicit copies shut the
  library down without having initialised it, possibly under other wrappers.
* Walks: after a walk ended, `done()` stays true for newly pushed roots
  (`revwalk.cpp:70`, against `revwalk.hpp:61`), and a new walker assigned to a
  finished one is done before it starts; the last `next()` returns an oid nobody
  filled, and `next()` drops errors, so that one that stays keeps the loop going for
  ever; an error ends an iterator traversal as if it were complete.
* Transactions: move-assigning over one leaves its locks behind.
* Options: an assignment or a copy leaves `c_ptr_` pointing into the other variable,
  which may die first, and overwrites the structure that views and copies of its
  target read.
* Errors: the functions in `Hides` and in `Loses`, listed in section 3. A libgit2
  call that fails without setting an error gives its exception an older message.
  `worktree::validate`, `repository::commondir` and `index::operator[]` lose the
  code. An exception that a bulk operation's own callback throws passes through
  libgit2's frames; their default argument is an empty function, which throws.
* Rebase: an operation whose `next()` failed half-way is skipped by the next one;
  `abort()` that throws or is cut short half-way leaves a rebase that, opened again,
  commits to the branch itself, or finishes with the branch where it was
  (`rebase.cpp:28`).
* Index: `for_each_conflict` dereferences a null pointer for a conflict without an
  ancestor or one side (`index.cpp:139-141`); a visitor that resolves the conflict
  it is given makes it pass the next, and one that stages an earlier path can bring
  it to the middle of one, to the same effect. `add_entry` can stage a path beside
  its conflict.
* Wrong on every call: `strarray(const git_strarray *)` writes one byte past each
  string (`strarray.cpp:30`); `patch::hunk` and `line_in_hunk` store their result
  through a copy of the pointer (`patch.cpp:71`); `data_buffer(nullptr)`
  dereferences its argument (`data_buffer.cpp:7`); and those of section 6.

Bounds, and why they are enough. Two wrappers sharing one object and a third taking
part in a move or a copy need three variables; a database object, and two separately
allocated ones, need three addresses, and they include the reuse of a released
address. The proofs of section 5 remove the bounds for every safety and action
property; what follows matters to liveness, and to how much the runs can say by
themselves. In `RevWalk` four commits in a diamond are the smallest graph in which a
commit is reachable in two ways; two walks are enough because a walk starts from
nothing but what the previous one left. Errors are not bounded there: `LoopEnds` is
about behaviours in which they stop. Two sessions contend for a lock and two
references make commits partial; more of either adds interleavings of the same kind;
the third transaction object is there so that work goes on after one was lost. Five
operations are a conflicting, a contained and another conflicting one between plain
ones, and three crashes and three errors hit one `next()`, one `commit()` and one
`finish()` or `abort()` of the same rebase. Two paths are enough for a visitor to
change the one it is not at, before or after it; the two in conflict make eight
positions. In `Calls`, a function at depth 3 is between the call and the check of
both an inner and an outer one, and the programs are those of the code, not a
sample. Depth 3 has a traversal with frames both above and below, and with 4 open
traversals one is lost while three are running. Four variables hold a text, outer
options, a view and a copy of it at once, or two outer options, a copy of one
assigned to the other, and a text.

Fairness. `RevWalk` assumes `WF(Walk)`: the client's loop keeps running, as any
sequential program does; what happens outside the loop, and whether its body breaks
off, is left open. `Transaction` assumes that a commit which was started goes on
(`WF(Commit)`; it is a loop inside one libgit2 call) and that a session leaves its
scope eventually (`SF(Destroy)`): the end of a scope, or an exception that passes
it, always runs the destructor in C++. `SF` rather than `WF` is needed because the
end of the scope is not continuously enabled - commits come in between. `Rebase`
assumes that the client's program keeps running (`WF(Calls)`), of which crashes and
the decision to abort are not part, but the steps of an abort that was begun are.
`Index` assumes that a traversal goes on (`WF(Traversals)`): visitors return, and
the loop is in one function. No fairness is assumed for `Ownership`, `Visitors`,
`Options` and `Calls`, which have no liveness properties.

## 5. Proofs

`OwnershipProofs`, for any number of variables, addresses and references:

* `TypeCorrect`: `Spec => []TypeOK`, for any client.
* `CoverSafe`: `Spec => []RefsCover`, for clients that do not use `owner`,
  `shallow_copy` and `dup_fails`, and do not use a flagless class other than through
  its own references (assumption `CoverClient`).
* `LeakFree`: `Spec => []NoLeak`, and `ImplementsHandles`: `Spec => HandleSpec`, for
  clients that also avoid the leaking operations (`HandleClient`).
* `LibraryAlive`: `Spec => []InitsExact` without `shallow_copy`; `LibraryReleased`:
  `Spec => []InitsBounded` for any client.

The argument. `RefsCover` compares a number with the size of a set that several
variables contribute to, and is not inductive by itself: a factory result holds no
pointer yet but will own the one it gets, and an unused variable must not hold one.
`Tidy` adds this. The inductive invariant is `TypeOK /\ Tidy /\ RefsCover`. Its step
is reduced to two facts about counting: when one variable takes another object, the
holders of the old one lose one and those of the new one gain one (`TakeCount`);
when one variable passes its object on to another, only what the second held before
loses a holder (`PassCount`). Each action is then one of the two. The same two facts
show that every step of `Ownership` is a `Take` or a `Pass` of `Handles`, or changes
neither holdings nor counts.

What a program can rely on follows from these:

* `OwnersAlive`: the object of a wrapper that owns one has a reference left
  (`CoverClient`).
* `ReferencesExact`: references and releasing wrappers are equally many. It is
  proved of `Handles` (`HandlesCount`) and carried over by `ImplementsHandles`
  (`HandleClient`).
* `CleanExit`: when the last wrapper is gone, every reference is released and the
  library is shut down (`HandleClient`).

`TransactionProofs`, for any number of sessions, references and transactions:

* `TypeCorrect`: `Spec => []TypeOK`.
* `UpdatesKept`: `Spec => []NoLostUpdate`, also when locks are leaked.
* `LocksOwned`: `Spec => []LocksAccounted`.
* `NoLockLost`: `Spec => []LockHasOwner`, if sessions neither move-assign
  transactions nor call `config::lock`.
* `ImplementsRegisters`: `Spec => RegisterSpec`.
* `HolderIsCurrent`: while a session can unlock a reference nobody else can, and
  what it read is current; proved of `Registers` (`RegistersCurrent`) and carried
  over.
* `CommitsEnd`: `Spec => CommitConverges`, below.

`NoLostUpdate` needs to know that the value from which an update is computed is
still the current one at the commit. The inductive invariant therefore adds
`OneVariable` (no two variables hold the same transaction), `LocksLive` (a lock is
held by a transaction that has not been freed) and `BaseCurrent` (a session whose
transaction holds a lock has seen the current version). `LocksLive` is what excludes
that a transaction object allocated anew at an old address inherits a lock. The same
invariant shows each step to be one of `Registers` or none: `OneVariable` makes the
holder unique, and `BaseCurrent` makes the update a swap of the value read.

`OptionsProofs`, for any number of variables in scope:

* `TypeCorrect`: `Spec => []TypeOK`.
* `PointersValid`: `Spec => []TargetsAlive`, and `TextsValid`: `Spec =>
  []TextAlive`.

That something is alive now says nothing about the next scope that ends. The
inductive invariant is an order instead: `c_ptr_` of options that are not `exposed`
points to a variable that is not younger (`Aimed`), and a text of a structure that
is not `spoilt` is older than the variable that holds the structure (`Sound`). The
lemma `FineKept` reduces a step to what it does to the variable it changes;
`DeclareFine`, `FieldsFine` and `SetterFine` are its common cases.

`RevWalkProofs`, for any commit graph, any number of walks and errors:
`TypeCorrect`, `WalksComplete` (`CompleteWalk`), `DoneIsExact` (`DoneExact`),
`NeverRepeats` (`NoRepeat`), `ImplementsEnumeration` (`EnumerationSpec`),
`OnlyAsked` (what `Enumeration` promises at any moment of a walk, carried over),
`LoopBounded`. That a finished loop has seen everything rests on what a walk in
progress keeps (`Halfway`: what libgit2 returned is what was visited, but for the
commit just handed out), and that on how a walk can begin: with `done_` cleared only
from a blank walker (`Flag`, `Fresh`).

`VisitorsProofs`, for any depth of nesting: `TypeCorrect`, `VisitorsFound`
(`RightFunction`), `TraversalsClosed` (`Closed`), `CallbacksComplete`
(`CallbackComplete`). The invariant says of every frame on the stack that its
payload is its own address and that each item is yet to be visited or has been.

`CallsProofs`, for any functions in which a code is judged right after its call, and
any depth: `TypeCorrect` and `ExceptionsAreTrue`; and for the functions of cppgit2,
the lists `Hides` and `Loses` and any depth: `FacadeHides` (`FailureSeen`) and
`FacadeLoses` (`RawFreed`). The properties speak of the moment a function is left;
the invariant says of every frame what makes them come true (`Sound`): a failure met
by a function that judges every code with a test that throws (`Honest`, a lemma's
notion of a program's shape) is judged by its next step, raw memory held by one that
lets nothing throw before it frees it (`Careful`) is freed by the next step or the
one after, and (`Fresh`) when a code is about to be judged the message in the slot
is that of the same call, because nothing runs in between. `FacadeKnown` then goes
through the tables of `Facade` and shows that every function has such a shape or is
on the list by its name; so a function added with another shape, or one whose
program changes, breaks the proof. `FacadeIsPrompt` shows `CallsAssumption` for
every function of `Facade`, so nothing about the code is assumed.

`RebaseProofs`, for any number of operations, crashes and errors, and any sets of
conflicting and contained ones: `TypeCorrect`, `CommitsInOrder` (`InOrder`),
`NothingMissing` (`Complete`), `ImplementsList` (`ListSpec`), `BranchInOrder` (what
`RebaseList` promises of the branch that readers see, carried over), `RebaseEnds`.
`Complete` is about the end; the inductive invariant (`Steady`) says where every
operation is at any time: those up to the current one are committed, contained,
unsure, or staged, which only the current one can be (`Picked`), in memory and on
disk alike; so the one that is staged is later than all that are committed, which
gives the order. While HEAD is on the branch (`attached`) nothing is committed
beside it and `finish()` does not move it, so that what an interrupted `abort()`
leaves can become `Mixed` but never pass for rebased.

`IndexProofs`, for any number of paths: `TypeCorrect`, `StagedOrConflicted`
(`StageRule`), `VisitsConflicts` (`ConflictsVisited`), `TakesAllowed` (`BulkExact`),
`TraversalsEnd`. For the conflict iterator the invariant (`Frontier`) says that the
cursor splits the entries between two paths: the conflicts before it are those seen,
as long as the visitor changes nothing. That `Past` moves it to the next such place
is an argument about cardinalities (`CursorSplits`, `PastPath`).

Termination. Liveness under fairness is outside the prover's reach, but most of what
it rests on is not: a quantity that is a natural number and that every step of the
loop makes smaller, so that the fairness of section 4 is what is left to assume.

* `LoopBounded` (for `LoopEnds`): commits to come and the end, for any finite graph.
  A failure of `git_revwalk_next` is the one step that brings the end no nearer,
  which is why `LoopEnds` has its premise.
* `RebaseEnds` (for `Ends`): the failures to come, then the distance to the last
  operation and the phase of the round (`Budget`, `Rest`); and until the program is
  done there is a call it can make (`CanGoOn`).
* `TraversalsEnd` (for `WalkEnds`): the entries, items or positions before the
  traversal. `for_each` goes over its snapshot whatever its visitor does;
  `for_each_conflict` is covered until its visitor changes the index, since one that
  adds conflicts ahead of the cursor keeps it going.
* `CommitsEnd` (for `LockReleased`): the set of locks a commit works off only
  shrinks, whatever other sessions do, and each step of the commit but its last
  shrinks it.

`RebaseEnds` rests on two bounds of its model: errors and crashes are finitely many
(`MaxErrors`, `MaxCrashes`); a visitor in `Index` makes one change per visit.

Assumptions: the named `ASSUME`s of the modules (null values are no objects, the set
of commits is finite, the bounds are numbers) and, where a theorem says so, what the
client does. TLC evaluates the former in every run.

Model-checked only: the liveness properties themselves (`LoopEnds`, `LockReleased`,
`Ends`, `WalkEnds`). All other properties of the passing runs are theorems.
Statements about `ENABLED` are not proved; `CanGoOn` spells out the guards instead.

## 6. Not modelled

* What libgit2 does inside one call: packing, diffing, merging, checking out,
  network traffic, parsing. The repository contains none of it.
* Functions that give libgit2 a pointer it cannot use, whatever it answers, so that
  there is no program to follow: those that construct their result with
  `data_buffer(nullptr)` (`config.cpp` 39-65, 137, 144, 207; `commit.cpp` 65-70);
  those that pass an uninitialised `git_buf` (`object::short_id`,
  `refspec::transform_reference`, `extract_signature_from_commit`); those that cast
  a pointer to a pointer (`analyze_merge`, `merge_commits`) or keep one to a dead
  local (`merge_file_from_index`, `merge.cpp` 4-13); `revparse`, which passes an
  uninitialised pointer; `revparse_to_object_and_reference`, which copies a
  reference that may be null (`repository.cpp:1565`); and
  `remote::reference_advertisement_list`.
* An iterator that could not be created: `for_each_branch` and its like ignore the
  code and run on an uninitialised pointer (`repository.cpp:695`), and
  `for_each_commit` pushes to its walker before it looks at the code of making it
  (`repository.cpp:829`).
* What `git_rebase_*` writes is as coarse as the properties need: the order of the
  files, HEAD, the branch and the index. A rebase reopened after an `abort()` that
  was cut short may finish with the branch where it was, or with stray commits on
  it: `Mixed` does not say which.
* Pathspecs and string arrays given to libgit2: the array is a temporary that is
  freed before it is read (`index.cpp:53`, `checkout.hpp:176`), so they are wrong
  whenever they are not empty.
* The contents of objects, messages, names and paths; comparison and shortening of
  ids, configuration levels, the bytes of a stream: single libgit2 calls that no
  state of cppgit2 depends on.
* Threads: cppgit2 has none and says nothing about them. Sessions in `Transaction`
  are processes.

## 7. Plan

Done, in this order: `Ownership` with `Handles`; `RevWalk`; `Transaction`;
`Visitors`; `Options`; `Rebase` with `RebaseList`; `Index`; `Calls` with `Facade`;
each with its proofs; then `Registers` and `Enumeration` with their refinements, the
termination arguments, and the theorems about `Facade`.

What may follow: an abstract specification of the index (a map from paths to a
staged file or a conflict) that `Index` implements; `Enumeration` for its
traversals, where a path may be given again by a visitor that adds it; the
termination of nested traversals in `Visitors`; visitors of `for_each_reference`
that delete the reference they are given; the string array setters of `Options` for
a code base in which the arrays live as long as the options; larger instances of
`Transaction` with three sessions.
