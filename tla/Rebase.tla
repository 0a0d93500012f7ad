------------------------------- MODULE Rebase -------------------------------
(***************************************************************************)
(* The rebase class: a sequence of operations (commits to pick) applied to *)
(* a new base one next() and one commit() at a time.  The state lives      *)
(* three times: in the git_rebase the wrapper holds (mem), in the files of *)
(* .git/rebase-merge (onDisk, msgnum), and in HEAD and the index.  A       *)
(* process that dies leaves the last two, and repository::open_rebase      *)
(* makes a new git_rebase of them.  An in-memory rebase leaves nothing.    *)
(*                                                                         *)
(* Every call that fails throws a git_exception, also next() when the      *)
(* operations are used up (GIT_ITEROVER); the client has only the          *)
(* exception's code to tell the end from an error.                         *)
(*                                                                         *)
(* The client is a program that resolves what conflicts, commits what is   *)
(* pending before it goes on, and may give up at any time.  libgit2 is     *)
(* external: what is modelled of it is the order in which it writes, and   *)
(* that a call can throw, or the process die, between two writes.          *)
(***************************************************************************)
EXTENDS Integers, Sequences, Functions

CONSTANTS Size,         \* the number of operations
          Conflicting,  \* those whose patch does not apply cleanly
          Contained,    \* those whose changes the new base already has
          Orig,         \* the branch before it is rebased
          Mixed,        \* the branch with commits of the rebase on top of Orig
          NULL,         \* no git_rebase
          MaxCrashes,   \* bound: times the process dies
          MaxErrors     \* bound: libgit2 calls that fail for other reasons

Op == 1..Size

ASSUME RebaseAssumption ==
  /\ Size \in Nat
  /\ Conflicting \subseteq Op /\ Contained \subseteq Op
  /\ NULL \notin [at : Int, inMemory : BOOLEAN, patch : Int, commits : Seq(Int)]
  /\ Orig \notin Seq(Int) /\ Mixed \notin Seq(Int) /\ Orig # Mixed
  /\ MaxCrashes \in Nat /\ MaxErrors \in Nat

VARIABLES branch,    \* the branch: Orig, Mixed, or the operations it now consists of
          head,      \* the operations committed on the detached HEAD
          onDisk,    \* .git/rebase-merge exists
          msgnum,    \* the operation its msgnum file names, 0 before the first
          index,     \* the operation whose changes are staged, 0 for none
          unmerged,  \* the staged changes conflict
          attached,  \* there is a rebase, but HEAD is on the branch: init_rebase
                     \*   was cut short, or abort() has begun
          mem,       \* what c_ptr_ points to, or NULL
          pc,        \* where the client is
          unsure,    \* the operations whose next() failed or was cut short
          crashes, errors

disk == <<branch, head, onDisk, msgnum, index, unmerged, attached>>
vars == <<branch, head, onDisk, msgnum, index, unmerged, attached, mem, pc, unsure,
          crashes, errors>>

-----------------------------------------------------------------------------

(* The staged changes, of the index or of an in-memory rebase. *)
Patch == IF mem.inMemory THEN mem.patch ELSE index

(* The operations the new commits already contain. *)
Present == Contained \cup Range(IF mem.inMemory THEN mem.commits ELSE head)

(* Mutant: throw_nonzero constructs the exception without its code. *)
ThrownError(code) == "error"

(* The code of the exception that throw_nonzero makes of a return code. *)
Thrown(code) == code

(* What the client does when next() throws. *)
AfterNext(code) == IF Thrown(code) = "iterover" THEN "over" ELSE "failed"

(* What it does when commit() throws: unmerged means that conflicts are left,
   applied that there is nothing to commit, and anything else is retried. *)
AfterCommit(code) ==
  CASE Thrown(code) = "unmerged" -> "resolve"
    [] Thrown(code) = "applied"  -> "loop"
    [] OTHER                     -> "resume"

(* A call fails: something is modelled of it in the action only if it leaves
   something behind. *)
Fails == errors < MaxErrors /\ errors' = errors + 1

Dies == crashes < MaxCrashes /\ crashes' = crashes + 1

(* Where the client may call abort(). *)
CanAbort == pc \in {"loop", "resolve", "picked", "resume", "failed", "over"}

-----------------------------------------------------------------------------

Init ==
  /\ branch = Orig /\ head = <<>> /\ onDisk = FALSE /\ msgnum = 0
  /\ index = 0 /\ unmerged = FALSE /\ attached = FALSE
  /\ mem = NULL /\ pc = "start"
  /\ unsure = {} /\ crashes = 0 /\ errors = 0

(* repository::init_rebase: an in-memory rebase leaves the repository alone. *)
InitRebase(inMemory) ==
  /\ pc = "start" /\ ~onDisk
  /\ mem' = [at |-> 0, inMemory |-> inMemory, patch |-> 0, commits |-> <<>>]
  /\ onDisk' = ~inMemory
  /\ pc' = "loop"
  /\ msgnum' = 0 /\ head' = <<>> /\ index' = 0 /\ unmerged' = FALSE
  /\ attached' = FALSE /\ unsure' = {}
  /\ UNCHANGED <<branch, crashes, errors>>

(* init_rebase or open_rebase throws: libgit2 has removed what it wrote. *)
StartThrows ==
  /\ pc = "start" /\ Fails
  /\ UNCHANGED <<disk, mem, pc, unsure, crashes>>

(* The process dies in init_rebase, after the files were written and before
   HEAD is detached. *)
InitCut ==
  /\ pc = "start" /\ ~onDisk /\ Dies
  /\ onDisk' = TRUE /\ attached' = TRUE
  /\ msgnum' = 0 /\ head' = <<>> /\ index' = 0 /\ unmerged' = FALSE
  /\ unsure' = {}
  /\ UNCHANGED <<branch, mem, pc, errors>>

(* Mutant: the operation the files name is taken for committed. *)
OpenAfter ==
  /\ pc = "start" /\ onDisk
  /\ mem' = [at |-> msgnum, inMemory |-> FALSE, patch |-> 0, commits |-> <<>>]
  /\ pc' = "loop"
  /\ UNCHANGED <<disk, unsure, crashes, errors>>

(* repository::open_rebase: go on where the files say.  Whether the operation
   they name was committed they do not say, so the client commits first. *)
OpenRebase ==
  /\ pc = "start" /\ onDisk
  /\ mem' = [at |-> msgnum, inMemory |-> FALSE, patch |-> 0, commits |-> <<>>]
  /\ pc' = IF msgnum = 0 THEN "loop" ELSE "resume"
  /\ UNCHANGED <<disk, unsure, crashes, errors>>

(* next(), no operation left: git_rebase_next returns GIT_ITEROVER. *)
NextOver ==
  /\ pc = "loop" /\ mem.at = Size
  /\ pc' = AfterNext("iterover")
  /\ UNCHANGED <<disk, mem, unsure, crashes, errors>>

(* Mutant: the end is found one operation late. *)
NextMovesPast ==
  /\ pc = "loop" /\ mem.at <= Size
  /\ mem' = [mem EXCEPT !.at = @ + 1]
  /\ msgnum' = IF mem.inMemory THEN msgnum ELSE mem.at + 1
  /\ pc' = "applying"
  /\ UNCHANGED <<branch, head, onDisk, index, unmerged, attached, unsure, crashes, errors>>

(* next() first moves on, in memory and in msgnum (dying in between is dying
   before), ... *)
NextMoves ==
  /\ pc = "loop" /\ mem.at < Size
  /\ mem' = [mem EXCEPT !.at = @ + 1]
  /\ msgnum' = IF mem.inMemory THEN msgnum ELSE mem.at + 1
  /\ pc' = "applying"
  /\ UNCHANGED <<branch, head, onDisk, index, unmerged, attached, unsure, crashes, errors>>

(* What is then staged.  Changes that are there already leave nothing to
   commit; on the branch itself some may be there and some be undone. *)
Staged ==
  IF attached THEN {0, mem.at}
  ELSE IF mem.at \in Present THEN {0} ELSE {mem.at}

(* ... and then applies the patch. *)
NextApplies ==
  /\ pc = "applying"
  /\ pc' = "picked"
  /\ \E patch \in Staged :
       /\ unmerged' = (patch \in Conflicting)
       /\ IF mem.inMemory THEN mem' = [mem EXCEPT !.patch = patch] /\ UNCHANGED index
                          ELSE index' = patch /\ UNCHANGED mem
  /\ UNCHANGED <<branch, head, onDisk, msgnum, attached, unsure, crashes, errors>>

(* next() throws after it has moved on in memory, before msgnum is written ... *)
NextThrowsEarly ==
  /\ pc = "loop" /\ mem.at < Size /\ Fails
  /\ mem' = [mem EXCEPT !.at = @ + 1]
  /\ unsure' = unsure \cup {mem.at + 1}
  /\ pc' = AfterNext("error")
  /\ UNCHANGED <<disk, crashes>>

(* ... or after that.  Called again, it moves on once more. *)
NextThrows ==
  /\ pc = "applying" /\ Fails
  /\ unsure' = unsure \cup {mem.at}
  /\ pc' = AfterNext("error")
  /\ UNCHANGED <<disk, mem, crashes>>

(* The client edits the files and stages them; for an in-memory rebase it
   resolves the conflicts in what index() returns. *)
Resolve ==
  /\ pc \in {"picked", "resolve"} /\ unmerged
  /\ unmerged' = FALSE
  /\ pc' = "picked"
  /\ UNCHANGED <<branch, head, onDisk, msgnum, index, attached, mem, unsure, crashes, errors>>

(* Mutant: the changes stay staged after they were committed. *)
CommitKeepsPatch ==
  /\ pc \in {"picked", "resume"} /\ Patch # 0 /\ ~unmerged /\ ~attached
  /\ pc' = "loop"
  /\ IF mem.inMemory
     THEN mem' = [mem EXCEPT !.commits = Append(@, mem.patch)] /\ UNCHANGED head
     ELSE head' = Append(head, index) /\ UNCHANGED mem
  /\ UNCHANGED <<branch, onDisk, msgnum, index, unmerged, attached, unsure, crashes, errors>>

(* commit() makes a commit of the staged changes. *)
Commit ==
  /\ pc \in {"picked", "resume"} /\ Patch # 0 /\ ~unmerged /\ ~attached
  /\ pc' = "loop"
  /\ IF mem.inMemory
     THEN /\ mem' = [mem EXCEPT !.commits = Append(@, mem.patch), !.patch = 0]
          /\ UNCHANGED <<head, index>>
     ELSE /\ head' = Append(head, index)
          /\ index' = 0
          /\ UNCHANGED mem
  /\ UNCHANGED <<branch, onDisk, msgnum, unmerged, attached, unsure, crashes, errors>>

(* commit() when HEAD is on the branch commits there, also if no patch is
   staged: what is in the index was made for another commit. *)
CommitAstray ==
  /\ pc \in {"picked", "resume"} /\ ~unmerged /\ attached
  /\ pc' = "loop"
  /\ branch' = Mixed
  /\ index' = 0
  /\ UNCHANGED <<head, onDisk, msgnum, unmerged, attached, mem, unsure, crashes, errors>>

(* commit() throws because conflicts are left. *)
CommitUnmerged ==
  /\ pc \in {"picked", "resume"} /\ unmerged
  /\ pc' = AfterCommit("unmerged")
  /\ UNCHANGED <<disk, mem, unsure, crashes, errors>>

(* commit() throws because nothing is staged. *)
CommitApplied ==
  /\ pc \in {"picked", "resume"} /\ Patch = 0
  /\ pc' = AfterCommit("applied")
  /\ UNCHANGED <<disk, mem, unsure, crashes, errors>>

(* commit() throws for another reason. *)
CommitThrows ==
  /\ pc \in {"picked", "resume"} /\ ~unmerged /\ Fails
  /\ pc' = AfterCommit("error")
  /\ UNCHANGED <<disk, mem, unsure, crashes>>

(* The client goes on after an error of next(), with the same rebase ... *)
Retry ==
  /\ pc = "failed"
  /\ pc' = "loop"
  /\ UNCHANGED <<disk, mem, unsure, crashes, errors>>

(* ... or destroys it, to open it anew: ~rebase releases the memory only. *)
Drop ==
  /\ pc = "failed"
  /\ mem' = NULL
  /\ pc' = IF onDisk THEN "start" ELSE "done"
  /\ UNCHANGED <<disk, unsure, crashes, errors>>

(* finish() moves the branch to where HEAD is, unless the rebase is in memory, ... *)
Finish ==
  /\ pc = "over" /\ branch = Orig
  /\ pc' = "finishing"
  /\ branch' = IF mem.inMemory \/ attached THEN branch ELSE head
  /\ UNCHANGED <<head, onDisk, msgnum, index, unmerged, attached, mem, unsure, crashes,
                 errors>>

(* ... and removes the files. *)
FinishCleans ==
  /\ pc = "finishing"
  /\ pc' = "done"
  /\ onDisk' = FALSE
  /\ UNCHANGED <<branch, head, msgnum, index, unmerged, attached, mem, unsure, crashes,
                 errors>>

(* finish() throws before or in between; the client tries again. *)
FinishThrows ==
  /\ pc \in {"over", "finishing"} /\ ~mem.inMemory /\ Fails
  /\ pc' = "over"
  /\ UNCHANGED <<disk, mem, unsure, crashes>>

(* finish() of a rebase that had moved its branch finds that the branch is not
   where it was and throws; repository::cleanup_state removes the files. *)
FinishAgain ==
  /\ pc = "over" /\ branch # Orig
  /\ pc' = "done"
  /\ onDisk' = FALSE
  /\ UNCHANGED <<branch, head, msgnum, index, unmerged, attached, mem, unsure, crashes,
                 errors>>

(* abort() of an in-memory rebase does nothing. *)
AbortInMemory ==
  /\ CanAbort /\ mem.inMemory
  /\ pc' = "done"
  /\ UNCHANGED <<disk, mem, unsure, crashes, errors>>

(* abort() first puts HEAD back on the branch: nothing refers to the new
   commits any more, ... *)
AbortAttaches ==
  /\ CanAbort /\ ~mem.inMemory
  /\ pc' = "aborting"
  /\ attached' = TRUE /\ head' = <<>>
  /\ UNCHANGED <<branch, onDisk, msgnum, index, unmerged, mem, unsure, crashes, errors>>

(* Mutant: a branch that was moved already stays. *)
AbortKeepsBranch ==
  /\ pc = "aborting"
  /\ pc' = "cleaning"
  /\ index' = 0 /\ unmerged' = FALSE
  /\ UNCHANGED <<branch, head, onDisk, msgnum, attached, mem, unsure, crashes, errors>>

(* ... then resets the branch, also one that was moved already, and with it the
   index and the working directory ... *)
AbortResets ==
  /\ pc = "aborting"
  /\ pc' = "cleaning"
  /\ branch' = Orig
  /\ index' = 0 /\ unmerged' = FALSE
  /\ UNCHANGED <<head, onDisk, msgnum, attached, mem, unsure, crashes, errors>>

(* ... and removes the files. *)
AbortCleans ==
  /\ pc = "cleaning"
  /\ pc' = "done"
  /\ onDisk' = FALSE
  /\ UNCHANGED <<branch, head, msgnum, index, unmerged, attached, mem, unsure, crashes,
                 errors>>

(* abort() throws before, or in between.  The client can call it again, or go on
   with the rebase that is still there. *)
AbortThrows ==
  /\ CanAbort \/ pc \in {"aborting", "cleaning"}
  /\ ~mem.inMemory /\ Fails
  /\ pc' = "resume"
  /\ UNCHANGED <<disk, mem, unsure, crashes>>

(* The process dies, perhaps in the middle of a call. *)
Crash ==
  /\ mem # NULL /\ pc # "done" /\ Dies
  /\ mem' = NULL
  /\ pc' = "start"
  /\ unsure' = IF pc = "applying" THEN unsure \cup {mem.at} ELSE unsure
  /\ UNCHANGED <<disk, errors>>

Calls ==
  \/ \E m \in BOOLEAN : InitRebase(m)
  \/ OpenRebase \/ StartThrows
  \/ NextOver \/ NextMoves \/ NextApplies \/ NextThrowsEarly \/ NextThrows
  \/ Resolve
  \/ Commit \/ CommitAstray \/ CommitUnmerged \/ CommitApplied \/ CommitThrows
  \/ Retry \/ Drop
  \/ Finish \/ FinishCleans \/ FinishThrows \/ FinishAgain
  \/ AbortResets \/ AbortCleans

(* The client need not give up, nor does anything have to fail. *)
GivesUp == AbortInMemory \/ AbortAttaches \/ AbortThrows

Next == Calls \/ GivesUp \/ InitCut \/ Crash

(* The client's program keeps running. *)
Spec == Init /\ [][Next]_vars /\ WF_vars(Calls)

-----------------------------------------------------------------------------

TypeOK ==
  /\ branch \in {Orig, Mixed} \cup Seq(Op)
  /\ head \in Seq(Op)
  /\ onDisk \in BOOLEAN /\ unmerged \in BOOLEAN /\ attached \in BOOLEAN
  /\ msgnum \in 0..Size /\ index \in 0..Size
  /\ mem = NULL \/ mem \in [at : 0..Size, inMemory : BOOLEAN, patch : 0..Size,
                            commits : Seq(Op)]
  /\ pc \in {"start", "loop", "applying", "picked", "resolve", "resume", "failed",
             "over", "finishing", "aborting", "cleaning", "done"}
  /\ unsure \subseteq Op
  /\ crashes \in 0..MaxCrashes /\ errors \in 0..MaxErrors

Increasing(s) == \A i, j \in DOMAIN s : i < j => s[i] < s[j]

(* However often the process dies, the rebase is opened again, and a call is
   retried, no operation is committed twice or after a later one. *)
InOrder ==
  /\ Increasing(head)
  /\ mem # NULL => Increasing(mem.commits)

(* An operation may be missing from the commits s only if its changes were
   there already or its next() failed or was cut short: neither next() called
   again nor a rebase opened again applies that one. *)
AllIn(s) == Op \ (Contained \cup unsure) \subseteq Range(s)

(* A branch that finish() moved, for a client that calls it when the code of an
   exception of next() says so, has every operation that can be there; so have
   the commits of an in-memory rebase.  That is so whatever was cut short before,
   init_rebase and abort() included: the rebase that is then opened again never
   passes for a rebased branch (but it can leave the branch Mixed). *)
Complete ==
  /\ branch \notin {Orig, Mixed} => AllIn(branch)
  /\ pc = "finishing" /\ mem.inMemory => AllIn(mem.commits)

List == INSTANCE RebaseList WITH applied <- head, cut <- attached /\ onDisk,
                                 aborting <- pc \in {"aborting", "cleaning"}

(* What readers of the repository see is the list of RebaseList: the branch
   moves to all new commits at once or back, and it is back when abort() ends,
   whatever failed before; stray commits come on top of it only where
   init_rebase or abort() was cut short. *)
ListSpec == List!Spec

(* The client's program ends: the end of the operations is recognised. *)
Ends == <>(pc = "done")
=============================================================================
