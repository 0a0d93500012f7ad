------------------------------ MODULE Options ------------------------------
(***************************************************************************)
(* The options classes: rebase::options, checkout::options and some twenty *)
(* others.  Each holds a libgit2 structure (default_options_) and a        *)
(* pointer c_ptr_, usually to that structure, but to another variable's    *)
(* after an implicit copy, and into an enclosing structure for the options *)
(* that checkout_options(), merge_options() and their like return.         *)
(* Setters write through c_ptr_; for text they keep the c_str() of their   *)
(* argument.                                                               *)
(*                                                                         *)
(* The client declares strings and options in nested scopes, so variables  *)
(* die in the reverse order of their declaration, at the end of a scope or *)
(* during unwinding.  A variable is known by its position; pointers to what *)
(* has died become Wild.  The setters of string arrays (set_paths,         *)
(* set_pathspec, set_custom_headers) are left out: they keep pointers that *)
(* are freed before they return, whatever the client does.                 *)
(***************************************************************************)
EXTENDS Integers

CONSTANTS MaxDepth,  \* bound: variables in scope at a time
          NULL,
          Wild       \* a pointer to memory that has been released

ASSUME OptionsAssumption ==
  /\ MaxDepth \in Nat
  /\ NULL # Wild
  /\ NULL \notin Int /\ Wild \notin Int
  /\ Wild \notin (1..MaxDepth) \X {"self", "nested"}

VARIABLES depth,  \* the variables 1..depth are in scope
          kind,   \* kind[p]: what variable p is
          to,     \* to[p]: the structure c_ptr_ of the options p points to
          text,   \* text[l]: the string a text field of structure l points to
          exposed,  \* history: the options whose c_ptr_ was taken from others when
                    \*   those pointed to what does not outlive them
          spoilt    \* history: the structures an assignment gave a text that does
                    \*   not outlive them, or none at all

vars == <<depth, kind, to, text, exposed, spoilt>>

Var == 1..MaxDepth

(* "outer" options contain "inner" options, as rebase's contain checkout's. *)
OptionsKind == {"outer", "inner"}

(* The structures: each variable's own, and the one nested in an outer one. *)
Struct == Var \X {"self", "nested"}

Self(p) == <<p, "self">>
Nested(l) == <<l[1], "nested">>

InScope == 1..depth

IsOptions(p) == p \in InScope /\ kind[p] \in OptionsKind

(* The structures libgit2 reads when it is given the options p. *)
Reads(p) == {to[p]} \cup (IF kind[p] = "outer" THEN {Nested(to[p])} ELSE {})

(* The rule a client has to keep: what is reached through structure l must
   have been declared before the variable that holds l, which need not be the
   one whose setter is called. *)
Outlives(p, l) == p \in Int => p < l[1]

(* The structure x points to, if any, is in p or in an older variable. *)
Back(p, x) == x \in Struct /\ x[1] <= p

(* The text x of structure l, if any, is older than the variable that holds l. *)
Older(x, l) == x = NULL \/ (x \in Var /\ x < l[1])

(* A new variable of kind k, pointing to l. *)
Declare(k, l) ==
  /\ depth < MaxDepth
  /\ depth' = depth + 1
  /\ kind' = [kind EXCEPT ![depth + 1] = k]
  /\ to' = [to EXCEPT ![depth + 1] = l]

(* The structures of variable p get the text fields of those of q. *)
CopyStructs(p, q) ==
  text' = [l \in Struct |-> IF l[1] = p THEN text[<<q, l[2]>>] ELSE text[l]]

(* The structures of variable p are filled with x. *)
FillStructs(p, x) ==
  text' = [l \in Struct |-> IF l[1] = p THEN x ELSE text[l]]

(* The history after c_ptr_ of p is given the value x, and after the structures
   L got their new texts. *)
Expose(p, x) == exposed' = IF Back(p, x) THEN exposed \ {p} ELSE exposed \cup {p}

Spoil(L) == spoilt' = (spoilt \ L) \cup {l \in L : ~Older(text'[l], l)}

-----------------------------------------------------------------------------

Init ==
  /\ depth = 0
  /\ kind = [p \in Var |-> "none"]
  /\ to = [p \in Var |-> NULL]
  /\ text = [l \in Struct |-> NULL]
  /\ exposed = {}
  /\ spoilt = {}

DeclareString == Declare("string", NULL) /\ UNCHANGED <<text, exposed, spoilt>>

(* options(): git_*_init_options fills default_options_. *)
DeclareOptions(k) ==
  /\ Declare(k, Self(depth + 1))
  /\ FillStructs(depth + 1, NULL)
  /\ UNCHANGED <<exposed, spoilt>>

(* Mutant: the options returned point to a local copy of the nested structure. *)
DeclareViewOfLocal(s) ==
  /\ IsOptions(s) /\ kind[s] = "outer" /\ to[s] # Wild
  /\ Declare("inner", Wild)
  /\ FillStructs(depth + 1, Wild)
  /\ UNCHANGED <<exposed, spoilt>>

(* options(&c_ptr_->checkout_options): default_options_ is not initialised. *)
DeclareView(s) ==
  /\ IsOptions(s) /\ kind[s] = "outer" /\ to[s] # Wild
  /\ Declare("inner", Nested(to[s]))
  /\ FillStructs(depth + 1, Wild)
  /\ UNCHANGED <<exposed, spoilt>>

(* The implicit copy constructor, for a variable or an argument by value: the
   copy's c_ptr_ still points where the original's does. *)
DeclareCopy(s) ==
  /\ IsOptions(s)
  /\ Declare(kind[s], to[s])
  /\ CopyStructs(depth + 1, s)
  /\ Expose(depth + 1, to[s])
  /\ UNCHANGED spoilt

(* The implicit copy assignment.  It takes s's c_ptr_, whatever that points to,
   and overwrites d's default_options_ with s's own, which may be uninitialised
   and which copies and views of d go on reading. *)
Assign(d, s) ==
  /\ IsOptions(d) /\ IsOptions(s) /\ d # s
  /\ kind[d] = kind[s]
  /\ to' = [to EXCEPT ![d] = to[s]]
  /\ CopyStructs(d, s)
  /\ Expose(d, to[s])
  /\ Spoil({l \in Struct : l[1] = d})
  /\ UNCHANGED <<depth, kind>>

(* Mutant: a setter that takes its string by value. *)
SetTextByValue(s, t) ==
  /\ IsOptions(s) /\ to[s] # Wild
  /\ t \in InScope /\ kind[t] = "string"
  /\ Outlives(t, to[s])
  /\ text' = [text EXCEPT ![to[s]] = Wild]
  /\ spoilt' = spoilt \ {to[s]}
  /\ UNCHANGED <<depth, kind, to, exposed>>

(* set_target_directory(t) and its like: the argument's c_str() is kept. *)
SetText(s, t) ==
  /\ IsOptions(s) /\ to[s] # Wild
  /\ t \in InScope /\ kind[t] = "string"
  /\ Outlives(t, to[s])
  /\ text' = [text EXCEPT ![to[s]] = t]
  /\ Spoil({to[s]})
  /\ UNCHANGED <<depth, kind, to, exposed>>

(* Mutant: the empty argument's c_str() is kept, which is in no variable. *)
ClearTextEmpty(s) ==
  /\ IsOptions(s) /\ to[s] # Wild
  /\ text' = [text EXCEPT ![to[s]] = 0]
  /\ Spoil({to[s]})
  /\ UNCHANGED <<depth, kind, to, exposed>>

(* set_default_driver(""): a null pointer. *)
ClearText(s) ==
  /\ IsOptions(s) /\ to[s] # Wild
  /\ text' = [text EXCEPT ![to[s]] = NULL]
  /\ Spoil({to[s]})
  /\ UNCHANGED <<depth, kind, to, exposed>>

(* set_checkout_options(i), set_merge_options(i): the structure is copied, and
   with it the pointers in it. *)
SetNested(s, i) ==
  /\ IsOptions(s) /\ kind[s] = "outer" /\ to[s] # Wild
  /\ IsOptions(i) /\ kind[i] = "inner" /\ to[i] # Wild
  /\ Outlives(text[to[i]], to[s])
  /\ text' = [text EXCEPT ![Nested(to[s])] = text[to[i]]]
  /\ Spoil({Nested(to[s])})
  /\ UNCHANGED <<depth, kind, to, exposed>>

(* The last variable declared dies: what was in it is gone, and pointers to it
   or into it are wild. *)
Leave ==
  /\ depth > 0
  /\ depth' = depth - 1
  /\ kind' = [kind EXCEPT ![depth] = "none"]
  /\ to' = [p \in Var |-> IF p = depth THEN NULL
                           ELSE IF to[p] \in Struct /\ to[p][1] = depth THEN Wild
                           ELSE to[p]]
  /\ text' = [l \in Struct |-> IF l[1] = depth THEN NULL
                               ELSE IF text[l] = depth THEN Wild ELSE text[l]]
  /\ exposed' = exposed \ {depth}
  /\ spoilt' = {l \in spoilt : l[1] # depth}

Next ==
  \/ DeclareString \/ Leave
  \/ \E k \in OptionsKind : DeclareOptions(k)
  \/ \E s \in Var : DeclareView(s) \/ DeclareCopy(s) \/ ClearText(s)
  \/ \E d, s \in Var : Assign(d, s) \/ SetText(d, s) \/ SetNested(d, s)

Spec == Init /\ [][Next]_vars

-----------------------------------------------------------------------------

TypeOK ==
  /\ depth \in 0..MaxDepth
  /\ kind \in [Var -> OptionsKind \cup {"none", "string"}]
  /\ to \in [Var -> Struct \cup {NULL, Wild}]
  /\ text \in [Struct -> Var \cup {NULL, Wild}]
  /\ exposed \subseteq Var
  /\ spoilt \subseteq Struct

(* However options are declared, taken out of others, copied, passed by value
   and assigned to each other, c_ptr_ of options in scope points to a structure
   in scope.  It can dangle in one case only: when the options were last
   assigned from options that pointed to a variable declared after them, or to
   nothing any more, or were copied from options that dangled already; to
   assign them from others that are old enough cures it. *)
TargetsAlive ==
  \A p \in InScope : IsOptions(p) /\ p \notin exposed => to[p] \in Struct /\ to[p][1] <= depth

(* The text fields libgit2 reads through any options variable in scope are null
   or point to a string that is still alive - also when the string was set
   through a view or a copy, or came with the structure of other options, and
   also for the copies of options that were assigned since.  The exception is a
   structure whose owner was assigned a text younger than it, or garbage, with
   the default_options_ of others, until the field is set again. *)
TextAlive ==
  \A p \in InScope : IsOptions(p) /\ to[p] # Wild =>
    \A l \in Reads(p) \ spoilt : text[l] \in InScope \cup {NULL}
=============================================================================
