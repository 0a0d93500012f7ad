--------------------------- MODULE OptionsProofs ---------------------------
(***************************************************************************)
(* Theorems about Options, for any depth of scopes.                        *)
(*                                                                         *)
(* TargetsAlive and TextAlive speak of the variables in scope and would not *)
(* survive the end of a scope by themselves: a pointer to the last variable *)
(* is fine until then.  What is preserved is an order: c_ptr_ points to an *)
(* older variable or to its own unless the history says otherwise (Aimed), *)
(* and a text was declared before the variable that holds the structure    *)
(* with its pointer unless the structure was spoilt (Sound).               *)
(***************************************************************************)
EXTENDS Options, TLAPS

(* Where c_ptr_ of the options p points. *)
Aimed(p) ==
  IF to[p] = Wild THEN p \in exposed
  ELSE to[p] \in Struct /\ to[p][1] <= depth /\ (p \in exposed \/ to[p][1] <= p)

Sound(l) == l \in spoilt \/ Older(text[l], l)

Fine(p) == Aimed(p) /\ (to[p] # Wild => \A l \in Reads(p) : Sound(l))

IInv == TypeOK /\ \A p \in InScope : IsOptions(p) => Fine(p)

(* A structure is known by its variable and its part. *)
LEMMA StructParts ==
  /\ \A l \in Struct : /\ l[1] \in Var /\ Nested(l) \in Struct /\ Nested(l)[1] = l[1]
                       /\ l = <<l[1], l[2]>> /\ l[2] \in {"self", "nested"}
  /\ \A p \in Var : /\ Self(p) \in Struct /\ Self(p)[1] = p
                    /\ \A i \in {"self", "nested"} : <<p, i>> \in Struct
  BY DEF Struct, Nested, Self

(* What the options p read are structures of the variable c_ptr_ points to. *)
LEMMA ReadsOne ==
  ASSUME NEW p \in Var, to[p] \in Struct
  PROVE  \A l \in Reads(p) : l \in Struct /\ l[1] = to[p][1]
  BY StructParts DEF Reads

(* What IInv says of one options variable in scope. *)
LEMMA OneOptions ==
  ASSUME IInv, NEW p \in Var, IsOptions(p)
  PROVE  /\ p \in InScope /\ p <= depth /\ p \in Int /\ depth \in Nat
         /\ Aimed(p)
         /\ kind[p] \in OptionsKind
         /\ to[p] # Wild =>
              /\ to[p] \in Struct /\ to[p][1] \in Var /\ to[p][1] <= depth
              /\ \A l \in Reads(p) : l \in Struct /\ l[1] = to[p][1] /\ Sound(l)
              /\ to[p] \in Reads(p)
              /\ kind[p] = "outer" => Nested(to[p]) \in Reads(p) /\ Nested(to[p]) \in Struct
<1>1. p \in InScope /\ p <= depth /\ p \in Int /\ depth \in Nat /\ Fine(p)
  BY OptionsAssumption DEF IInv, IsOptions, InScope, Var, TypeOK
<1>2. to[p] # Wild => to[p] \in Struct /\ to[p][1] \in Var /\ to[p][1] <= depth
  BY <1>1, StructParts DEF Fine, Aimed
<1>3. to[p] # Wild => \A l \in Reads(p) : l \in Struct /\ l[1] = to[p][1]
  BY <1>2, ReadsOne
<1>4. to[p] # Wild => \A l \in Reads(p) : Sound(l)
  BY <1>1 DEF Fine
<1>5. to[p] \in Reads(p) /\ (kind[p] = "outer" => Nested(to[p]) \in Reads(p))
  BY DEF Reads
<1>6. QED
  BY <1>1, <1>2, <1>3, <1>4, <1>5 DEF Fine, IsOptions

(* Init satisfies the invariant: no variable is in scope. *)
LEMMA InitIInv == Init => IInv
<1> SUFFICES ASSUME Init PROVE IInv
  OBVIOUS
<1>2. TypeOK
  <2>1. depth \in 0..MaxDepth
    BY OptionsAssumption DEF Init
  <2>2. kind \in [Var -> OptionsKind \cup {"none", "string"}]
    BY DEF Init
  <2>3. /\ to \in [Var -> Struct \cup {NULL, Wild}]
        /\ text \in [Struct -> Var \cup {NULL, Wild}]
        /\ exposed \subseteq Var /\ spoilt \subseteq Struct
    BY DEF Init
  <2>4. QED
    BY <2>1, <2>2, <2>3 DEF TypeOK
<1>3. InScope = {}
  BY DEF Init, InScope
<1>4. QED
  BY <1>2, <1>3 DEF IInv

(* A declaration keeps TypeOK if its structures do. *)
LEMMA DeclareTypes ==
  ASSUME TypeOK, NEW k \in OptionsKind \cup {"string"}, NEW l \in Struct \cup {NULL, Wild},
         Declare(k, l)
  PROVE  /\ depth' \in 0..MaxDepth
         /\ kind' \in [Var -> OptionsKind \cup {"none", "string"}]
         /\ to' \in [Var -> Struct \cup {NULL, Wild}]
         /\ depth + 1 \in Var
<1>1. depth' \in 0..MaxDepth /\ depth + 1 \in Var
  BY OptionsAssumption DEF TypeOK, Declare, Var
<1>2. kind' \in [Var -> OptionsKind \cup {"none", "string"}]
  BY DEF TypeOK, Declare
<1>3. to' \in [Var -> Struct \cup {NULL, Wild}]
  BY DEF TypeOK, Declare
<1>4. QED
  BY <1>1, <1>2, <1>3

LEMMA FillTypes ==
  ASSUME TypeOK, NEW p \in Var, NEW x \in {NULL, Wild}, FillStructs(p, x)
  PROVE  text' \in [Struct -> Var \cup {NULL, Wild}]
  BY DEF TypeOK, FillStructs

LEMMA CopyTypes ==
  ASSUME TypeOK, NEW p \in Var, NEW q \in Var, CopyStructs(p, q)
  PROVE  text' \in [Struct -> Var \cup {NULL, Wild}]
<1>1. \A l \in Struct : <<q, l[2]>> \in Struct
  BY StructParts
<1>2. QED
  BY <1>1 DEF TypeOK, CopyStructs

(* What the history says of a pointer and of texts that were written. *)
LEMMA History ==
  /\ \A p, x : Expose(p, x) => /\ \A q \in exposed \ {p} : q \in exposed'
                               /\ ~Back(p, x) => p \in exposed'
                               /\ TypeOK /\ p \in Var => exposed' \subseteq Var
  /\ \A L : Spoil(L) => /\ \A l \in spoilt \ L : l \in spoilt'
                        /\ \A l \in L : Sound(l)'
                        /\ TypeOK /\ L \subseteq Struct => spoilt' \subseteq Struct
<1>1. ASSUME NEW p, NEW x, Expose(p, x)
      PROVE  /\ \A q \in exposed \ {p} : q \in exposed'
             /\ ~Back(p, x) => p \in exposed'
             /\ TypeOK /\ p \in Var => exposed' \subseteq Var
  BY <1>1 DEF Expose, TypeOK
<1>2. ASSUME NEW L, Spoil(L)
      PROVE  /\ \A l \in spoilt \ L : l \in spoilt'
             /\ \A l \in L : Sound(l)'
             /\ TypeOK /\ L \subseteq Struct => spoilt' \subseteq Struct
  BY <1>2 DEF Spoil, TypeOK, Sound
<1>3. QED
  BY <1>1, <1>2

(* Options that a step leaves alone: what they point to stays in scope or is
   recorded, and the structures stay sound. *)
LEMMA FineKept ==
  ASSUME IInv, TypeOK', NEW q \in Var, IsOptions(q), kind'[q] = kind[q], q \in exposed => q \in exposed',
         \/ /\ to'[q] = to[q]
            /\ to[q] # Wild => to[q][1] <= depth' /\ \A l \in Reads(q) : Sound(l) => Sound(l)'
         \/ to'[q] = Wild /\ q \in exposed
  PROVE  Fine(q)'
<1>1. CASE to'[q] = Wild
  BY <1>1, OneOptions DEF Fine, Aimed
<1>2. CASE to'[q] # Wild
  <2>1. to'[q] = to[q] /\ to[q] # Wild
    BY <1>2
  <2>2. Reads(q)' = Reads(q)
    BY <2>1 DEF Reads, Nested
  <2>3. Aimed(q)'
    BY <2>1, OneOptions DEF Aimed
  <2>4. \A l \in Reads(q) : Sound(l)'
    BY <2>1, OneOptions
  <2>5. QED
    BY <2>2, <2>3, <2>4 DEF Fine
<1>3. QED
  BY <1>1, <1>2

(* A declared variable is fine if what it points to is sound, or if it was
   recorded; the others keep everything they read. *)
LEMMA DeclareFine ==
  ASSUME IInv, TypeOK', NEW k \in OptionsKind \cup {"string"}, NEW x \in Struct \cup {NULL, Wild},
         Declare(k, x), NEW p \in Var, p = depth + 1, spoilt' = spoilt,
         \A m \in Struct : m[1] # p => text'[m] = text[m],
         \A q \in exposed \ {p} : q \in exposed',
         k \in OptionsKind => Fine(p)'
  PROVE  IInv'
<1>1. depth \in 0..MaxDepth /\ depth' = p /\ p \in Int
  BY OptionsAssumption DEF Declare, IInv, TypeOK, Var
<1>2. ASSUME NEW q \in InScope', IsOptions(q)' PROVE Fine(q)'
  <2>1. CASE q = p
    <3>1. kind'[p] = k
      BY <1>1 DEF Declare, IInv, TypeOK
    <3>2. QED
      BY <1>2, <2>1, <3>1 DEF IsOptions
  <2>2. CASE q # p
    <3>1. q \in InScope /\ q \in Var
      BY <1>1, <2>2, OptionsAssumption DEF InScope, Var
    <3>2. kind'[q] = kind[q] /\ to'[q] = to[q]
      BY <1>1, <2>2, <3>1 DEF Declare, IInv, TypeOK
    <3>3. IsOptions(q)
      BY <1>2, <3>1, <3>2 DEF IsOptions
    <3>4. ASSUME to[q] # Wild PROVE to[q][1] <= depth' /\ \A l \in Reads(q) : Sound(l) => Sound(l)'
      <4>1. to[q][1] \in Var /\ to[q][1] <= depth /\ \A l \in Reads(q) : l \in Struct /\ l[1] = to[q][1]
        BY <3>1, <3>3, <3>4, OneOptions
      <4>2. to[q][1] # p /\ to[q][1] <= depth'
        BY <1>1, <4>1, OptionsAssumption DEF Var
      <4>3. \A l \in Reads(q) : text'[l] = text[l]
        BY <4>1, <4>2
      <4>4. QED
        BY <4>2, <4>3 DEF Sound
    <3>5. q \in exposed => q \in exposed'
      BY <2>2
    <3>6. QED
      BY <3>1, <3>2, <3>3, <3>4, <3>5, FineKept
  <2>3. QED
    BY <2>1, <2>2
<1>3. QED
  BY <1>2 DEF IInv

(* A step that leaves the variables and their pointers alone, and no structure
   worse than it was. *)
LEMMA FieldsFine ==
  ASSUME IInv, TypeOK', UNCHANGED <<depth, kind, to, exposed>>,
         \A l \in Struct : Sound(l) => Sound(l)'
  PROVE  IInv'
<1>1. ASSUME NEW q \in InScope', IsOptions(q)' PROVE Fine(q)'
  <2>1. q \in InScope /\ q \in Var /\ IsOptions(q) /\ kind'[q] = kind[q] /\ to'[q] = to[q]
    BY <1>1, OptionsAssumption DEF IInv, TypeOK, InScope, Var, IsOptions
  <2>2. to[q] # Wild => to[q][1] <= depth' /\ \A l \in Reads(q) : Sound(l) => Sound(l)'
    BY <2>1, OneOptions
  <2>3. QED
    BY <2>1, <2>2, FineKept
<1>2. QED
  BY <1>1 DEF IInv

(* A setter writes one structure, and records it if it has to. *)
LEMMA SetterFine ==
  ASSUME IInv, NEW m \in Struct, NEW x \in Var \cup {NULL, Wild},
         text' = [text EXCEPT ![m] = x], Spoil({m}), UNCHANGED <<depth, kind, to, exposed>>
  PROVE  IInv'
<1>1. TypeOK'
  BY History DEF IInv, TypeOK
<1>2. ASSUME NEW l \in Struct, Sound(l) PROVE Sound(l)'
  <2>1. CASE l = m
    BY <2>1, History
  <2>2. CASE l # m
    <3>1. text'[l] = text[l] /\ (l \in spoilt => l \in spoilt')
      BY <2>2, History DEF IInv, TypeOK
    <3>2. QED
      BY <1>2, <3>1 DEF Sound
  <2>3. QED
    BY <2>1, <2>2
<1>3. QED
  BY <1>1, <1>2, FieldsFine

(* Every step keeps the invariant. *)
LEMMA Step == IInv /\ [Next]_vars => IInv'
<1> SUFFICES ASSUME IInv, [Next]_vars PROVE IInv'
  OBVIOUS
<1>1. TypeOK
  BY DEF IInv
<1>2. CASE DeclareString
  <2>1. Declare("string", NULL) /\ UNCHANGED <<text, exposed, spoilt>>
    BY <1>2 DEF DeclareString
  <2>2. PICK p \in Var : p = depth + 1
    BY <1>1, <2>1, DeclareTypes
  <2>3. TypeOK'
    BY <1>1, <2>1, DeclareTypes DEF TypeOK
  <2>4. QED
    BY <2>1, <2>2, <2>3, DeclareFine DEF OptionsKind
<1>3. ASSUME NEW k \in OptionsKind, DeclareOptions(k) PROVE IInv'
  <2>1. PICK p \in Var : p = depth + 1
    BY <1>1, <1>3, OptionsAssumption DEF DeclareOptions, Declare, TypeOK, Var
  <2>2. Self(p) \in Struct /\ Self(p)[1] = p /\ p \in Int
    <3>1. p \in Int
      BY OptionsAssumption DEF Var
    <3>2. QED
      BY <3>1, StructParts
  <2>3. Declare(k, Self(p)) /\ FillStructs(p, NULL) /\ UNCHANGED <<exposed, spoilt>>
    BY <1>3, <2>1 DEF DeclareOptions
  <2>4. TypeOK'
    <3>1. text' \in [Struct -> Var \cup {NULL, Wild}]
      BY <1>1, <2>3, FillTypes
    <3>2. QED
      BY <1>1, <2>2, <2>3, <3>1, DeclareTypes DEF TypeOK
  <2>5. to'[p] = Self(p) /\ depth' = p /\ Self(p) # Wild
    BY <1>1, <2>1, <2>2, <2>3, OptionsAssumption DEF Declare, TypeOK, Struct, Var
  <2>6. \A m \in Struct : text'[m] = IF m[1] = p THEN NULL ELSE text[m]
    BY <2>3 DEF FillStructs
  <2>7. ASSUME NEW m \in Reads(p)' PROVE Sound(m)'
    <3>1. m \in Struct /\ m[1] = p
      BY <2>2, <2>5, <2>7, StructParts DEF Reads
    <3>2. QED
      BY <2>6, <3>1 DEF Sound, Older
  <2>8. Fine(p)'
    BY <2>2, <2>5, <2>7 DEF Fine, Aimed
  <2>9. QED
    BY <2>1, <2>2, <2>3, <2>4, <2>6, <2>8, DeclareFine
<1>4. ASSUME NEW s \in Var, DeclareView(s) PROVE IInv'
  <2>1. /\ IsOptions(s) /\ kind[s] = "outer" /\ to[s] # Wild
        /\ Declare("inner", Nested(to[s])) /\ FillStructs(depth + 1, Wild)
        /\ UNCHANGED <<exposed, spoilt>>
    BY <1>4 DEF DeclareView
  <2>2. PICK p \in Var : p = depth + 1
    BY <1>1, <2>1, OptionsAssumption DEF Declare, TypeOK, Var
  <2>3. /\ Nested(to[s]) \in Struct /\ Nested(to[s])[1] = to[s][1]
        /\ to[s][1] \in Var /\ to[s][1] <= depth /\ p \in Int /\ depth \in Nat
        /\ Sound(Nested(to[s]))
    BY <2>1, OneOptions, StructParts, OptionsAssumption DEF Var
  <2>4. TypeOK'
    <3>1. text' \in [Struct -> Var \cup {NULL, Wild}]
      BY <1>1, <2>1, <2>2, FillTypes
    <3>2. QED
      BY <1>1, <2>1, <2>3, <3>1, DeclareTypes DEF TypeOK, OptionsKind
  <2>5. to'[p] = Nested(to[s]) /\ kind'[p] = "inner" /\ depth' = p /\ Nested(to[s]) # Wild
    BY <1>1, <2>1, <2>2, <2>3, OptionsAssumption DEF Declare, TypeOK, Struct, Var
  <2>6. \A m \in Struct : m[1] # p => text'[m] = text[m]
    BY <2>1, <2>2 DEF FillStructs
  <2>7. ASSUME NEW m \in Reads(p)' PROVE Sound(m)'
    <3>1. m = Nested(to[s])
      BY <2>5, <2>7 DEF Reads
    <3>2. m[1] # p
      BY <2>2, <2>3, <3>1, OptionsAssumption DEF Var
    <3>3. text'[m] = text[m] /\ spoilt' = spoilt
      BY <2>1, <2>3, <2>6, <3>1, <3>2
    <3>4. QED
      BY <2>3, <3>1, <3>3 DEF Sound
  <2>8. Fine(p)'
    <3>1. to[s][1] <= p
      BY <2>2, <2>3, OptionsAssumption DEF Var
    <3>2. QED
      BY <2>3, <2>5, <2>7, <3>1 DEF Fine, Aimed
  <2>9. QED
    BY <2>1, <2>2, <2>3, <2>4, <2>6, <2>8, DeclareFine DEF OptionsKind
<1>5. ASSUME NEW s \in Var, DeclareCopy(s) PROVE IInv'
  <2>1. /\ IsOptions(s) /\ Declare(kind[s], to[s]) /\ CopyStructs(depth + 1, s)
        /\ Expose(depth + 1, to[s]) /\ spoilt' = spoilt
    BY <1>5 DEF DeclareCopy
  <2>2. PICK p \in Var : p = depth + 1
    BY <1>1, <2>1, OptionsAssumption DEF Declare, TypeOK, Var
  <2>3. /\ kind[s] \in OptionsKind /\ to[s] \in Struct \cup {Wild}
        /\ s <= depth /\ s \in Int /\ depth \in Nat /\ p \in Int
    BY <2>1, OneOptions, OptionsAssumption DEF Var
  <2>4. TypeOK'
    <3>1. text' \in [Struct -> Var \cup {NULL, Wild}]
      BY <1>1, <2>1, <2>2, CopyTypes
    <3>2. exposed' \subseteq Var
      BY <1>1, <2>1, <2>2, History
    <3>3. QED
      BY <1>1, <2>1, <2>3, <3>1, <3>2, DeclareTypes DEF TypeOK
  <2>5. to'[p] = to[s] /\ kind'[p] = kind[s] /\ depth' = p
    BY <1>1, <2>1, <2>2 DEF Declare, TypeOK
  <2>6. \A m \in Struct : m[1] # p => text'[m] = text[m]
    BY <2>1, <2>2 DEF CopyStructs
  <2>7. ASSUME to[s] # Wild, NEW m \in Reads(p)' PROVE Sound(m)'
    <3>1. m \in Reads(s)
      BY <2>5, <2>7 DEF Reads, Nested
    <3>2. m \in Struct /\ m[1] = to[s][1] /\ Sound(m) /\ to[s][1] \in Var /\ to[s][1] <= depth
      BY <2>1, <2>7, <3>1, OneOptions
    <3>3. m[1] # p
      BY <2>2, <2>3, <3>2, OptionsAssumption DEF Var
    <3>4. text'[m] = text[m] /\ spoilt' = spoilt
      BY <2>1, <2>6, <3>2, <3>3
    <3>5. QED
      BY <3>2, <3>4 DEF Sound
  <2>8. Aimed(p)'
    <3>1. CASE to[s] = Wild
      <4>1. ~Back(p, to[s])
        BY <3>1, OptionsAssumption DEF Back, Struct, Var
      <4>2. p \in exposed'
        BY <2>1, <2>2, <4>1, History
      <4>3. QED
        BY <2>5, <3>1, <4>2 DEF Aimed
    <3>2. CASE to[s] # Wild
      <4>1. to[s] \in Struct /\ to[s][1] \in Var /\ to[s][1] <= depth
        BY <2>1, <3>2, OneOptions
      <4>2. to[s][1] <= p
        BY <2>2, <2>3, <4>1, OptionsAssumption DEF Var
      <4>3. QED
        BY <2>5, <3>2, <4>1, <4>2 DEF Aimed
    <3>3. QED
      BY <3>1, <3>2
  <2>9. Fine(p)'
    BY <2>5, <2>7, <2>8 DEF Fine
  <2>10. \A q \in exposed \ {p} : q \in exposed'
    BY <2>1, <2>2, History
  <2>11. QED
    BY <2>1, <2>2, <2>3, <2>4, <2>6, <2>9, <2>10, DeclareFine
<1>6. ASSUME NEW d \in Var, NEW s \in Var, Assign(d, s) PROVE IInv'
  <2> DEFINE L == {l \in Struct : l[1] = d}
  <2>1. /\ IsOptions(d) /\ IsOptions(s) /\ d # s /\ kind[d] = kind[s]
        /\ to' = [to EXCEPT ![d] = to[s]] /\ CopyStructs(d, s)
        /\ Expose(d, to[s]) /\ Spoil(L)
        /\ UNCHANGED <<depth, kind>>
    BY <1>6 DEF Assign
  <2>2. TypeOK'
    <3>1. text' \in [Struct -> Var \cup {NULL, Wild}]
      BY <1>1, <2>1, CopyTypes
    <3>2. exposed' \subseteq Var
      BY <1>1, <2>1, History
    <3>3. spoilt' \subseteq Struct
      BY <1>1, <2>1, History
    <3>4. to' \in [Var -> Struct \cup {NULL, Wild}]
      BY <1>1, <2>1 DEF TypeOK
    <3>5. QED
      BY <1>1, <2>1, <3>1, <3>2, <3>3, <3>4 DEF TypeOK
  <2>3. ASSUME NEW l \in Struct, Sound(l) PROVE Sound(l)'
    <3>1. CASE l[1] = d
      BY <2>1, <3>1, History
    <3>2. CASE l[1] # d
      <4>1. text'[l] = text[l]
        BY <2>1, <3>2 DEF CopyStructs
      <4>2. l \in spoilt => l \in spoilt'
        BY <2>1, <3>2, History
      <4>3. QED
        BY <2>3, <4>1, <4>2 DEF Sound
    <3>3. QED
      BY <3>1, <3>2
  <2>4. Fine(d)'
    <3>1. to'[d] = to[s] /\ kind'[d] = kind[s]
      BY <1>1, <2>1 DEF TypeOK
    <3>2. to[s] # Wild => to[s] \in Struct /\ to[s][1] <= depth
      BY <2>1, OneOptions
    <3>3. Back(d, to[s]) \/ d \in exposed'
      BY <2>1, History
    <3>4. Aimed(d)'
      <4>1. CASE to[s] = Wild
        <5>1. ~Back(d, to[s])
          BY <4>1, OptionsAssumption DEF Back, Struct, Var
        <5>2. QED
          BY <3>1, <3>3, <4>1, <5>1 DEF Aimed
      <4>2. CASE to[s] # Wild
        BY <2>1, <3>1, <3>2, <3>3, <4>2 DEF Aimed, Back
      <4>3. QED
        BY <4>1, <4>2
    <3>5. ASSUME to[s] # Wild, NEW m \in Reads(d)' PROVE Sound(m)'
      <4>1. m \in Reads(s)
        BY <3>1, <3>5 DEF Reads, Nested
      <4>2. m \in Struct /\ Sound(m)
        BY <2>1, <3>5, <4>1, OneOptions
      <4>3. QED
        BY <2>3, <4>2
    <3>6. QED
      BY <3>1, <3>4, <3>5 DEF Fine
  <2>5. ASSUME NEW q \in InScope', IsOptions(q)', q # d PROVE Fine(q)'
    <3>1. q \in Var /\ IsOptions(q) /\ kind'[q] = kind[q]
      BY <1>1, <2>1, <2>5, OptionsAssumption DEF TypeOK, InScope, Var, IsOptions
    <3>2. to'[q] = to[q] /\ (q \in exposed => q \in exposed')
      BY <1>1, <2>1, <2>5, <3>1, History DEF TypeOK
    <3>3. to[q] # Wild => to[q][1] <= depth' /\ \A l \in Reads(q) : Sound(l) => Sound(l)'
      BY <2>1, <2>3, <3>1, OneOptions
    <3>4. QED
      BY <2>2, <3>1, <3>2, <3>3, FineKept
  <2>6. QED
    BY <2>2, <2>4, <2>5 DEF IInv
<1>7. ASSUME NEW s \in Var, NEW t \in Var, SetText(s, t) PROVE IInv'
  <2>1. to[s] \in Struct
    BY <1>7, OneOptions DEF SetText
  <2>2. QED
    BY <1>7, <2>1, SetterFine DEF SetText
<1>8. ASSUME NEW s \in Var, ClearText(s) PROVE IInv'
  <2>1. to[s] \in Struct
    BY <1>8, OneOptions DEF ClearText
  <2>2. QED
    BY <1>8, <2>1, SetterFine DEF ClearText
<1>9. ASSUME NEW s \in Var, NEW i \in Var, SetNested(s, i) PROVE IInv'
  <2>1. Nested(to[s]) \in Struct /\ to[i] \in Struct
    BY <1>9, OneOptions DEF SetNested
  <2>2. text[to[i]] \in Var \cup {NULL, Wild}
    BY <1>1, <2>1 DEF TypeOK
  <2>3. QED
    BY <1>9, <2>1, <2>2, SetterFine DEF SetNested
<1>10. CASE Leave
  <2>1. /\ depth > 0 /\ depth' = depth - 1
        /\ kind' = [kind EXCEPT ![depth] = "none"]
        /\ \A p \in Var : to'[p] = IF p = depth THEN NULL
                                   ELSE IF to[p] \in Struct /\ to[p][1] = depth THEN Wild
                                   ELSE to[p]
        /\ \A l \in Struct : text'[l] = IF l[1] = depth THEN NULL
                                        ELSE IF text[l] = depth THEN Wild ELSE text[l]
        /\ exposed' = exposed \ {depth}
        /\ spoilt' = {l \in spoilt : l[1] # depth}
    BY <1>10 DEF Leave
  <2>2. TypeOK'
    <3>1. depth' \in 0..MaxDepth /\ kind' \in [Var -> OptionsKind \cup {"none", "string"}]
      <4>1. depth' \in 0..MaxDepth
        BY <1>1, <2>1, OptionsAssumption DEF TypeOK
      <4>2. kind' \in [Var -> OptionsKind \cup {"none", "string"}]
        BY <1>1, <2>1 DEF TypeOK
      <4>3. QED
        BY <4>1, <4>2
    <3>2. to' \in [Var -> Struct \cup {NULL, Wild}]
      BY <1>1, <1>10 DEF Leave, TypeOK
    <3>3. text' \in [Struct -> Var \cup {NULL, Wild}]
      BY <1>1, <1>10 DEF Leave, TypeOK
    <3>4. exposed' \subseteq Var /\ spoilt' \subseteq Struct
      BY <1>1, <2>1 DEF TypeOK
    <3>5. QED
      BY <3>1, <3>2, <3>3, <3>4 DEF TypeOK
  <2>3. depth \in Int /\ depth \in Nat
    BY <1>1 DEF TypeOK
  <2>4. ASSUME NEW l \in Struct, l[1] < depth, Sound(l) PROVE Sound(l)'
    <3>1. CASE l \in spoilt
      BY <2>1, <2>3, <2>4, <3>1, StructParts, OptionsAssumption DEF Sound, Var
    <3>2. CASE Older(text[l], l)
      <4>1. l[1] \in Int /\ l[1] # depth /\ depth \in Int
        BY <2>3, <2>4, StructParts, OptionsAssumption DEF Var
      <4>2. text[l] # depth
        BY <2>4, <3>2, <4>1, OptionsAssumption DEF Older, Var
      <4>3. text'[l] = text[l]
        BY <2>1, <4>1, <4>2
      <4>4. QED
        BY <3>2, <4>3 DEF Sound, Older
    <3>3. QED
      BY <2>4, <3>1, <3>2 DEF Sound
  <2>5. ASSUME NEW q \in InScope', IsOptions(q)' PROVE Fine(q)'
    <3>1. q \in InScope /\ q < depth /\ q \in Var /\ q \in Int
      BY <1>1, <2>1, <2>3, OptionsAssumption DEF InScope, TypeOK, Var
    <3>2. kind'[q] = kind[q] /\ IsOptions(q)
      <4>1. q # depth
        BY <2>3, <3>1
      <4>2. kind'[q] = kind[q]
        BY <1>1, <2>1, <3>1, <4>1 DEF TypeOK
      <4>3. QED
        BY <2>5, <3>1, <4>2 DEF IsOptions
    <3>3. q \in exposed => q \in exposed'
      BY <2>1, <2>3, <3>1
    <3>4. CASE to[q] # Wild /\ to[q][1] = depth
      <4>1. to[q] \in Struct /\ q \in exposed
        BY <2>3, <3>1, <3>2, <3>4, OneOptions DEF Aimed
      <4>2. to'[q] = Wild
        BY <2>1, <2>3, <3>1, <3>4, <4>1
      <4>3. QED
        BY <2>2, <3>1, <3>2, <3>3, <4>1, <4>2, FineKept
    <3>5. CASE to[q] # Wild /\ to[q][1] # depth
      <4>1. to[q] \in Struct /\ to[q][1] \in Int /\ to[q][1] < depth
        BY <2>3, <3>1, <3>2, <3>5, OneOptions, OptionsAssumption DEF Var
      <4>2. to'[q] = to[q]
        BY <2>1, <2>3, <3>1, <3>5
      <4>3. to[q][1] <= depth'
        BY <2>1, <2>3, <4>1
      <4>4. \A l \in Reads(q) : Sound(l) => Sound(l)'
        BY <2>4, <3>1, <3>2, <3>5, <4>1, OneOptions
      <4>5. QED
        BY <2>2, <3>1, <3>2, <3>3, <4>2, <4>3, <4>4, FineKept
    <3>6. CASE to[q] = Wild
      <4>1. to'[q] = Wild /\ q \in exposed
        <5>1. to[q] \notin Struct
          BY <3>6, OptionsAssumption DEF Struct, Var
        <5>2. QED
          BY <2>1, <2>3, <3>1, <3>2, <3>6, <5>1, OneOptions DEF Aimed
      <4>2. QED
        BY <2>2, <3>1, <3>2, <3>3, <4>1, FineKept
    <3>7. QED
      BY <3>4, <3>5, <3>6
  <2>6. QED
    BY <2>2, <2>5 DEF IInv
<1>11. CASE UNCHANGED vars
  <2>1. TypeOK' /\ \A l \in Struct : Sound(l) => Sound(l)'
    BY <1>1, <1>11 DEF vars, TypeOK, Sound, Older
  <2>2. QED
    BY <1>11, <2>1, FieldsFine DEF vars
<1>12. QED
  BY <1>2, <1>3, <1>4, <1>5, <1>6, <1>7, <1>8, <1>9, <1>10, <1>11 DEF Next

LEMMA Invariance == Spec => []IInv
<1>1. QED
  BY InitIInv, Step, PTL DEF Spec

(* The variables, pointers and fields keep their types. *)
THEOREM TypeCorrect == Spec => []TypeOK
<1>1. IInv => TypeOK
  BY DEF IInv
<1>2. QED
  BY Invariance, <1>1, PTL

(* At any depth of scopes and through any chain of views, copies and
   assignments: c_ptr_ of options in scope points to a structure in scope, but
   for options last assigned from others that do not outlive them, or copied
   from dangling ones. *)
THEOREM PointersValid == Spec => []TargetsAlive
<1>1. IInv => TargetsAlive
  <2>1. SUFFICES ASSUME IInv, NEW p \in InScope, IsOptions(p), p \notin exposed
                 PROVE  to[p] \in Struct /\ to[p][1] <= depth
    BY DEF TargetsAlive
  <2>2. p \in Var
    BY <2>1, OptionsAssumption DEF IInv, TypeOK, InScope, Var
  <2>3. QED
    BY <2>1, <2>2, OneOptions DEF Aimed
<1>2. QED
  BY Invariance, <1>1, PTL

(* At any depth of scopes, the texts libgit2 reads through options in scope
   are null or alive, but for those in structures whose owner was assigned a
   text that does not outlive it. *)
THEOREM TextsValid == Spec => []TextAlive
<1>1. IInv => TextAlive
  <2>1. SUFFICES ASSUME IInv, NEW p \in InScope, IsOptions(p), to[p] # Wild,
                        NEW l \in Reads(p) \ spoilt
                 PROVE  text[l] \in InScope \cup {NULL}
    BY DEF TextAlive
  <2>2. p \in Var /\ depth \in Nat
    BY <2>1, OptionsAssumption DEF IInv, TypeOK, InScope, Var
  <2>3. l[1] = to[p][1] /\ to[p][1] \in Var /\ to[p][1] <= depth /\ Older(text[l], l)
    BY <2>1, <2>2, OneOptions DEF Sound
  <2>4. QED
    BY <2>2, <2>3, OptionsAssumption DEF Older, Var, InScope
<1>2. QED
  BY Invariance, <1>1, PTL
=============================================================================
