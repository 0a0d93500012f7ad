--------------------------- MODULE VisitorsProofs ---------------------------
(***************************************************************************)
(* Proofs about Visitors, for any items and functions and any depth of     *)
(* traversals.                                                             *)
(***************************************************************************)
EXTENDS Visitors, SequenceTheorems, TLAPS

(* Each item is yet to be visited, has been seen, or has been skipped by a *)
(* code of tree::walk's visitor, ...                                       *)
Split(f) ==
  /\ f.left \cup f.seen \cup f.skipped = Item
  /\ f.kind # "walk" => f.skipped = {}

(* ... and every traversal has its own wrapper's address for its payload.  *)
Placed(d, f) == f.payload = d /\ Split(f)

Payloads == \A d \in 1..Len(stack) : Placed(d, stack[d])

IInv == TypeOK /\ Payloads /\ RightFunction /\ Closed

-----------------------------------------------------------------------------

(* The stack when a traversal is left, when a frame changes, and when one  *)
(* is begun.                                                               *)
LEMMA PopFacts ==
  ASSUME NEW F, NEW s \in Seq(F), NEW n \in Nat \ {0}, Len(s) = n
  PROVE  /\ Front(s) \in Seq(F)
         /\ Len(Front(s)) = n - 1
         /\ \A d \in 1 .. n - 1 : Front(s)[d] = s[d]
         /\ Last(s) \in F /\ Last(s) = s[n]
  <1>1. \A i \in 1 .. n - 1 : s[i] \in F
    OBVIOUS
  <1>2. /\ SubSeq(s, 1, n - 1) \in Seq(F)
        /\ Len(SubSeq(s, 1, n - 1)) = IF 1 <= n - 1 THEN n - 1 - 1 + 1 ELSE 0
        /\ \A i \in 1 .. n - 1 - 1 + 1 : SubSeq(s, 1, n - 1)[i] = s[1 + i - 1]
    BY <1>1, SubSeqProperties
  <1>3. Front(s) = SubSeq(s, 1, n - 1)
    BY DEF Front
  <1>4. Len(SubSeq(s, 1, n - 1)) = n - 1
    BY <1>2
  <1>5. ASSUME NEW d \in 1 .. n - 1
        PROVE  SubSeq(s, 1, n - 1)[d] = s[d]
    <2>1. d \in 1 .. n - 1 - 1 + 1 /\ 1 + d - 1 = d
      OBVIOUS
    <2> QED
      BY <2>1, <1>2, Zenon
  <1>6. Last(s) = s[n] /\ s[n] \in F
    BY DEF Last
  <1> QED
    BY <1>2, <1>3, <1>4, <1>5, <1>6, Zenon

LEMMA ReplaceFacts ==
  ASSUME NEW F, NEW s \in Seq(F), NEW n \in Nat \ {0}, Len(s) = n, NEW f \in F
  PROVE  /\ Append(Front(s), f) \in Seq(F)
         /\ Len(Append(Front(s), f)) = n
         /\ Append(Front(s), f)[n] = f
         /\ \A d \in 1 .. n - 1 : Append(Front(s), f)[d] = s[d]
  BY PopFacts

(* The innermost traversal. *)
LEMMA TopFacts ==
  ASSUME TypeOK, Payloads, stack # <<>>
  PROVE  \E n \in Nat \ {0} :
           /\ Len(stack) = n /\ n <= MaxDepth
           /\ Top = stack[n] /\ Top \in Frame /\ Placed(n, Top)
  <1>1. stack \in Seq(Frame) /\ Len(stack) <= MaxDepth
    BY DEF TypeOK
  <1>2. PICK n \in Nat : n = Len(stack)
    BY <1>1
  <1>3. n # 0
    BY <1>1, <1>2
  <1>4. Top = stack[n] /\ Top \in Frame
    BY <1>1, <1>2, <1>3, PopFacts DEF Top
  <1>5. Placed(n, Top)
    BY <1>2, <1>3, <1>4 DEF Payloads
  <1> QED
    BY <1>1, <1>2, <1>3, <1>4, <1>5

(* A stack of well-placed frames. *)
Stacked(s) ==
  /\ s \in Seq(Frame) /\ Len(s) <= MaxDepth
  /\ \A d \in 1..Len(s) : Placed(d, s[d])

LEMMA Push ==
  ASSUME TypeOK, Payloads, Len(stack) < MaxDepth, NEW f \in Frame,
         Placed(Len(stack) + 1, f), stack' = Append(stack, f)
  PROVE  Stacked(stack') /\ Len(stack') = Len(stack) + 1
  <1>1. stack \in Seq(Frame)
    BY DEF TypeOK
  <1>2. PICK n \in Nat : n = Len(stack)
    BY <1>1
  <1>3. stack' \in Seq(Frame) /\ Len(stack') = n + 1
    BY <1>1, <1>2
  <1>4. ASSUME NEW d \in 1 .. n + 1
        PROVE  Placed(d, stack'[d])
    <2>1. CASE d = n + 1
      BY <2>1, <1>1, <1>2
    <2>2. CASE d # n + 1
      <3>1. d \in 1 .. n /\ stack'[d] = stack[d]
        BY <2>2, <1>1, <1>2
      <3> QED
        BY <3>1, <1>2 DEF Payloads
    <2> QED
      BY <2>1, <2>2
  <1>5. n + 1 <= MaxDepth
    BY <1>2, VisitorsAssumption
  <1> QED
    BY <1>2, <1>3, <1>4, <1>5 DEF Stacked

LEMMA Replace ==
  ASSUME TypeOK, Payloads, stack # <<>>, NEW f \in Frame, ReplaceTop(f),
         f.payload = Top.payload, Split(f)
  PROVE  Stacked(stack') /\ Len(stack') = Len(stack)
  <1>1. PICK n \in Nat \ {0} : /\ Len(stack) = n /\ n <= MaxDepth
                               /\ Placed(n, Top)
    BY TopFacts
  <1>2. stack \in Seq(Frame)
    BY DEF TypeOK
  <1>3. /\ stack' \in Seq(Frame) /\ Len(stack') = n /\ stack'[n] = f
        /\ \A d \in 1 .. n - 1 : stack'[d] = stack[d]
    BY <1>1, <1>2, ReplaceFacts DEF ReplaceTop
  <1>4. ASSUME NEW d \in 1 .. n
        PROVE  Placed(d, stack'[d])
    <2>1. CASE d = n
      BY <2>1, <1>1, <1>3 DEF Placed
    <2>2. CASE d # n
      <3>1. d \in 1 .. n - 1 /\ d \in 1 .. n
        BY <2>2
      <3> QED
        BY <3>1, <1>1, <1>3 DEF Payloads
    <2> QED
      BY <2>1, <2>2
  <1> QED
    BY <1>1, <1>3, <1>4 DEF Stacked

LEMMA PopStack ==
  ASSUME TypeOK, Payloads, stack # <<>>, Pop
  PROVE  Stacked(stack') /\ Len(stack') = Len(stack) - 1
  <1>1. PICK n \in Nat \ {0} : Len(stack) = n /\ n <= MaxDepth
    BY TopFacts
  <1>2. stack \in Seq(Frame)
    BY DEF TypeOK
  <1>3. /\ stack' \in Seq(Frame) /\ Len(stack') = n - 1
        /\ \A d \in 1 .. n - 1 : stack'[d] = stack[d]
    BY <1>1, <1>2, PopFacts DEF Pop
  <1>4. \A d \in 1 .. n - 1 : Placed(d, stack'[d])
    BY <1>1, <1>3 DEF Payloads
  <1>5. n - 1 <= MaxDepth
    BY <1>1, VisitorsAssumption
  <1> QED
    BY <1>1, <1>3, <1>4, <1>5 DEF Stacked

-----------------------------------------------------------------------------

LEMMA IInvInit == Init => IInv
  <1> SUFFICES ASSUME Init PROVE IInv
    OBVIOUS
  <1>1. stack = <<>> /\ Len(stack) = 0
    BY DEF Init
  <1>2. TypeOK
    <2>1. stack \in Seq(Frame) /\ Len(stack) <= MaxDepth /\ 0 \in 0..MaxDepth + 1
      BY <1>1, VisitorsAssumption
    <2> QED
      BY <2>1 DEF Init, TypeOK
  <1> QED
    BY <1>1, <1>2 DEF Init, IInv, Payloads, RightFunction, Closed

(* What a wrapper's address yields is a function or junk.                  *)
LEMMA WrappedType ==
  ASSUME TypeOK, NEW d
  PROVE  WrappedAt(d) \in Fn \cup {Junk}
  <1>1. ASSUME d \in 1..Len(stack)
        PROVE  stack[d] \in Frame
    BY <1>1 DEF TypeOK
  <1> QED
    BY <1>1 DEF WrappedAt, Frame

(* A callback traversal finds its own wrapper.                             *)
LEMMA OwnWrapper ==
  ASSUME TypeOK, Payloads, stack # <<>>, Top.kind # "iterator"
  PROVE  WrappedAt(Top.payload) = Top.fn
  <1>1. PICK n \in Nat \ {0} : Len(stack) = n /\ Top = stack[n] /\ Placed(n, Top)
    BY TopFacts
  <1>2. Top.payload = n /\ n \in 1 .. n
    BY <1>1 DEF Placed
  <1> QED
    BY <1>1, <1>2 DEF WrappedAt

(* The parts of a step, put together again.                                *)
LEMMA Together ==
  ASSUME IInv, Stacked(stack'), Closed', open' \in Nat, lost' \in Nat,
         raised' \in BOOLEAN, registered' \in 0..MaxDepth + 1,
         meant' \in Fn \cup {Junk},
         \/ UNCHANGED call
         \/ /\ call' \in [of : {"traversal", "registration"},
                          meant : Fn \cup {Junk}, got : Fn \cup {Junk}]
            /\ RightFunction'
  PROVE  IInv'
  BY DEF IInv, TypeOK, Stacked, Payloads, RightFunction

LEMMA IInvStep == IInv /\ [Next]_vars => IInv'
  <1> SUFFICES ASSUME IInv, [Next]_vars
               PROVE  IInv'
    OBVIOUS
  <1>0. /\ TypeOK /\ Payloads /\ Closed
        /\ stack \in Seq(Frame) /\ Len(stack) \in Nat /\ Len(stack) <= MaxDepth
        /\ open \in Nat /\ lost \in Nat /\ open = Len(stack) + lost
        /\ raised \in BOOLEAN /\ registered \in 0..MaxDepth + 1
        /\ meant \in Fn \cup {Junk}
    BY DEF IInv, TypeOK, Closed
  <1>1. ASSUME NEW kind \in Kind, NEW f \in Fn, Begin(kind, f)
        PROVE  IInv'
    <2> DEFINE g == [kind |-> kind, fn |-> f, at |-> "libgit2",
                     payload |-> Len(stack) + 1, left |-> Item, seen |-> {},
                     skipped |-> {}]
    <2>1. g \in Frame /\ Placed(Len(stack) + 1, g)
      <3>1. Len(stack) + 1 \in 1..MaxDepth
        BY <1>0, <1>1, VisitorsAssumption DEF Begin
      <3> QED
        BY <3>1 DEF Frame, Placed, Split
    <2>2. stack' = Append(stack, g) /\ Len(stack) < MaxDepth
      BY <1>1 DEF Begin, PayloadOf
    <2> HIDE DEF g
    <2>3. Stacked(stack') /\ Len(stack') = Len(stack) + 1
      BY <1>0, <2>1, <2>2, Push
    <2>4. open' = open + 1 /\ lost' = lost
      BY <1>1 DEF Begin
    <2>5. Closed' /\ open' \in Nat
      BY <1>0, <2>3, <2>4 DEF Closed
    <2> QED
      BY <1>0, <1>1, <2>3, <2>4, <2>5, Together DEF Begin
  <1>2. ASSUME NEW i \in Item, Visit(i)
        PROVE  IInv'
    <2> DEFINE f == [Top EXCEPT !.at = "visitor", !.left = @ \ {i}, !.seen = @ \cup {i}]
    <2>1. stack # <<>> /\ i \in Top.left /\ ReplaceTop(f)
      BY <1>2 DEF Visit, Libgit2Runs
    <2>2. Top \in Frame /\ Split(Top)
      BY <1>0, <2>1, TopFacts DEF Placed
    <2>3. f \in Frame /\ f.payload = Top.payload /\ Split(f)
      BY <1>2, <2>1, <2>2 DEF Frame, Split
    <2> HIDE DEF f
    <2>4. Stacked(stack') /\ Len(stack') = Len(stack)
      BY <1>0, <2>1, <2>3, Replace
    <2>5. /\ call'.of = "traversal" /\ call'.meant = Top.fn
          /\ call'.got = IF Top.kind = "iterator" THEN Top.fn ELSE WrappedAt(Top.payload)
          /\ call' = [of |-> "traversal", meant |-> call'.meant, got |-> call'.got]
      BY <1>2 DEF Visit
    <2>6. Top.fn \in Fn /\ Top.kind \in Kind
      BY <2>2 DEF Frame
    <2>7. call'.got = Top.fn
      BY <1>0, <2>1, <2>5, <2>6, OwnWrapper
    <2>8. /\ call' \in [of : {"traversal", "registration"},
                        meant : Fn \cup {Junk}, got : Fn \cup {Junk}]
          /\ RightFunction'
      BY <2>5, <2>6, <2>7 DEF RightFunction
    <2>9. Closed'
      BY <1>0, <1>2, <2>4 DEF Visit, Closed
    <2> QED
      BY <1>0, <1>2, <2>4, <2>8, <2>9, Together DEF Visit
  <1>3. CASE VisitorReturns
    <2> DEFINE f == [Top EXCEPT !.at = "libgit2"]
    <2>1. stack # <<>> /\ ReplaceTop(f)
      BY <1>3 DEF VisitorReturns
    <2>2. Top \in Frame /\ Split(Top)
      BY <1>0, <2>1, TopFacts DEF Placed
    <2>3. f \in Frame /\ f.payload = Top.payload /\ Split(f)
      BY <2>2 DEF Frame, Split
    <2> HIDE DEF f
    <2>4. Stacked(stack') /\ Len(stack') = Len(stack)
      BY <1>0, <2>1, <2>3, Replace
    <2>5. Closed'
      BY <1>0, <1>3, <2>4 DEF VisitorReturns, Closed
    <2> QED
      BY <1>0, <1>3, <2>4, <2>5, Together DEF VisitorReturns
  <1>10. ASSUME NEW below \in SUBSET Item, VisitorSkips(below)
         PROVE  IInv'
    <2> DEFINE f == [Top EXCEPT !.at = "libgit2", !.left = @ \ below,
                                !.skipped = @ \cup below]
    <2>1. stack # <<>> /\ Top.kind = "walk" /\ below \subseteq Top.left /\ ReplaceTop(f)
      BY <1>10 DEF VisitorSkips
    <2>2. Top \in Frame /\ Split(Top)
      BY <1>0, <2>1, TopFacts DEF Placed
    <2>3. f \in Frame /\ f.payload = Top.payload /\ Split(f)
      BY <2>1, <2>2 DEF Frame, Split
    <2> HIDE DEF f
    <2>4. Stacked(stack') /\ Len(stack') = Len(stack)
      BY <1>0, <2>1, <2>3, Replace
    <2>5. Closed'
      BY <1>0, <1>10, <2>4 DEF VisitorSkips, Closed
    <2> QED
      BY <1>0, <1>10, <2>4, <2>5, Together DEF VisitorSkips
  <1>4. CASE End \/ IteratorFails \/ CallbackFails \/ VisitorStops
    <2>1. stack # <<>> /\ Pop /\ open' = open - 1 /\ lost' = lost
      BY <1>4 DEF End, IteratorFails, CallbackFails, VisitorStops, Libgit2Runs
    <2>2. Stacked(stack') /\ Len(stack') = Len(stack) - 1
      BY <1>0, <2>1, PopStack
    <2>3. Len(stack) # 0
      BY <1>0, <2>1
    <2>4. Closed' /\ open' \in Nat
      BY <1>0, <2>1, <2>2, <2>3 DEF Closed
    <2> QED
      BY <1>0, <1>4, <2>1, <2>2, <2>4, Together
      DEF End, IteratorFails, CallbackFails, VisitorStops
  <1>5. CASE Unwind
    <2>1. stack # <<>> /\ Pop /\ open' = open /\ lost' = lost + 1
      BY <1>5 DEF Unwind
    <2>2. Stacked(stack') /\ Len(stack') = Len(stack) - 1
      BY <1>0, <2>1, PopStack
    <2>3. Closed' /\ lost' \in Nat
      BY <1>0, <2>1, <2>2 DEF Closed
    <2> QED
      BY <1>0, <1>5, <2>1, <2>2, <2>3, Together DEF Unwind
  <1>6. Stacked(stack)
    BY <1>0 DEF Stacked, Payloads
  <1>7. CASE VisitorThrows \/ Catch \/ UNCHANGED vars
    BY <1>0, <1>6, <1>7, Together DEF VisitorThrows, Catch, vars, Closed
  <1>8. ASSUME NEW f \in Fn, Register(f)
        PROVE  IInv'
    <2>1. registered' \in 0..MaxDepth + 1
      BY <1>0, <1>8, VisitorsAssumption DEF Register
    <2> QED
      BY <1>0, <1>6, <1>8, <2>1, Together DEF Register, Closed
  <1>9. CASE CallRegistered
    <2>1. call' = [of |-> "registration", meant |-> meant, got |-> WrappedAt(registered)]
      BY <1>9 DEF CallRegistered
    <2>2. /\ call' \in [of : {"traversal", "registration"},
                        meant : Fn \cup {Junk}, got : Fn \cup {Junk}]
          /\ RightFunction'
      BY <1>0, <2>1, WrappedType DEF RightFunction
    <2> QED
      BY <1>0, <1>6, <1>9, <2>2, Together DEF CallRegistered, Closed
  <1> QED
    BY <1>1, <1>2, <1>3, <1>4, <1>5, <1>7, <1>8, <1>9, <1>10 DEF Next

LEMMA Inductive == Spec => []IInv
  BY IInvInit, IInvStep, PTL DEF Spec

(* The stack of traversals and what libgit2 keeps always have their types. *)
THEOREM TypeCorrect == Spec => []TypeOK
  <1>1. IInv => TypeOK
    BY DEF IInv
  <1> QED
    BY <1>1, Inductive, PTL

(* At any depth of nesting, libgit2 calls for a traversal the function that was
   given for it. *)
THEOREM VisitorsFound == Spec => []RightFunction
  <1>1. IInv => RightFunction
    BY DEF IInv
  <1> QED
    BY <1>1, Inductive, PTL

(* Everything libgit2 opened for a traversal is closed once, unless an exception
   of a visitor has left the traversal. *)
THEOREM TraversalsClosed == Spec => []Closed
  <1>1. IInv => Closed
    BY DEF IInv
  <1> QED
    BY <1>1, Inductive, PTL

(* A callback traversal that is left without an exception has shown its visitor
   every item, but for what tree::walk's visitor skipped. *)
THEOREM CallbacksComplete == Spec => CallbackComplete
  <1> DEFINE Shown == /\ Item \ Top.seen \subseteq Top.skipped
                      /\ Top.kind = "callback" => Top.seen = Item
  <1>1. ASSUME IInv, [Next]_vars, Len(stack') < Len(stack), ~raised',
               Top.kind # "iterator"
        PROVE  Shown
    <2>0. /\ TypeOK /\ Payloads /\ stack \in Seq(Frame) /\ Len(stack) \in Nat
          /\ stack' # stack /\ stack # <<>>
      BY <1>1 DEF IInv, TypeOK
    <2>1. CASE End
      <3>1. Top.left = {}
        BY <2>1 DEF End
      <3>2. Split(Top)
        BY <2>0, TopFacts DEF Placed
      <3> QED
        BY <3>1, <3>2 DEF Split
    <2>2. CASE IteratorFails
      BY <1>1, <2>2 DEF IteratorFails
    <2>3. CASE CallbackFails \/ VisitorStops \/ Unwind
      BY <1>1, <2>3 DEF CallbackFails, VisitorStops, Unwind
    <2>4. ASSUME NEW kind \in Kind, NEW f \in Fn, Begin(kind, f)
          PROVE  FALSE
      <3>1. PICK g : stack' = Append(stack, g)
        BY <2>4 DEF Begin
      <3> QED
        BY <3>1, <2>0, <1>1
    <2>5. CASE VisitorReturns \/ (\E i \in Item : Visit(i))
               \/ (\E below \in SUBSET Item : VisitorSkips(below))
      <3>1. PICK g : stack' = Append(Front(stack), g)
        BY <2>5 DEF VisitorReturns, Visit, VisitorSkips, ReplaceTop
      <3>2. PICK n \in Nat \ {0} : Len(stack) = n
        BY <2>0, TopFacts
      <3>3. Front(stack) \in Seq(Frame) /\ Len(Front(stack)) = n - 1
        BY <2>0, <3>2, PopFacts
      <3> QED
        BY <3>1, <3>2, <3>3, <1>1
    <2>6. CASE VisitorThrows \/ Catch \/ CallRegistered \/ (\E f \in Fn : Register(f))
               \/ UNCHANGED vars
      BY <2>0, <2>6 DEF VisitorThrows, Catch, CallRegistered, Register, vars
    <2> QED
      BY <1>1, <2>1, <2>2, <2>3, <2>4, <2>5, <2>6 DEF Next
  <1>2. IInv /\ [Next]_vars =>
          [Len(stack') < Len(stack) /\ ~raised' /\ Top.kind # "iterator"
             => Shown]_vars
    BY <1>1
  <1> QED
    BY <1>2, Inductive, PTL DEF Spec, CallbackComplete
=============================================================================
