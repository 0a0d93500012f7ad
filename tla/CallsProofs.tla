---------------------------- MODULE CallsProofs -----------------------------
(***************************************************************************)
(* Proofs about Calls, for every set of programs that judge a code at      *)
(* once, and any depth of visitors.                                        *)
(***************************************************************************)
EXTENDS Calls, Facade, SequenceTheorems, TLAPS

Step == Calling \cup Judging \cup {"malloc", "free"}

(* The stack when a function is left, when a step is done, when one is     *)
(* entered.                                                                *)
LEMMA PopFacts ==
  ASSUME NEW F, NEW s \in Seq(F), NEW n \in Nat \ {0}, Len(s) = n
  PROVE  /\ Front(s) \in Seq(F)
         /\ Len(Front(s)) = n - 1
         /\ \A d \in 1 .. n - 1 : Front(s)[d] = s[d]
         /\ Last(s) \in F /\ Last(s) = s[n]
  <1>1. \A i \in 1 .. n - 1 : s[i] \in F
    OBVIOUS
  <1>2. /\ SubSeq(s, 1, n - 1) \in Seq(F)
        /\ Len(SubSeq(s, 1, n - 1)) = IF 1 <= n - 1 THEN n - 1 - 1 + 1 ELSE 0
        /\ \A i \in 1 .. n - 1 - 1 + 1 : SubSeq(s, 1, n - 1)[i] = s[1 + i - 1]
    BY <1>1, SubSeqProperties
  <1>3. Front(s) = SubSeq(s, 1, n - 1)
    BY DEF Front
  <1>4. Len(SubSeq(s, 1, n - 1)) = n - 1
    BY <1>2
  <1>5. ASSUME NEW d \in 1 .. n - 1
        PROVE  SubSeq(s, 1, n - 1)[d] = s[d]
    <2>1. d \in 1 .. n - 1 - 1 + 1 /\ 1 + d - 1 = d
      OBVIOUS
    <2> QED
      BY <2>1, <1>2, Zenon
  <1>6. Last(s) = s[n] /\ s[n] \in F
    BY DEF Last
  <1> QED
    BY <1>2, <1>3, <1>4, <1>5, <1>6, Zenon

LEMMA ReplaceFacts ==
  ASSUME NEW F, NEW s \in Seq(F), NEW n \in Nat \ {0}, Len(s) = n, NEW f \in F
  PROVE  /\ Append(Front(s), f) \in Seq(F)
         /\ Len(Append(Front(s), f)) = n
         /\ Append(Front(s), f)[n] = f
         /\ \A d \in 1 .. n - 1 : Append(Front(s), f)[d] = s[d]
  BY PopFacts

(* The innermost function: its frame has the type, and the step it is at   *)
(* is one of Step.                                                         *)
LEMMA TopFacts ==
  ASSUME TypeOK, stack # <<>>
  PROVE  \E n \in Nat \ {0} :
           /\ Len(stack) = n /\ n <= MaxDepth
           /\ Top = stack[n] /\ Top \in Frame /\ Placed(Top)
           /\ Top.program \in Seq(Step) /\ Prompt(Top.program)
  <1>1. stack \in Seq(Frame) /\ Len(stack) <= MaxDepth
    BY DEF TypeOK
  <1>2. PICK n \in Nat : n = Len(stack)
    BY <1>1
  <1>3. n # 0
    BY <1>1, <1>2
  <1>4. Top = stack[n] /\ Top \in Frame
    BY <1>1, <1>2, <1>3, PopFacts DEF Top
  <1>5. Placed(Top)
    BY <1>2, <1>3, <1>4 DEF TypeOK
  <1>6. Top.program \in Programs
    BY <1>4 DEF Frame
  <1>7. Top.program \in Seq(Step) /\ Prompt(Top.program)
    BY <1>6, CallsAssumption DEF Step
  <1> QED
    BY <1>1, <1>2, <1>3, <1>4, <1>5, <1>7

(* The three ways in which a step changes the stack keep its type.         *)
LEMMA TypePush ==
  ASSUME TypeOK, NEW p \in Programs, Enter(p)
  PROVE  TypeOK'
  <1> DEFINE f == [program |-> p, pc |-> 1, at |-> "code", outcome |-> "ok",
                   by |-> 0, raw |-> FALSE, hidden |-> FALSE]
  <1>1. stack \in Seq(Frame)
    BY DEF TypeOK
  <1>2. PICK n \in Nat : n = Len(stack)
    BY <1>1
  <1>3. f \in Frame
    BY DEF Frame, Outcome
  <1>4. Placed(f)
    <2>1. Len(p) \in Nat
      BY CallsAssumption
    <2> QED
      BY <2>1 DEF Placed
  <1>5. stack' = Append(stack, f) /\ raised = NULL /\ raised' = NULL /\ n < MaxDepth
    BY <1>2 DEF Enter, ClientRuns
  <1> HIDE DEF f
  <1>6. stack' \in Seq(Frame) /\ Len(stack') = n + 1
    BY <1>1, <1>2, <1>3, <1>5
  <1>7. ASSUME NEW d \in 1 .. n + 1
        PROVE  Placed(stack'[d]) /\ (d < n + 1 => stack'[d].at = "visitor")
    <2>1. CASE d = n + 1
      BY <2>1, <1>1, <1>2, <1>4, <1>5
    <2>2. CASE d # n + 1
      <3>1. d \in 1 .. n /\ stack'[d] = stack[d]
        BY <2>2, <1>1, <1>2, <1>3, <1>5
      <3>2. CASE d < n
        BY <3>1, <3>2, <1>2 DEF TypeOK
      <3>3. CASE d = n
        <4>1. stack # <<>>
          BY <3>1, <3>3, <1>1, <1>2
        <4>2. Top = stack[n]
          BY <4>1, <1>2, TopFacts
        <4>3. Top.at = "visitor"
          BY <4>1 DEF Enter, ClientRuns
        <4> QED
          BY <3>1, <3>3, <4>2, <4>3, <1>2 DEF TypeOK
      <3> QED
        BY <3>1, <3>2, <3>3
    <2> QED
      BY <2>1, <2>2
  <1>8. slot' = slot /\ held' = held /\ left' = NULL
    BY DEF Enter
  <1>9. slot' \in Message /\ slot'[1] <= n + 1
    BY <1>2, <1>8, CallsAssumption DEF TypeOK, Message, None, Own, Old
  <1>10. MaxDepth \in Nat
    BY CallsAssumption
  <1> QED
    BY <1>5, <1>6, <1>7, <1>8, <1>9, <1>10 DEF TypeOK

LEMMA TypeReplace ==
  ASSUME TypeOK, stack # <<>>, raised = NULL, UNCHANGED <<raised, held>>, left' = NULL,
         NEW f \in Frame, Placed(f), ReplaceTop(f),
         slot' \in Message, slot'[1] <= Len(stack)
  PROVE  TypeOK'
  <1>1. PICK n \in Nat \ {0} : Len(stack) = n
    BY TopFacts
  <1>2. stack \in Seq(Frame)
    BY DEF TypeOK
  <1>3. /\ stack' \in Seq(Frame) /\ Len(stack') = n /\ stack'[n] = f
        /\ \A d \in 1 .. n - 1 : stack'[d] = stack[d]
    BY <1>1, <1>2, ReplaceFacts DEF ReplaceTop
  <1>4. ASSUME NEW d \in 1 .. n
        PROVE  Placed(stack'[d]) /\ (d < n => stack'[d].at = "visitor")
    <2>1. CASE d = n
      BY <2>1, <1>3
    <2>2. CASE d # n
      BY <2>2, <1>1, <1>3 DEF TypeOK
    <2> QED
      BY <2>1, <2>2
  <1> QED
    BY <1>1, <1>3, <1>4 DEF TypeOK

LEMMA TypePop ==
  ASSUME TypeOK, stack # <<>>, NEW u \in BOOLEAN, Leave(u), held' = held,
         raised' \in ExceptionType \cup {NULL}
  PROVE  TypeOK'
  <1>1. PICK n \in Nat \ {0} : Len(stack) = n /\ n <= MaxDepth /\ Top \in Frame
    BY TopFacts
  <1>2. stack \in Seq(Frame) /\ stack' = Front(stack)
    BY DEF TypeOK, Leave
  <1>3. /\ stack' \in Seq(Frame) /\ Len(stack') = n - 1
        /\ \A d \in 1 .. n - 1 : stack'[d] = stack[d]
    BY <1>1, <1>2, PopFacts
  <1>4. \A d \in 1 .. n - 1 : Placed(stack'[d]) /\ stack'[d].at = "visitor"
    BY <1>1, <1>3 DEF TypeOK
  <1>5. slot' \in Message /\ slot'[1] <= n - 1
    BY <1>1, CallsAssumption DEF TypeOK, Leave, Message, None, Own, Old
  <1>6. left' \in [program : Programs, leaks : BOOLEAN, unseen : BOOLEAN]
    BY <1>1 DEF Leave, Frame
  <1>7. MaxDepth \in Nat
    BY CallsAssumption
  <1> QED
    BY <1>1, <1>3, <1>4, <1>5, <1>6, <1>7 DEF TypeOK

(* What libgit2 leaves in the slot is a message of a running function.     *)
LEMMA SlotType ==
  ASSUME TypeOK, stack # <<>>, NEW outcome \in Outcome, slot' \in SlotAfter(outcome)
  PROVE  slot' \in Message /\ slot'[1] <= Len(stack)
  <1>1. PICK n \in Nat \ {0} : Len(stack) = n /\ n <= MaxDepth /\ Top \in Frame
    BY TopFacts
  <1>2. n \in 1 .. MaxDepth /\ Top.pc \in Nat
    BY <1>1, CallsAssumption DEF Frame
  <1> QED
    BY <1>1, <1>2 DEF SlotAfter, TypeOK, Message, None, Own, Old

(* A step done in the function's own code.                                 *)
LEMMA Advanced ==
  ASSUME NEW f \in Frame, Len(f.program) \in Nat, f.pc <= Len(f.program), NEW g,
         g = [f EXCEPT !.pc = f.pc + 1, !.at = "code", !.outcome = g.outcome, !.by = g.by,
                       !.raw = g.raw, !.hidden = g.hidden],
         g.outcome \in Outcome, g.by \in Nat, g.raw \in BOOLEAN, g.hidden \in BOOLEAN
  PROVE  g \in Frame /\ Placed(g)
  <1> DEFINE k == f.pc + 1
  <1>1. k \in Nat /\ k \in 1 .. Len(f.program) + 1
    BY DEF Frame
  <1>2. g = [f EXCEPT !.pc = k, !.at = "code", !.outcome = g.outcome, !.by = g.by,
                      !.raw = g.raw, !.hidden = g.hidden]
    OBVIOUS
  <1> HIDE DEF k
  <1>3. g \in Frame /\ g.pc = k /\ g.at = "code" /\ g.program = f.program
    BY <1>1, <1>2 DEF Frame
  <1> QED
    BY <1>1, <1>3 DEF Placed

LEMMA AnswerType ==
  ASSUME TypeOK, stack # <<>>, raised = NULL, Top.pc <= Len(Top.program),
         NEW outcome \in Answers, Answer(outcome)
  PROVE  TypeOK'
  <1> DEFINE f == [Top EXCEPT !.at = "code", !.pc = @ + 1, !.outcome = outcome, !.by = Top.pc,
                              !.hidden = @ \/ Failed(Top.outcome),
                              !.raw = @ \/ (Here = "fill" /\ ~Failed(outcome))]
  <1>1. Top \in Frame /\ Placed(Top) /\ Len(Top.program) \in Nat
    BY TopFacts
  <1>2. outcome \in Outcome
    BY DEF Answers, Outcome
  <1>3. /\ f = [Top EXCEPT !.pc = Top.pc + 1, !.at = "code", !.outcome = f.outcome, !.by = f.by,
                           !.raw = f.raw, !.hidden = f.hidden]
        /\ f.outcome \in Outcome /\ f.by \in Nat /\ f.raw \in BOOLEAN /\ f.hidden \in BOOLEAN
    BY <1>1, <1>2 DEF Frame, Failed
  <1>4. f \in Frame /\ Placed(f)
    BY <1>1, <1>3, Advanced
  <1>5. slot' \in Message /\ slot'[1] <= Len(stack)
    BY <1>2, SlotType DEF Answer
  <1>6. ReplaceTop(f) /\ UNCHANGED <<raised, held>> /\ left' = NULL
    BY DEF Answer
  <1> HIDE DEF f
  <1> QED
    BY <1>4, <1>5, <1>6, TypeReplace

LEMMA TypeStep ==
  ASSUME TypeOK, [Next]_vars
  PROVE  TypeOK'
  <1>1. CASE UNCHANGED vars
    BY <1>1 DEF vars, TypeOK
  <1>2. CASE \E p \in Programs : Enter(p)
    BY <1>2, TypePush
  <1>3. CASE Call
    <2>1. raised = NULL /\ stack # <<>> /\ Top.pc <= Len(Top.program)
      BY <1>3 DEF Call, At
    <2> QED
      BY <2>1, <1>3, AnswerType DEF Call
  <1>4. CASE VisitEnds
    <2>1. raised = NULL /\ stack # <<>> /\ Top.at = "libgit2"
      BY <1>4 DEF VisitEnds, InLibgit2
    <2>2. Top.pc <= Len(Top.program)
      BY <2>1, TopFacts DEF Placed
    <2> QED
      BY <2>1, <2>2, <1>4, AnswerType DEF VisitEnds
  <1>5. ASSUME stack # <<>>
        PROVE  slot \in Message /\ slot[1] <= Len(stack)
    BY DEF TypeOK
  <1>6. CASE Drop
    <2>1. raised = NULL /\ stack # <<>> /\ Top.pc <= Len(Top.program) /\ Top.at = "code"
      BY <1>6 DEF Drop, At
    <2>2. PICK outcome \in Answers :
            /\ ReplaceTop([Top EXCEPT !.pc = @ + 1, !.hidden = @ \/ Failed(outcome)])
            /\ slot' \in SlotAfter(outcome)
      BY <1>6 DEF Drop
    <2> DEFINE f == [Top EXCEPT !.pc = @ + 1, !.hidden = @ \/ Failed(outcome)]
    <2>3. Top \in Frame /\ Placed(Top) /\ Len(Top.program) \in Nat
      BY <2>1, TopFacts
    <2>4. outcome \in Outcome
      BY DEF Answers, Outcome
    <2>5. f \in Frame /\ Placed(f)
      <3>1. /\ f = [Top EXCEPT !.pc = Top.pc + 1, !.at = "code", !.outcome = f.outcome, !.by = f.by,
                              !.raw = f.raw, !.hidden = f.hidden]
           /\ f.outcome \in Outcome /\ f.by \in Nat /\ f.raw \in BOOLEAN /\ f.hidden \in BOOLEAN
        BY <2>1, <2>3, <2>4 DEF Frame, Failed
      <3> HIDE DEF f
      <3> QED
        BY <2>1, <2>3, <3>1, Advanced
    <2>6. slot' \in Message /\ slot'[1] <= Len(stack)
      BY <2>1, <2>2, <2>4, SlotType
    <2>7. ReplaceTop(f) /\ UNCHANGED <<raised, held>> /\ left' = NULL
      BY <2>2, <1>6 DEF Drop
    <2> HIDE DEF f
    <2> QED
      BY <2>1, <2>5, <2>6, <2>7, TypeReplace
  <1>7. ASSUME stack # <<>>, raised = NULL, NEW f \in Frame, Placed(f), ReplaceTop(f),
               UNCHANGED <<slot, raised, held>>, left' = NULL
        PROVE  TypeOK'
    BY <1>5, <1>7, TypeReplace
  <1>8. CASE VisitBegins
    <2> DEFINE f == [Top EXCEPT !.at = "libgit2"]
    <2>1. raised = NULL /\ stack # <<>> /\ Top.pc <= Len(Top.program) /\ Here = "visit"
      BY <1>8 DEF VisitBegins, At
    <2>2. Top \in Frame /\ Placed(Top)
      BY <2>1, TopFacts
    <2>3. f \in Frame /\ Placed(f)
      BY <2>1, <2>2 DEF Frame, Placed, Here
    <2>4. ReplaceTop(f) /\ UNCHANGED <<slot, raised, held>> /\ left' = NULL
      BY <1>8 DEF VisitBegins
    <2> HIDE DEF f
    <2> QED
      BY <2>1, <2>3, <2>4, <1>7
  <1>9. CASE VisitorCalled
    <2> DEFINE f == [Top EXCEPT !.at = "visitor"]
    <2>1. raised = NULL /\ stack # <<>> /\ Top.at = "libgit2"
      BY <1>9 DEF VisitorCalled, InLibgit2
    <2>2. Top \in Frame /\ Placed(Top)
      BY <2>1, TopFacts
    <2>3. f \in Frame /\ Placed(f)
      BY <2>1, <2>2 DEF Frame, Placed
    <2>4. ReplaceTop(f) /\ UNCHANGED <<slot, raised, held>> /\ left' = NULL
      BY <1>9 DEF VisitorCalled
    <2> HIDE DEF f
    <2> QED
      BY <2>1, <2>3, <2>4, <1>7
  <1>10. CASE VisitorReturns
    <2> DEFINE f == [Top EXCEPT !.at = "libgit2"]
    <2>1. raised = NULL /\ stack # <<>> /\ Top.at = "visitor"
      BY <1>10 DEF VisitorReturns, ClientRuns
    <2>2. Top \in Frame /\ Placed(Top)
      BY <2>1, TopFacts
    <2>3. f \in Frame /\ Placed(f)
      BY <2>1, <2>2 DEF Frame, Placed
    <2>4. ReplaceTop(f) /\ UNCHANGED <<slot, raised, held>> /\ left' = NULL
      BY <1>10 DEF VisitorReturns
    <2> HIDE DEF f
    <2> QED
      BY <2>1, <2>3, <2>4, <1>7
  <1>11. CASE Allocate
    <2> DEFINE f == [Top EXCEPT !.pc = @ + 1, !.raw = TRUE]
    <2>1. raised = NULL /\ stack # <<>> /\ Top.pc <= Len(Top.program) /\ Top.at = "code"
      BY <1>11 DEF Allocate, At
    <2>2. Top \in Frame /\ Placed(Top) /\ Len(Top.program) \in Nat
      BY <2>1, TopFacts
    <2>3. f \in Frame /\ Placed(f)
      <3>1. /\ f = [Top EXCEPT !.pc = Top.pc + 1, !.at = "code", !.outcome = f.outcome, !.by = f.by,
                              !.raw = f.raw, !.hidden = f.hidden]
           /\ f.outcome \in Outcome /\ f.by \in Nat /\ f.raw \in BOOLEAN /\ f.hidden \in BOOLEAN
        BY <2>1, <2>2 DEF Frame
      <3> HIDE DEF f
      <3> QED
        BY <2>1, <2>2, <3>1, Advanced
    <2>4. ReplaceTop(f) /\ UNCHANGED <<slot, raised, held>> /\ left' = NULL
      BY <1>11 DEF Allocate
    <2> HIDE DEF f
    <2> QED
      BY <2>1, <2>3, <2>4, <1>7
  <1>12. CASE Free
    <2> DEFINE f == [Top EXCEPT !.pc = @ + 1, !.raw = FALSE]
    <2>1. raised = NULL /\ stack # <<>> /\ Top.pc <= Len(Top.program) /\ Top.at = "code"
      BY <1>12 DEF Free, At
    <2>2. Top \in Frame /\ Placed(Top) /\ Len(Top.program) \in Nat
      BY <2>1, TopFacts
    <2>3. f \in Frame /\ Placed(f)
      <3>1. /\ f = [Top EXCEPT !.pc = Top.pc + 1, !.at = "code", !.outcome = f.outcome, !.by = f.by,
                              !.raw = f.raw, !.hidden = f.hidden]
           /\ f.outcome \in Outcome /\ f.by \in Nat /\ f.raw \in BOOLEAN /\ f.hidden \in BOOLEAN
        BY <2>1, <2>2 DEF Frame
      <3> HIDE DEF f
      <3> QED
        BY <2>1, <2>2, <3>1, Advanced
    <2>4. ReplaceTop(f) /\ UNCHANGED <<slot, raised, held>> /\ left' = NULL
      BY <1>12 DEF Free
    <2> HIDE DEF f
    <2> QED
      BY <2>1, <2>3, <2>4, <1>7
  <1>13. CASE Judge
    <2> DEFINE f == [Top EXCEPT !.pc = @ + 1, !.outcome = "ok", !.by = 0,
                                !.hidden = @ \/ Failed(Top.outcome)]
    <2>1. raised = NULL /\ stack # <<>> /\ Top.pc <= Len(Top.program) /\ Top.at = "code"
      BY <1>13 DEF Judge, At
    <2>2. Top \in Frame /\ Placed(Top) /\ Len(Top.program) \in Nat
      BY <2>1, TopFacts
    <2>3. f \in Frame /\ Placed(f)
      <3>1. /\ f = [Top EXCEPT !.pc = Top.pc + 1, !.at = "code", !.outcome = f.outcome, !.by = f.by,
                              !.raw = f.raw, !.hidden = f.hidden]
           /\ f.outcome \in Outcome /\ f.by \in Nat /\ f.raw \in BOOLEAN /\ f.hidden \in BOOLEAN
        BY <2>1, <2>2 DEF Frame, Outcome, Failed
      <3> HIDE DEF f
      <3> QED
        BY <2>1, <2>2, <3>1, Advanced
    <2>4. ReplaceTop(f) /\ UNCHANGED <<slot, raised, held>> /\ left' = NULL
      BY <1>13 DEF Judge
    <2> HIDE DEF f
    <2> QED
      BY <2>1, <2>3, <2>4, <1>7
  <1>14. CASE Throw
    <2>1. stack # <<>> /\ Here \in Judging
      BY <1>14 DEF Throw, At
    <2>2. PICK n \in Nat \ {0} : Len(stack) = n /\ n <= MaxDepth /\ Top \in Frame
      BY <2>1, TopFacts
    <2>3. <<n, Top.by>> \in Message /\ slot \in Message /\ Own \in Message /\ None \in Message
      BY <2>2, CallsAssumption DEF Message, TypeOK, Frame
    <2>4. Exception(Here) \in ExceptionType
      BY <2>1, <2>2, <2>3 DEF Exception, ExceptionType, Frame
    <2>5. raised' = Exception(Here) /\ Leave(FALSE) /\ held' = held
      BY <1>14 DEF Throw
    <2> QED
      BY <2>1, <2>4, <2>5, TypePop
  <1>15. CASE Return
    <2>1. stack # <<>> /\ raised' = raised /\ held' = held
      BY <1>15 DEF Return
    <2>2. Top \in Frame
      BY <2>1, TopFacts
    <2>3. (Top.hidden \/ Failed(Top.outcome)) \in BOOLEAN
      BY <2>2 DEF Frame, Failed
    <2>4. raised \in ExceptionType \cup {NULL}
      BY DEF TypeOK
    <2> QED
      BY <2>1, <2>3, <2>4, <1>15, TypePop DEF Return
  <1>16. CASE Clear
    <2>1. None \in Message /\ None[1] = 0
      BY DEF Message, None
    <2>2. Len(stack) \in Nat
      BY DEF TypeOK
    <2> QED
      BY <2>1, <2>2, <1>16 DEF Clear, TypeOK
  <1>17. CASE VisitorThrows
    <2> DEFINE e == [judge |-> "client", outcome |-> "ok", cause |-> None, message |-> Own]
    <2>1. e \in ExceptionType
      BY DEF ExceptionType, Outcome, Message
    <2>2. raised' = e /\ stack # <<>> /\ Top.at = "visitor" /\ UNCHANGED <<stack, slot, held>> /\ left' = NULL
      BY <1>17 DEF VisitorThrows, ClientRuns
    <2>3. PICK n \in Nat \ {0} : Len(stack) = n /\ Top = stack[n]
      BY <2>2, TopFacts
    <2> HIDE DEF e
    <2>4. \A d \in 1 .. n : Placed(stack[d]) /\ stack[d].at = "visitor"
      BY <2>2, <2>3 DEF TypeOK
    <2> QED
      BY <2>1, <2>2, <2>3, <2>4 DEF TypeOK
  <1>18. CASE Catch
    BY <1>18 DEF Catch, TypeOK
  <1>19. CASE Unwind
    <2>1. stack # <<>> /\ raised' = raised /\ held' = held /\ Leave(FALSE)
      BY <1>19 DEF Unwind
    <2>2. raised \in ExceptionType \cup {NULL}
      BY DEF TypeOK
    <2> QED
      BY <2>1, <2>2, TypePop
  <1> QED
    BY <1>1, <1>2, <1>3, <1>4, <1>6, <1>8, <1>9, <1>10, <1>11, <1>12, <1>13, <1>14, <1>15,
       <1>16, <1>17, <1>18, <1>19 DEF Next

LEMMA TypeInit == Init => TypeOK
  <1>1. Init => stack = <<>> /\ stack \in Seq(Frame) /\ Len(stack) = 0
    BY DEF Init
  <1>2. None \in Message /\ None[1] = 0
    BY DEF Message, None
  <1> QED
    BY <1>1, <1>2, CallsAssumption DEF Init, TypeOK

(* Whatever the functions of the facade are, as long as they judge a code  *)
(* at once, and however deep visitors call them.                           *)
THEOREM TypeCorrect == Spec => []TypeOK
  BY TypeInit, TypeStep, PTL DEF Spec

-----------------------------------------------------------------------------
(* The inductive invariant.  Of the functions that are running it says     *)
(* what the rest of the program has still to do; of the slot, that between *)
(* a call and its judgement nobody else has used it.                       *)

Reporting == {"check", "bool", "null", "own"}

(* Every code is judged by the next step, in a way that reports it.        *)
Honest(p) ==
  \A i \in 1..Len(p) :
    p[i] \in Calling => p[i] # "drop" /\ i < Len(p) /\ p[i + 1] \in Reporting

(* From step i on the function cannot be left before it frees its memory.  *)
Freed(p, i) ==
  \E j \in i..Len(p) : p[j] = "free" /\ \A k \in i..j-1 : p[k] \in {"call", "drop"}

(* So it is from where it gets memory, or from the judgement of the call   *)
(* that fills it, which throws if it did not.                              *)
Careful(p) ==
  \A i \in 1..Len(p) :
    p[i] \in {"malloc", "fill"} =>
      \/ Freed(p, i + 1)
      \/ p[i] = "fill" /\ i < Len(p) /\ p[i + 1] \in Reporting /\ Freed(p, i + 1 + 1)

(* A failure that is not hidden yet is reported by the next step.          *)
HonestFrame(f) ==
  Honest(f.program) =>
    /\ ~f.hidden
    /\ Failed(f.outcome) =>
         f.at = "code" /\ f.pc <= Len(f.program) /\ f.program[f.pc] \in Reporting

(* Raw memory will be freed, if the next step does not throw.              *)
CarefulFrame(f) ==
  Careful(f.program) /\ f.raw =>
    /\ f.at = "code" /\ f.pc <= Len(f.program)
    /\ \/ Freed(f.program, f.pc)
       \/ /\ f.program[f.pc] \in Reporting /\ ~Failed(f.outcome)
          /\ Freed(f.program, f.pc + 1)

SoundFrame(f) == HonestFrame(f) /\ CarefulFrame(f)

(* The error that is about to be judged is the one in the slot.            *)
Fresh ==
  At(Judging) /\ Top.outcome = "error" => slot = <<Len(stack), Top.by>>

(* What a function that was left has left behind.                          *)
HonestLeft == left # NULL /\ left.unseen => ~Honest(left.program)
CarefulLeft == left # NULL /\ left.leaks => ~Careful(left.program)

IInv ==
  /\ TypeOK
  /\ \A d \in 1 .. Len(stack) : SoundFrame(stack[d])
  /\ Fresh
  /\ ExceptionTrue
  /\ HonestLeft
  /\ CarefulLeft

(* A function whose next step is not a judgement that reports has nothing  *)
(* to hide.                                                                *)
LEMMA NothingToReport ==
  ASSUME NEW f, HonestFrame(f), Honest(f.program),
         f.at # "code" \/ f.pc > Len(f.program) \/ f.program[f.pc] \notin Reporting,
         f.pc \in Nat, Len(f.program) \in Nat
  PROVE  ~f.hidden /\ ~Failed(f.outcome)
  BY DEF HonestFrame

(* An honest function judges a call at once, and ignores none.             *)
LEMMA CallsHonestly ==
  ASSUME NEW p, Honest(p), Len(p) \in Nat, NEW i \in 1 .. Len(p), p[i] \in Calling
  PROVE  p[i] # "drop" /\ i + 1 <= Len(p) /\ p[i + 1] \in Reporting
  BY DEF Honest, Reporting

(* Memory that will be freed will be after any step of the kind that       *)
(* cannot leave the function, and the step that frees it needs no other.   *)
LEMMA FreedStep ==
  ASSUME NEW p, Len(p) \in Nat, NEW i \in Nat, Freed(p, i)
  PROVE  /\ i <= Len(p) /\ p[i] \in {"call", "drop", "free"}
         /\ p[i] # "free" => Freed(p, i + 1)
  <1>1. PICK j \in i..Len(p) : p[j] = "free" /\ \A k \in i..j-1 : p[k] \in {"call", "drop"}
    BY DEF Freed
  <1>2. CASE j = i
    BY <1>1, <1>2
  <1>3. CASE j # i
    <2>1. i \in i..j-1 /\ j \in i+1..Len(p) /\ \A k \in i+1..j-1 : k \in i..j-1
      BY <1>3
    <2> QED
      BY <1>1, <2>1 DEF Freed
  <1> QED
    BY <1>2, <1>3

(* The frame after a call that was answered, after a call whose code is    *)
(* ignored, and after the other steps.                                     *)
LEMMA SoundAnswer ==
  ASSUME NEW f \in Frame, Placed(f), SoundFrame(f), Len(f.program) \in Nat,
         f.pc <= Len(f.program), f.program[f.pc] \in {"call", "fill", "visit"},
         NEW outcome \in Outcome, NEW g \in Frame,
         g.program = f.program, g.pc = f.pc + 1, g.at = "code", g.outcome = outcome,
         g.hidden = (f.hidden \/ Failed(f.outcome)),
         g.raw = (f.raw \/ (f.program[f.pc] = "fill" /\ ~Failed(outcome)))
  PROVE  SoundFrame(g)
  <1> DEFINE i == f.pc
             p == f.program
  <1>1. i \in 1 .. Len(p) /\ p[i] \in Calling /\ p[i] \notin Reporting /\ p[i] # "free"
    BY DEF Placed, Frame, Calling, Reporting
  <1>2. HonestFrame(g)
    <2>1. SUFFICES ASSUME Honest(p)
                   PROVE  ~g.hidden /\ g.pc <= Len(g.program) /\ g.program[g.pc] \in Reporting
      BY DEF HonestFrame
    <2>2. ~f.hidden /\ ~Failed(f.outcome)
      BY <2>1, <1>1, NothingToReport DEF SoundFrame
    <2>3. i + 1 <= Len(p) /\ p[i + 1] \in Reporting
      BY <2>1, <1>1, CallsHonestly
    <2> QED
      BY <2>2, <2>3
  <1>3. CarefulFrame(g)
    <2>1. SUFFICES ASSUME Careful(p), g.raw
                   PROVE  /\ i + 1 <= Len(p)
                          /\ \/ Freed(p, i + 1)
                             \/ /\ p[i + 1] \in Reporting /\ ~Failed(outcome)
                                /\ Freed(p, i + 1 + 1)
      BY DEF CarefulFrame
    <2>2. CASE f.raw
      <3>1. Freed(p, i) /\ p[i] # "free"
        BY <2>1, <2>2, <1>1 DEF SoundFrame, CarefulFrame
      <3>2. Freed(p, i + 1)
        BY <3>1, <1>1, FreedStep
      <3>3. i + 1 <= Len(p)
        BY <3>2, <1>1, FreedStep
      <3> QED
        BY <3>2, <3>3
    <2>3. CASE ~f.raw
      <3>1. p[i] = "fill" /\ ~Failed(outcome)
        BY <2>1, <2>3
      <3>2. \/ Freed(p, i + 1)
            \/ i < Len(p) /\ p[i + 1] \in Reporting /\ Freed(p, i + 1 + 1)
        BY <2>1, <3>1, <1>1 DEF Careful
      <3>3. i + 1 <= Len(p)
        BY <3>2, <1>1, FreedStep
      <3> QED
        BY <3>1, <3>2, <3>3
    <2> QED
      BY <2>2, <2>3
  <1> QED
    BY <1>2, <1>3 DEF SoundFrame

LEMMA SoundDrop ==
  ASSUME NEW f \in Frame, Placed(f), SoundFrame(f), Len(f.program) \in Nat,
         f.pc <= Len(f.program), f.program[f.pc] = "drop", f.at = "code", NEW g,
         g.program = f.program, g.raw = f.raw, g.at = "code", g.pc = f.pc + 1
  PROVE  SoundFrame(g)
  <1>1. /\ f.pc \in 1 .. Len(f.program) /\ "drop" \in Calling /\ "drop" \notin Reporting
        /\ f.pc \in Nat
    BY DEF Placed, Calling, Reporting
  <1>2. ~Honest(f.program)
    BY <1>1, CallsHonestly
  <1>3. Careful(f.program) /\ f.raw =>
          Freed(f.program, f.pc + 1) /\ f.pc + 1 <= Len(f.program)
    <2>1. SUFFICES ASSUME Careful(f.program), f.raw
                   PROVE  Freed(f.program, f.pc + 1) /\ f.pc + 1 <= Len(f.program)
      OBVIOUS
    <2>2. Freed(f.program, f.pc)
      BY <2>1, <1>1 DEF SoundFrame, CarefulFrame
    <2>3. Freed(f.program, f.pc + 1)
      BY <2>2, <1>1, FreedStep
    <2> QED
      BY <2>3, <1>1, FreedStep
  <1> QED
    BY <1>2, <1>3 DEF SoundFrame, HonestFrame, CarefulFrame

(* Inside a visit nothing is held and nothing is hidden.                   *)
LEMMA SoundVisit ==
  ASSUME NEW f \in Frame, Placed(f), SoundFrame(f), Len(f.program) \in Nat,
         f.at # "code" \/ (f.pc <= Len(f.program) /\ f.program[f.pc] = "visit"), NEW g,
         g.program = f.program, g.raw = f.raw, g.hidden = f.hidden, g.outcome = f.outcome
  PROVE  SoundFrame(g)
  <1>1. f.pc \in Nat /\ "visit" \notin Reporting
    BY DEF Placed, Reporting
  <1>2. HonestFrame(g)
    BY <1>1, NothingToReport DEF SoundFrame, HonestFrame
  <1>3. ~(Careful(f.program) /\ f.raw)
    <2>1. f.program[f.pc] = "visit" => ~Freed(f.program, f.pc)
      BY <1>1, FreedStep
    <2> QED
      BY <1>1, <2>1 DEF SoundFrame, CarefulFrame
  <1>4. CarefulFrame(g)
    BY <1>3 DEF CarefulFrame
  <1> QED
    BY <1>2, <1>4 DEF SoundFrame

LEMMA SoundJudge ==
  ASSUME NEW f \in Frame, Placed(f), SoundFrame(f), Len(f.program) \in Nat,
         f.pc <= Len(f.program), f.program[f.pc] \in Judging, ~Throws(f.program[f.pc], f.outcome),
         NEW g, g.program = f.program, g.pc = f.pc + 1, g.at = "code", g.outcome = "ok",
         g.hidden = (f.hidden \/ Failed(f.outcome)), g.raw = f.raw
  PROVE  SoundFrame(g)
  <1>1. f.pc \in Nat /\ f.program[f.pc] \notin {"call", "drop", "free"}
    BY DEF Placed, Judging
  <1>2. Honest(f.program) => ~f.hidden /\ ~Failed(f.outcome)
    BY DEF SoundFrame, HonestFrame, Reporting, Throws
  <1>3. ~Failed(g.outcome)
    BY DEF Failed
  <1>4. HonestFrame(g)
    BY <1>2, <1>3 DEF HonestFrame
  <1>5. CarefulFrame(g)
    <2>1. SUFFICES ASSUME Careful(f.program), f.raw
                   PROVE  Freed(f.program, f.pc + 1) /\ f.pc + 1 <= Len(f.program)
      BY DEF CarefulFrame
    <2>2. ~Freed(f.program, f.pc)
      BY <1>1, FreedStep
    <2>3. Freed(f.program, f.pc + 1)
      BY <2>1, <2>2 DEF SoundFrame, CarefulFrame
    <2> QED
      BY <1>1, <2>3, FreedStep
  <1> QED
    BY <1>4, <1>5 DEF SoundFrame

LEMMA SoundMemory ==
  ASSUME NEW f \in Frame, Placed(f), SoundFrame(f), Len(f.program) \in Nat,
         f.pc <= Len(f.program), f.program[f.pc] \in {"malloc", "free"},
         NEW g, g.program = f.program, g.pc = f.pc + 1, g.at = "code", g.outcome = f.outcome,
         g.hidden = f.hidden, g.raw = (f.program[f.pc] = "malloc")
  PROVE  SoundFrame(g)
  <1>1. f.pc \in 1 .. Len(f.program) /\ f.program[f.pc] \notin Reporting
    BY DEF Placed, Reporting
  <1>2. HonestFrame(g)
    BY <1>1, NothingToReport DEF SoundFrame, HonestFrame
  <1>3. CarefulFrame(g)
    <2>1. SUFFICES ASSUME Careful(f.program), g.raw
                   PROVE  g.pc <= Len(g.program) /\ Freed(g.program, g.pc)
      BY DEF CarefulFrame
    <2>2. f.program[f.pc] = "malloc"
      BY <2>1
    <2>3. Freed(f.program, f.pc + 1)
      BY <2>1, <2>2, <1>1 DEF Careful
    <2> QED
      BY <2>3, <1>1, FreedStep
  <1> QED
    BY <1>2, <1>3 DEF SoundFrame

AllSound == \A d \in 1 .. Len(stack) : SoundFrame(stack[d])

(* The stack as a whole is sound when the frame that changed is.           *)
LEMMA SoundReplace ==
  ASSUME TypeOK, stack # <<>>, AllSound, NEW f \in Frame, SoundFrame(f), ReplaceTop(f)
  PROVE  AllSound'
  <1>1. PICK n \in Nat \ {0} : Len(stack) = n
    BY TopFacts
  <1>2. stack \in Seq(Frame)
    BY DEF TypeOK
  <1>3. /\ Len(stack') = n /\ stack'[n] = f
        /\ \A d \in 1 .. n - 1 : stack'[d] = stack[d]
    BY <1>1, <1>2, ReplaceFacts DEF ReplaceTop
  <1>4. ASSUME NEW d \in 1 .. n
        PROVE  SoundFrame(stack'[d])
    <2>1. CASE d = n
      BY <2>1, <1>3
    <2>2. CASE d # n
      <3>1. stack'[d] = stack[d]
        BY <2>2, <1>3
      <3> QED
        BY <3>1, <1>1 DEF AllSound
    <2> QED
      BY <2>1, <2>2
  <1> QED
    BY <1>3, <1>4 DEF AllSound

LEMMA SoundPop ==
  ASSUME TypeOK, stack # <<>>, AllSound, stack' = Front(stack)
  PROVE  AllSound'
  <1>1. PICK n \in Nat \ {0} : Len(stack) = n
    BY TopFacts
  <1>2. stack \in Seq(Frame)
    BY DEF TypeOK
  <1>3. Len(stack') = n - 1 /\ \A d \in 1 .. n - 1 : stack'[d] = stack[d]
    BY <1>1, <1>2, PopFacts
  <1>4. ASSUME NEW d \in 1 .. n - 1
        PROVE  SoundFrame(stack'[d])
    <2>1. stack'[d] = stack[d] /\ d \in 1 .. Len(stack)
      BY <1>1, <1>3
    <2> QED
      BY <2>1 DEF AllSound
  <1> QED
    BY <1>3, <1>4 DEF AllSound

LEMMA SoundPush ==
  ASSUME TypeOK, AllSound, NEW p \in Programs, Enter(p)
  PROVE  AllSound'
  <1> DEFINE f == [program |-> p, pc |-> 1, at |-> "code", outcome |-> "ok",
                   by |-> 0, raw |-> FALSE, hidden |-> FALSE]
  <1>1. stack \in Seq(Frame)
    BY DEF TypeOK
  <1>2. PICK n \in Nat : n = Len(stack)
    BY <1>1
  <1>3. f \in Frame /\ SoundFrame(f)
    BY DEF Frame, Outcome, SoundFrame, HonestFrame, CarefulFrame, Failed
  <1>4. stack' = Append(stack, f)
    BY DEF Enter
  <1> HIDE DEF f
  <1>5. Len(stack') = n + 1
    BY <1>1, <1>2, <1>3, <1>4
  <1>6. ASSUME NEW d \in 1 .. n + 1
        PROVE  SoundFrame(stack'[d])
    <2>1. CASE d = n + 1
      <3>1. stack'[d] = f
        BY <2>1, <1>1, <1>2, <1>3, <1>4
      <3> QED
        BY <3>1, <1>3
    <2>2. CASE d # n + 1
      <3>1. stack'[d] = stack[d] /\ d \in 1 .. Len(stack)
        BY <2>2, <1>1, <1>2, <1>3, <1>4
      <3> QED
        BY <3>1 DEF AllSound
    <2> QED
      BY <2>1, <2>2
  <1> QED
    BY <1>5, <1>6 DEF AllSound

(* What is known of the innermost function.                                *)
LEMMA TopSound ==
  ASSUME TypeOK, stack # <<>>, AllSound
  PROVE  SoundFrame(Top)
  <1>1. PICK n \in Nat \ {0} : Len(stack) = n /\ Top = stack[n]
    BY TopFacts
  <1>2. n \in 1 .. Len(stack)
    BY <1>1
  <1> QED
    BY <1>1, <1>2 DEF AllSound

LEMMA SoundStep ==
  ASSUME TypeOK, TypeOK', AllSound, [Next]_vars
  PROVE  AllSound'
  <1> USE DEF Here
  <1>1. CASE UNCHANGED stack
    BY <1>1 DEF AllSound
  <1>2. CASE \E p \in Programs : Enter(p)
    BY <1>2, SoundPush
  <1>3. CASE stack # <<>> /\ stack' = Front(stack)
    BY <1>3, SoundPop
  <1>4. ASSUME stack # <<>>
        PROVE  Top \in Frame /\ Placed(Top) /\ Len(Top.program) \in Nat /\ SoundFrame(Top)
    BY <1>4, TopFacts, TopSound
  <1>5. ASSUME stack # <<>>, NEW f, ReplaceTop(f)
        PROVE  f \in Frame
    <2>1. PICK n \in Nat \ {0} : Len(stack) = n
      BY <1>5, TopFacts
    <2>2. stack \in Seq(Frame) /\ stack' \in Seq(Frame)
      BY DEF TypeOK
    <2>3. Front(stack) \in Seq(Frame) /\ Len(Front(stack)) = n - 1
      BY <2>1, <2>2, PopFacts
    <2>4. stack' = Append(Front(stack), f)
      BY <1>5 DEF ReplaceTop
    <2>5. Len(stack') = n /\ stack'[n] = f
      BY <2>3, <2>4
    <2> QED
      BY <2>2, <2>5
  <1>6. ASSUME stack # <<>>, Top.pc <= Len(Top.program), Here \in {"call", "fill", "visit"},
               NEW outcome \in Answers, Answer(outcome)
        PROVE  AllSound'
    <2> DEFINE g == [Top EXCEPT !.at = "code", !.pc = @ + 1, !.outcome = outcome, !.by = Top.pc,
                                !.hidden = @ \/ Failed(Top.outcome),
                                !.raw = @ \/ (Here = "fill" /\ ~Failed(outcome))]
    <2>1. ReplaceTop(g)
      BY <1>6 DEF Answer
    <2>2. outcome \in Outcome
      BY DEF Answers, Outcome
    <2>3. /\ g.program = Top.program /\ g.pc = Top.pc + 1 /\ g.at = "code" /\ g.outcome = outcome
          /\ g.hidden = (Top.hidden \/ Failed(Top.outcome))
          /\ g.raw = (Top.raw \/ (Top.program[Top.pc] = "fill" /\ ~Failed(outcome)))
      BY <1>4, <1>6 DEF Frame
    <2> HIDE DEF g
    <2>4. g \in Frame
      BY <1>5, <1>6, <2>1
    <2>5. SoundFrame(g)
      BY <1>4, <1>6, <2>2, <2>3, <2>4, SoundAnswer
    <2> QED
      BY <1>6, <2>1, <2>4, <2>5, SoundReplace
  <1>7. CASE Call
    <2>1. stack # <<>> /\ Top.pc <= Len(Top.program) /\ Here \in {"call", "fill", "visit"}
      BY <1>7 DEF Call, At
    <2> QED
      BY <2>1, <1>7, <1>6 DEF Call
  <1>8. CASE VisitEnds
    <2>1. stack # <<>> /\ Top.at = "libgit2"
      BY <1>8 DEF VisitEnds, InLibgit2
    <2>2. Top.pc <= Len(Top.program) /\ Here \in {"call", "fill", "visit"}
      BY <2>1, <1>4 DEF Placed
    <2> QED
      BY <2>1, <2>2, <1>8, <1>6 DEF VisitEnds
  <1>9. CASE Drop
    <2>1. stack # <<>> /\ Top.pc <= Len(Top.program) /\ Top.program[Top.pc] = "drop"
      BY <1>9 DEF Drop, At
    <2>2. PICK outcome \in Answers :
            ReplaceTop([Top EXCEPT !.pc = @ + 1, !.hidden = @ \/ Failed(outcome)])
      BY <1>9 DEF Drop
    <2> DEFINE g == [Top EXCEPT !.pc = @ + 1, !.hidden = @ \/ Failed(outcome)]
    <2>3. /\ ReplaceTop(g) /\ g.program = Top.program /\ g.raw = Top.raw
          /\ g.at = "code" /\ g.pc = Top.pc + 1 /\ Top.at = "code"
      BY <2>1, <2>2, <1>4, <1>9 DEF Frame, Drop, At
    <2> HIDE DEF g
    <2>4. SoundFrame(g) /\ g \in Frame
      BY <2>1, <2>3, <1>4, <1>5, SoundDrop
    <2> QED
      BY <2>1, <2>3, <2>4, SoundReplace
  <1>10. ASSUME stack # <<>>,
                Top.at # "code" \/ (Top.pc <= Len(Top.program) /\ Here = "visit"),
                NEW at, ReplaceTop([Top EXCEPT !.at = at])
         PROVE  AllSound'
    <2> DEFINE g == [Top EXCEPT !.at = at]
    <2>1. /\ g.program = Top.program /\ g.raw = Top.raw /\ g.hidden = Top.hidden
          /\ g.outcome = Top.outcome /\ ReplaceTop(g)
      BY <1>10, <1>4 DEF Frame
    <2> HIDE DEF g
    <2>2. SoundFrame(g) /\ g \in Frame
      BY <1>10, <2>1, <1>4, <1>5, SoundVisit
    <2> QED
      BY <1>10, <2>1, <2>2, SoundReplace
  <1>11. CASE VisitBegins
    <2>1. stack # <<>> /\ Top.pc <= Len(Top.program) /\ Here = "visit"
      BY <1>11 DEF VisitBegins, At
    <2> QED
      BY <2>1, <1>11, <1>10 DEF VisitBegins
  <1>12. CASE VisitorCalled
    BY <1>12, <1>10 DEF VisitorCalled, InLibgit2
  <1>13. CASE VisitorReturns
    BY <1>13, <1>10 DEF VisitorReturns, ClientRuns
  <1>14. CASE Allocate
    <2> DEFINE g == [Top EXCEPT !.pc = @ + 1, !.raw = TRUE]
    <2>1. stack # <<>> /\ Top.pc <= Len(Top.program) /\ Top.program[Top.pc] = "malloc"
      BY <1>14 DEF Allocate, At
    <2>2. /\ g.program = Top.program /\ g.pc = Top.pc + 1 /\ g.at = "code"
          /\ g.outcome = Top.outcome /\ g.hidden = Top.hidden
          /\ g.raw = (Top.program[Top.pc] = "malloc") /\ ReplaceTop(g)
      BY <2>1, <1>4, <1>14 DEF Frame, Allocate, At
    <2> HIDE DEF g
    <2>3. SoundFrame(g) /\ g \in Frame
      BY <2>1, <2>2, <1>4, <1>5, SoundMemory
    <2> QED
      BY <2>1, <2>2, <2>3, SoundReplace
  <1>15. CASE Free
    <2> DEFINE g == [Top EXCEPT !.pc = @ + 1, !.raw = FALSE]
    <2>1. stack # <<>> /\ Top.pc <= Len(Top.program) /\ Top.program[Top.pc] = "free"
      BY <1>15 DEF Free, At
    <2>2. /\ g.program = Top.program /\ g.pc = Top.pc + 1 /\ g.at = "code"
          /\ g.outcome = Top.outcome /\ g.hidden = Top.hidden
          /\ g.raw = (Top.program[Top.pc] = "malloc") /\ ReplaceTop(g)
      BY <2>1, <1>4, <1>15 DEF Frame, Free, At
    <2> HIDE DEF g
    <2>3. SoundFrame(g) /\ g \in Frame
      BY <2>1, <2>2, <1>4, <1>5, SoundMemory
    <2> QED
      BY <2>1, <2>2, <2>3, SoundReplace
  <1>16. CASE Judge
    <2> DEFINE g == [Top EXCEPT !.pc = @ + 1, !.outcome = "ok", !.by = 0,
                                !.hidden = @ \/ Failed(Top.outcome)]
    <2>1. /\ stack # <<>> /\ Top.pc <= Len(Top.program) /\ Top.program[Top.pc] \in Judging
          /\ ~Throws(Top.program[Top.pc], Top.outcome)
      BY <1>16 DEF Judge, At
    <2>2. /\ g.program = Top.program /\ g.pc = Top.pc + 1 /\ g.at = "code"
          /\ g.outcome = "ok" /\ g.hidden = (Top.hidden \/ Failed(Top.outcome))
          /\ g.raw = Top.raw /\ ReplaceTop(g)
      BY <2>1, <1>4, <1>16 DEF Frame, Judge, At
    <2> HIDE DEF g
    <2>3. SoundFrame(g) /\ g \in Frame
      BY <2>1, <2>2, <1>4, <1>5, SoundJudge
    <2> QED
      BY <2>1, <2>2, <2>3, SoundReplace
  <1>17. CASE Throw \/ Return \/ Unwind
    <2>1. stack # <<>> /\ stack' = Front(stack)
      BY <1>17 DEF Throw, Return, Unwind, At, Leave
    <2> QED
      BY <2>1, <1>3
  <1>18. CASE Clear \/ VisitorThrows \/ Catch
    BY <1>18, <1>1 DEF Clear, VisitorThrows, Catch
  <1> QED
    BY <1>1, <1>2, <1>7, <1>8, <1>9, <1>11, <1>12, <1>13, <1>14, <1>15, <1>16, <1>17, <1>18
    DEF Next, vars

LEMMA TopReplaced ==
  ASSUME TypeOK, TypeOK', stack # <<>>, NEW f, ReplaceTop(f)
  PROVE  Top' = f /\ stack' # <<>> /\ Len(stack') = Len(stack)
  <1>1. PICK n \in Nat \ {0} : Len(stack) = n
    BY TopFacts
  <1>2. stack \in Seq(Frame) /\ stack' \in Seq(Frame)
    BY DEF TypeOK
  <1>3. Front(stack) \in Seq(Frame) /\ Len(Front(stack)) = n - 1
    BY <1>1, <1>2, PopFacts
  <1>4. Len(stack') = n /\ stack'[n] = f
    BY <1>3 DEF ReplaceTop
  <1> QED
    BY <1>1, <1>2, <1>4 DEF Top, Last

(* After a step that is no call there is nothing to judge.                 *)
LEMMA NothingToJudge ==
  ASSUME TypeOK, TypeOK', stack # <<>>, NEW f, ReplaceTop(f),
         Top.pc <= Len(Top.program), Here \notin Calling \ {"drop"},
         f.program = Top.program, f.pc = Top.pc + 1
  PROVE  ~At(Judging)'
  <1>1. Top' = f
    BY TopReplaced
  <1>2. Top \in Frame /\ Placed(Top) /\ Prompt(Top.program) /\ Len(Top.program) \in Nat
    BY TopFacts
  <1>3. SUFFICES ASSUME f.pc <= Len(f.program), f.program[f.pc] \in Judging
                 PROVE  FALSE
    BY <1>1 DEF At, Here
  <1> DEFINE i == Top.pc + 1
  <1>4. i \in 1 .. Len(Top.program) /\ Top.program[i] \in Judging /\ i - 1 = Top.pc
    BY <1>2, <1>3 DEF Placed
  <1>5. Top.program[i - 1] \in Calling \ {"drop"}
    BY <1>2, <1>4 DEF Prompt
  <1> QED
    BY <1>4, <1>5 DEF Here

(* A function that comes back to the top is in a visit.                    *)
LEMMA OuterVisits ==
  ASSUME TypeOK, TypeOK', stack # <<>>, stack' = Front(stack)
  PROVE  ~At(Judging)'
  <1>1. PICK n \in Nat \ {0} : Len(stack) = n
    BY TopFacts
  <1>2. stack \in Seq(Frame) /\ stack' \in Seq(Frame)
    BY DEF TypeOK
  <1>3. Len(stack') = n - 1 /\ \A d \in 1 .. n - 1 : stack'[d] = stack[d]
    BY <1>1, <1>2, PopFacts
  <1>4. ASSUME stack' # <<>>
        PROVE  Top'.at = "visitor"
    <2>1. n - 1 \in 1 .. n - 1 /\ Top' = stack'[n - 1]
      BY <1>1, <1>2, <1>3, <1>4 DEF Top, Last
    <2>2. Top' = stack[n - 1]
      BY <2>1, <1>3
    <2> QED
      BY <1>1, <2>1, <2>2 DEF TypeOK
  <1> QED
    BY <1>4 DEF At

LEMMA FreshStep ==
  ASSUME TypeOK, TypeOK', Fresh, [Next]_vars
  PROVE  Fresh'
  <1>1. CASE UNCHANGED vars
    BY <1>1 DEF vars, Fresh, At, Top, Here
  <1>2. ASSUME stack # <<>>
        PROVE  Top \in Frame /\ Placed(Top) /\ Len(Top.program) \in Nat
    BY <1>2, TopFacts
  <1>3. CASE \E p \in Programs : Enter(p)
    <2>1. PICK p \in Programs : Enter(p)
      BY <1>3
    <2> DEFINE f == [program |-> p, pc |-> 1, at |-> "code", outcome |-> "ok",
                     by |-> 0, raw |-> FALSE, hidden |-> FALSE]
    <2>2. stack' = Append(stack, f) /\ stack \in Seq(Frame) /\ f \in Frame /\ f.outcome = "ok"
      BY <2>1 DEF Enter, TypeOK, Frame, Outcome
    <2> HIDE DEF f
    <2>3. Top' = f
      BY <2>2 DEF Top, Last
    <2> QED
      BY <2>2, <2>3 DEF Fresh
  <1>4. ASSUME stack # <<>>, NEW outcome \in Answers, Answer(outcome)
        PROVE  Fresh'
    <2> DEFINE g == [Top EXCEPT !.at = "code", !.pc = @ + 1, !.outcome = outcome, !.by = Top.pc,
                                !.hidden = @ \/ Failed(Top.outcome),
                                !.raw = @ \/ (Here = "fill" /\ ~Failed(outcome))]
    <2>1. ReplaceTop(g) /\ slot' \in SlotAfter(outcome)
      BY <1>4 DEF Answer
    <2>2. g.outcome = outcome /\ g.by = Top.pc
      BY <1>2, <1>4 DEF Frame
    <2> HIDE DEF g
    <2>3. Top' = g /\ Len(stack') = Len(stack)
      BY <1>4, <2>1, TopReplaced
    <2>4. outcome = "error" => slot' = <<Len(stack), Top.pc>>
      BY <2>1 DEF SlotAfter
    <2> QED
      BY <2>2, <2>3, <2>4 DEF Fresh
  <1>5. CASE Call \/ VisitEnds
    BY <1>5, <1>4 DEF Call, VisitEnds, At, InLibgit2
  <1>6. CASE Drop
    <2>1. stack # <<>> /\ Top.pc <= Len(Top.program) /\ Here = "drop"
      BY <1>6 DEF Drop, At
    <2>2. PICK outcome \in Answers :
            ReplaceTop([Top EXCEPT !.pc = @ + 1, !.hidden = @ \/ Failed(outcome)])
      BY <1>6 DEF Drop
    <2> DEFINE g == [Top EXCEPT !.pc = @ + 1, !.hidden = @ \/ Failed(outcome)]
    <2>3. ReplaceTop(g) /\ g.program = Top.program /\ g.pc = Top.pc + 1
      BY <2>1, <2>2, <1>2 DEF Frame
    <2> HIDE DEF g
    <2> QED
      BY <2>1, <2>3, NothingToJudge DEF Fresh
  <1>7. ASSUME stack # <<>>, NEW at \in {"libgit2", "visitor"}, ReplaceTop([Top EXCEPT !.at = at])
        PROVE  Fresh'
    <2> DEFINE g == [Top EXCEPT !.at = at]
    <2>1. g.at # "code"
      BY <1>2, <1>7 DEF Frame
    <2>2. Top' = g
      BY <1>7, TopReplaced
    <2> QED
      BY <2>1, <2>2 DEF Fresh, At
  <1>8. CASE VisitBegins \/ VisitorCalled \/ VisitorReturns
    BY <1>8, <1>7 DEF VisitBegins, VisitorCalled, VisitorReturns, At, InLibgit2
  <1>9. CASE Allocate
    <2> DEFINE g == [Top EXCEPT !.pc = @ + 1, !.raw = TRUE]
    <2>1. stack # <<>> /\ Top.pc <= Len(Top.program) /\ Here = "malloc" /\ ReplaceTop(g)
      BY <1>9 DEF Allocate, At
    <2>2. g.program = Top.program /\ g.pc = Top.pc + 1
      BY <2>1, <1>2 DEF Frame
    <2> HIDE DEF g
    <2> QED
      BY <2>1, <2>2, NothingToJudge DEF Fresh, Calling
  <1>10. CASE Free
    <2> DEFINE g == [Top EXCEPT !.pc = @ + 1, !.raw = FALSE]
    <2>1. stack # <<>> /\ Top.pc <= Len(Top.program) /\ Here = "free" /\ ReplaceTop(g)
      BY <1>10 DEF Free, At
    <2>2. g.program = Top.program /\ g.pc = Top.pc + 1
      BY <2>1, <1>2 DEF Frame
    <2> HIDE DEF g
    <2> QED
      BY <2>1, <2>2, NothingToJudge DEF Fresh, Calling
  <1>11. CASE Judge
    <2> DEFINE g == [Top EXCEPT !.pc = @ + 1, !.outcome = "ok", !.by = 0,
                                !.hidden = @ \/ Failed(Top.outcome)]
    <2>1. stack # <<>> /\ ReplaceTop(g)
      BY <1>11 DEF Judge, At
    <2>2. g.outcome = "ok"
      BY <2>1, <1>2 DEF Frame
    <2> HIDE DEF g
    <2>3. Top' = g
      BY <2>1, TopReplaced
    <2> QED
      BY <2>2, <2>3 DEF Fresh
  <1>12. CASE Throw \/ Return \/ Unwind
    <2>1. stack # <<>> /\ stack' = Front(stack)
      BY <1>12 DEF Throw, Return, Unwind, At, Leave
    <2> QED
      BY <2>1, OuterVisits DEF Fresh
  <1>13. CASE Clear \/ VisitorThrows \/ Catch
    <2>1. stack' = stack /\ (stack # <<>> => Top.at = "visitor")
      <3>1. CASE Clear \/ VisitorThrows
        BY <3>1 DEF Clear, VisitorThrows, ClientRuns
      <3>2. CASE Catch
        <4>1. stack' = stack /\ raised # NULL
          BY <3>2 DEF Catch
        <4>2. ASSUME stack # <<>>
              PROVE  Top.at = "visitor"
          <5>1. PICK n \in Nat \ {0} : Len(stack) = n /\ Top = stack[n]
            BY <4>2, TopFacts
          <5> QED
            BY <4>1, <5>1 DEF TypeOK
        <4> QED
          BY <4>1, <4>2
      <3> QED
        BY <1>13, <3>1, <3>2
    <2> QED
      BY <2>1 DEF Fresh, At, Top
  <1> QED
    BY <1>1, <1>3, <1>5, <1>6, <1>8, <1>9, <1>10, <1>11, <1>12, <1>13 DEF Next

(* What a function that is left has left behind.                           *)
LEMMA LeftStep ==
  ASSUME TypeOK, AllSound, HonestLeft, CarefulLeft, [Next]_vars
  PROVE  HonestLeft' /\ CarefulLeft'
  <1>1. CASE left' = NULL \/ left' = left
    BY <1>1 DEF HonestLeft, CarefulLeft
  <1>2. CASE Return
    <2>1. /\ stack # <<>> /\ Top.pc > Len(Top.program)
          /\ left' = [program |-> Top.program, leaks |-> Top.raw,
                      unseen |-> Top.hidden \/ Failed(Top.outcome)]
      BY <1>2 DEF Return, Leave
    <2>2. SoundFrame(Top) /\ Top.pc \in Nat /\ Len(Top.program) \in Nat
      BY <2>1, TopFacts, TopSound DEF Placed
    <2>3. Honest(Top.program) => ~Top.hidden /\ ~Failed(Top.outcome)
      BY <2>1, <2>2, NothingToReport DEF SoundFrame
    <2>4. ~(Careful(Top.program) /\ Top.raw)
      BY <2>1, <2>2 DEF SoundFrame, CarefulFrame
    <2> QED
      BY <2>1, <2>3, <2>4 DEF HonestLeft, CarefulLeft
  <1>3. CASE Throw
    <2>1. /\ stack # <<>> /\ Here \in Judging /\ Throws(Here, Top.outcome)
          /\ left' = [program |-> Top.program, leaks |-> Top.raw, unseen |-> FALSE]
      BY <1>3 DEF Throw, Leave, At
    <2>2. SoundFrame(Top)
      BY <2>1, TopSound
    <2>3. ~(Careful(Top.program) /\ Top.raw)
      <3>1. Top.pc \in Nat /\ Len(Top.program) \in Nat /\ Here = Top.program[Top.pc]
        BY <2>1, TopFacts DEF Placed, Here
      <3>2. ~Freed(Top.program, Top.pc)
        BY <2>1, <3>1, FreedStep DEF Judging
      <3>3. ~(Here \in Reporting /\ ~Failed(Top.outcome))
        BY <2>1 DEF Throws, Reporting
      <3> QED
        BY <2>2, <3>1, <3>2, <3>3 DEF SoundFrame, CarefulFrame
    <2> QED
      BY <2>1, <2>3 DEF HonestLeft, CarefulLeft
  <1>4. CASE Unwind
    <2>1. /\ stack # <<>> /\ raised # NULL
          /\ left' = [program |-> Top.program, leaks |-> Top.raw, unseen |-> FALSE]
      BY <1>4 DEF Unwind, Leave
    <2>2. PICK n \in Nat \ {0} : Len(stack) = n /\ Top = stack[n]
      BY <2>1, TopFacts
    <2>3. Top.at = "visitor"
      BY <2>1, <2>2 DEF TypeOK
    <2>4. SoundFrame(Top)
      BY <2>1, TopSound
    <2>5. ~(Careful(Top.program) /\ Top.raw)
      BY <2>3, <2>4 DEF SoundFrame, CarefulFrame
    <2> QED
      BY <2>1, <2>5 DEF HonestLeft, CarefulLeft
  <1>5. CASE \/ \E p \in Programs : Enter(p)
             \/ Call \/ Drop \/ VisitBegins \/ VisitorCalled \/ VisitorReturns \/ VisitEnds
             \/ Allocate \/ Free \/ Judge \/ Clear \/ VisitorThrows \/ Catch \/ UNCHANGED vars
    BY <1>5, <1>1 DEF Enter, Call, Answer, Drop, VisitBegins, VisitorCalled, VisitorReturns,
       VisitEnds, Allocate, Free, Judge, Clear, VisitorThrows, Catch, vars
  <1> QED
    BY <1>2, <1>3, <1>4, <1>5 DEF Next

LEMMA TrueStep ==
  ASSUME TypeOK, Fresh, ExceptionTrue, [Next]_vars
  PROVE  ExceptionTrue'
  <1>1. CASE \/ UNCHANGED <<raised, held>>
             \/ held' = raised /\ raised' = NULL
    BY <1>1 DEF ExceptionTrue, What
  <1>2. CASE VisitorThrows
    <2>1. /\ held' = held
          /\ raised' = [judge |-> "client", outcome |-> "ok", cause |-> None, message |-> Own]
      BY <1>2 DEF VisitorThrows
    <2> QED
      BY <2>1 DEF ExceptionTrue, What
  <1>3. CASE Throw
    <2>1. /\ At(Judging) /\ Throws(Here, Top.outcome)
          /\ raised' = Exception(Here) /\ held' = held
      BY <1>3 DEF Throw
    <2> DEFINE e == Exception(Here)
    <2>2. e.judge \in Reporting => Failed(e.outcome)
      BY <2>1 DEF Exception, Throws, Reporting
    <2>3. e.judge \in {"check", "bool", "null"} /\ e.outcome = "error" => e.message = e.cause
      BY <2>1 DEF Exception, Fresh
    <2> HIDE DEF e
    <2> QED
      BY <2>1, <2>2, <2>3 DEF ExceptionTrue, What, Reporting, e
  <1>4. CASE \/ \E p \in Programs : Enter(p)
             \/ Call \/ Drop \/ VisitBegins \/ VisitorCalled \/ VisitorReturns \/ VisitEnds
             \/ Allocate \/ Free \/ Judge \/ Return \/ Clear \/ Catch \/ Unwind \/ UNCHANGED vars
    BY <1>4, <1>1 DEF Enter, Call, Answer, Drop, VisitBegins, VisitorCalled, VisitorReturns,
       VisitEnds, Allocate, Free, Judge, Return, Clear, Catch, Unwind, vars
  <1> QED
    BY <1>2, <1>3, <1>4 DEF Next

LEMMA Inductive == Init /\ [][Next]_vars => []IInv
  <1>1. Init => IInv
    <2> SUFFICES ASSUME Init PROVE IInv
      OBVIOUS
    <2>1. TypeOK
      BY TypeInit
    <2>2. stack = <<>> /\ raised = NULL /\ held = NULL /\ left = NULL
      BY DEF Init
    <2>3. \A d \in 1 .. Len(stack) : SoundFrame(stack[d])
      BY <2>2
    <2> QED
      BY <2>1, <2>2, <2>3 DEF IInv, Fresh, At, ExceptionTrue, HonestLeft, CarefulLeft
  <1>2. IInv /\ [Next]_vars => IInv'
    <2> SUFFICES ASSUME IInv, [Next]_vars PROVE IInv'
      OBVIOUS
    <2>1. TypeOK'
      BY TypeStep DEF IInv
    <2>2. AllSound /\ AllSound'
      BY <2>1, SoundStep DEF IInv, AllSound
    <2>3. Fresh'
      BY <2>1, FreshStep DEF IInv
    <2>4. ExceptionTrue'
      BY TrueStep DEF IInv
    <2>5. HonestLeft' /\ CarefulLeft'
      BY <2>2, LeftStep DEF IInv
    <2> QED
      BY <2>1, <2>2, <2>3, <2>4, <2>5 DEF IInv, AllSound
  <1> QED
    BY <1>1, <1>2, PTL

(* The message of an exception is that of the call it is about: no         *)
(* function that judges its codes at once can report another error.        *)
THEOREM ExceptionsAreTrue == Spec => []ExceptionTrue
  BY Inductive, PTL DEF Spec, IInv

-----------------------------------------------------------------------------
(* The functions of cppgit2 themselves: what follows for the tables of     *)
(* Facade.                                                                 *)

(* A program judges each code before it makes the next call.               *)
Judged(p) == p \in Seq(Step) /\ Prompt(p)

(* The programs that occur in Facade, those that report all failures, and  *)
(* those that lose no memory.                                              *)
LEMMA Shapes ==
  /\ \A p \in {Checked, Answered, NullThrows, OwnMessage, Visiting} :
       Judged(p) /\ Honest(p) /\ Careful(p)
  /\ \A p \in {Converted, <<"call", "inverted">>, Dropped, <<"visit">>} :
       Judged(p) /\ Careful(p)
  /\ \A p \in {Prepared(Answered), Prepared(Checked), <<"call", "null", "call", "check">>,
               OwnMessage \o Checked} :
       Judged(p) /\ Honest(p) /\ Careful(p)
  /\ \A p \in {Filled, <<"fill", "bool", "free">>} : Judged(p) /\ Honest(p) /\ Careful(p)
  /\ Judged(Getter) /\ Honest(Getter) /\ Careful(Getter)
  /\ Judged(Kept) /\ Honest(Kept)
  /\ Judged(Array) /\ Honest(Array)
  /\ Judged(Listed) /\ Honest(Listed)
  /\ Judged(Loop)
  /\ Judged(<<"malloc", "drop", "drop", "visit", "free">>)
  /\ Judged(<<"fill", "call", "free">>) /\ Careful(<<"fill", "call", "free">>)
  <1> USE DEF Judged, Prompt, Honest, Careful, Step, Calling, Judging, Reporting
  <1>1. ASSUME NEW p \in {Checked, Answered, NullThrows, OwnMessage, Visiting}
        PROVE  Judged(p) /\ Honest(p) /\ Careful(p)
    <2>1. PICK x \in {"call", "visit"}, y \in Reporting : p = <<x, y>>
      BY DEF Checked, Answered, NullThrows, OwnMessage, Visiting
    <2>2. p \in Seq(Step) /\ Len(p) = 2 /\ p[1] \in {"call", "visit"} /\ p[2] \in Reporting
      BY <2>1
    <2> QED
      BY <2>2
  <1>2. ASSUME NEW p \in {Converted, <<"call", "inverted">>}
        PROVE  Judged(p) /\ Careful(p)
    <2>1. PICK x \in {"asbool", "inverted"} : p = <<"call", x>>
      BY DEF Converted
    <2>2. p \in Seq(Step) /\ Len(p) = 2 /\ p[1] = "call" /\ p[2] \in {"asbool", "inverted"}
      BY <2>1
    <2> QED
      BY <2>2
  <1>3. ASSUME NEW p \in {Dropped, <<"visit">>}
        PROVE  Judged(p) /\ Careful(p)
    <2>1. PICK x \in {"drop", "visit"} : p = <<x>>
      BY DEF Dropped
    <2>2. p \in Seq(Step) /\ Len(p) = 1 /\ p[1] \in {"drop", "visit"}
      BY <2>1
    <2> QED
      BY <2>2
  <1>4. ASSUME NEW p \in {Prepared(Answered), Prepared(Checked), <<"call", "null", "call", "check">>,
                          OwnMessage \o Checked}
        PROVE  Judged(p) /\ Honest(p) /\ Careful(p)
    <2>1. \E f, g \in Reporting : p = <<"call", f, "call", g>>
      BY DEF Prepared, Answered, Checked, OwnMessage
    <2> QED
      BY <2>1
  <1>5. ASSUME NEW p \in {Filled, <<"fill", "bool", "free">>}
        PROVE  Judged(p) /\ Honest(p) /\ Careful(p)
    <2>1. PICK f \in {"check", "bool"} : p = <<"fill", f, "free">>
      BY DEF Filled
    <2>2. /\ p \in Seq(Step) /\ Len(p) = 3
          /\ p[1] = "fill" /\ p[2] \in {"check", "bool"} /\ p[3] = "free"
      BY <2>1
    <2>3. Freed(p, 3)
      BY <2>2 DEF Freed
    <2> QED
      BY <2>2, <2>3
  <1>6. Judged(Getter) /\ Honest(Getter) /\ Careful(Getter)
    <2>1. Getter \in Seq(Step) /\ Len(Getter) = 0
      BY DEF Getter
    <2> QED
      BY <2>1
  <1>7. Judged(Kept) /\ Honest(Kept)
    <2>1. Kept \in Seq(Step) /\ Len(Kept) = 2 /\ Kept[1] = "fill" /\ Kept[2] = "check"
      BY DEF Kept
    <2> QED
      BY <2>1
  <1>8. Judged(Array) /\ Honest(Array)
    <2>1. /\ Array \in Seq(Step) /\ Len(Array) = 4 /\ Array[1] = "malloc"
          /\ Array[2] = "call" /\ Array[3] = "check" /\ Array[4] = "free"
      BY DEF Array
    <2> QED
      BY <2>1
  <1>9. Judged(Listed) /\ Honest(Listed)
    <2>1. /\ Listed \in Seq(Step) /\ Len(Listed) = 3
          /\ Listed[1] = "malloc" /\ Listed[2] = "fill" /\ Listed[3] = "check"
      BY DEF Listed
    <2> QED
      BY <2>1
  <1>10. Judged(Loop)
    <2>1. /\ Loop \in Seq(Step) /\ Len(Loop) = 3
          /\ Loop[1] = "fill" /\ Loop[2] = "visit" /\ Loop[3] = "free"
      BY DEF Loop
    <2> QED
      BY <2>1
  <1>11. Judged(<<"malloc", "drop", "drop", "visit", "free">>)
    <2> DEFINE p == <<"malloc", "drop", "drop", "visit", "free">>
    <2>1. p \in Seq(Step) /\ Len(p) = 5 /\ \A i \in 1..5 : p[i] \notin Judging
      OBVIOUS
    <2> HIDE DEF p
    <2>2. Judged(p)
      BY <2>1
    <2> QED
      BY <2>2 DEF p
  <1>12. Judged(<<"fill", "call", "free">>) /\ Careful(<<"fill", "call", "free">>)
    <2> DEFINE p == <<"fill", "call", "free">>
    <2>1. p \in Seq(Step) /\ Len(p) = 3 /\ p[1] = "fill" /\ p[2] = "call" /\ p[3] = "free"
      OBVIOUS
    <2> HIDE DEF p
    <2>2. Freed(p, 2)
      <3>1. 3 \in 2..Len(p) /\ \A k \in 2..3-1 : k = 2
        BY <2>1
      <3> QED
        BY <2>1, <3>1 DEF Freed
    <2>3. Judged(p) /\ Careful(p)
      BY <2>1, <2>2
    <2> QED
      BY <2>3 DEF p
  <1>13. \A p \in {Converted, <<"call", "inverted">>, Dropped, <<"visit">>} : Judged(p) /\ Careful(p)
    <2> HIDE DEF Judged, Prompt, Honest, Careful, Step, Calling, Judging, Reporting
    <2> QED
      BY <1>2, <1>3
  <1> HIDE DEF Judged, Prompt, Honest, Careful, Step, Calling, Judging, Reporting
  <1> QED
    BY <1>1, <1>13, <1>4, <1>5, <1>6, <1>7, <1>8, <1>9, <1>10, <1>11, <1>12

(* A table of a class of which Hides and Loses know what there is to know. *)
Known(class, table) ==
  \A f \in table : /\ Judged(f[2])
                   /\ Honest(f[2]) \/ <<class, f[1]>> \in Hides
                   /\ Careful(f[2]) \/ <<class, f[1]>> \in Loses

LEMMA TablesJoin ==
  /\ \A c, S, p : Judged(p) /\ Honest(p) /\ Careful(p) => Known(c, All(S, p))
  /\ \A c, S, p : Judged(p) /\ Careful(p) /\ (\A n \in S : <<c, n>> \in Hides) => Known(c, All(S, p))
  /\ \A c, S, p : Judged(p) /\ Honest(p) /\ (\A n \in S : <<c, n>> \in Loses) => Known(c, All(S, p))
  /\ \A c, S, p : Judged(p) /\ (\A n \in S : <<c, n>> \in Hides /\ <<c, n>> \in Loses)
                    => Known(c, All(S, p))
  /\ \A c, f, g : Known(c, f) /\ Known(c, g) => Known(c, f \cup g)
  BY DEF Known, All

(* The parts of the tables whose functions are in Hides, in Loses. *)
LEMMA HidingParts ==
  /\ Known("repository", All({"is_shallow"}, Converted))
  /\ Known("repository", All({"state"}, Converted))
  /\ Known("repository", All({"is_descendant_of"}, Converted))
  /\ Known("repository", All({"reference_has_reflog"}, Converted))
  /\ Known("repository", All({"remove_message"}, Dropped))
  /\ Known("config", All({"value_as_string"}, <<"call", "inverted">>))
  /\ Known("config", All({"size"}, <<"fill", "call", "free">>))
  /\ Known("odb", All({"odb"}, Dropped))
  /\ Known("index", All({"index"}, Dropped))
  /\ Known("tree_builder", All({"clear"}, Dropped))
  /\ Known("tree_builder", All({"filter"}, <<"visit">>))
  /\ Known("revwalk", All({"next"}, Dropped))
  <1> USE DEF Hides
  <1>1. Known("repository", All({"is_shallow"}, Converted))
    <2>1. \A n \in {"is_shallow"} : <<"repository", n>> \in Hides
      OBVIOUS
    <2> QED
      BY <2>1, TablesJoin, Shapes
  <1>2. Known("repository", All({"state"}, Converted))
    <2>1. \A n \in {"state"} : <<"repository", n>> \in Hides
      OBVIOUS
    <2> QED
      BY <2>1, TablesJoin, Shapes
  <1>3. Known("repository", All({"is_descendant_of"}, Converted))
    <2>1. \A n \in {"is_descendant_of"} : <<"repository", n>> \in Hides
      OBVIOUS
    <2> QED
      BY <2>1, TablesJoin, Shapes
  <1>4. Known("repository", All({"reference_has_reflog"}, Converted))
    <2>1. \A n \in {"reference_has_reflog"} : <<"repository", n>> \in Hides
      OBVIOUS
    <2> QED
      BY <2>1, TablesJoin, Shapes
  <1>5. Known("repository", All({"remove_message"}, Dropped))
    <2>1. \A n \in {"remove_message"} : <<"repository", n>> \in Hides
      OBVIOUS
    <2> QED
      BY <2>1, TablesJoin, Shapes
  <1>6. Known("config", All({"value_as_string"}, <<"call", "inverted">>))
    <2>1. \A n \in {"value_as_string"} : <<"config", n>> \in Hides
      OBVIOUS
    <2> QED
      BY <2>1, TablesJoin, Shapes
  <1>7. Known("config", All({"size"}, <<"fill", "call", "free">>))
    <2>1. \A n \in {"size"} : <<"config", n>> \in Hides
      OBVIOUS
    <2> QED
      BY <2>1, TablesJoin, Shapes
  <1>8. Known("odb", All({"odb"}, Dropped))
    <2>1. \A n \in {"odb"} : <<"odb", n>> \in Hides
      OBVIOUS
    <2> QED
      BY <2>1, TablesJoin, Shapes
  <1>9. Known("index", All({"index"}, Dropped))
    <2>1. \A n \in {"index"} : <<"index", n>> \in Hides
      OBVIOUS
    <2> QED
      BY <2>1, TablesJoin, Shapes
  <1>10. Known("tree_builder", All({"clear"}, Dropped))
    <2>1. \A n \in {"clear"} : <<"tree_builder", n>> \in Hides
      OBVIOUS
    <2> QED
      BY <2>1, TablesJoin, Shapes
  <1>11. Known("tree_builder", All({"filter"}, <<"visit">>))
    <2>1. \A n \in {"filter"} : <<"tree_builder", n>> \in Hides
      OBVIOUS
    <2> QED
      BY <2>1, TablesJoin, Shapes
  <1>12. Known("revwalk", All({"next"}, Dropped))
    <2>1. \A n \in {"next"} : <<"revwalk", n>> \in Hides
      OBVIOUS
    <2> QED
      BY <2>1, TablesJoin, Shapes
  <1> QED
    BY <1>1, <1>2, <1>3, <1>4, <1>5, <1>6, <1>7, <1>8, <1>9, <1>10, <1>11, <1>12

LEMMA LosingParts ==
  /\ Known("repository", All({"lookup_multiple_attributes"}, Array))
  /\ Known("repository", All({"find_merge_bases"}, Kept))
  /\ Known("repository", All({"default_signature"}, Kept))
  /\ Known("repository", All({"create_updated_tree"}, Array))
  /\ Known("commit", All({"author", "committer"}, Kept))
  /\ Known("note", All({"author", "committer"}, Kept))
  /\ Known("tag", All({"tagger"}, Kept))
  /\ Known("signature", All({"signature", "copy"}, Kept))
  /\ Known("reference", All({"normalize_name"}, Array))
  /\ Known("pathspec", All({"match_diff", "match_index", "match_tree", "match_workdir"}, Listed))
  <1> USE DEF Loses
  <1>1. Known("repository", All({"lookup_multiple_attributes"}, Array))
    <2>1. \A n \in {"lookup_multiple_attributes"} : <<"repository", n>> \in Loses
      OBVIOUS
    <2> QED
      BY <2>1, TablesJoin, Shapes
  <1>2. Known("repository", All({"find_merge_bases"}, Kept))
    <2>1. \A n \in {"find_merge_bases"} : <<"repository", n>> \in Loses
      OBVIOUS
    <2> QED
      BY <2>1, TablesJoin, Shapes
  <1>3. Known("repository", All({"default_signature"}, Kept))
    <2>1. \A n \in {"default_signature"} : <<"repository", n>> \in Loses
      OBVIOUS
    <2> QED
      BY <2>1, TablesJoin, Shapes
  <1>4. Known("repository", All({"create_updated_tree"}, Array))
    <2>1. \A n \in {"create_updated_tree"} : <<"repository", n>> \in Loses
      OBVIOUS
    <2> QED
      BY <2>1, TablesJoin, Shapes
  <1>5. Known("commit", All({"author", "committer"}, Kept))
    <2>1. \A n \in {"author", "committer"} : <<"commit", n>> \in Loses
      OBVIOUS
    <2> QED
      BY <2>1, TablesJoin, Shapes
  <1>6. Known("note", All({"author", "committer"}, Kept))
    <2>1. \A n \in {"author", "committer"} : <<"note", n>> \in Loses
      OBVIOUS
    <2> QED
      BY <2>1, TablesJoin, Shapes
  <1>7. Known("tag", All({"tagger"}, Kept))
    <2>1. \A n \in {"tagger"} : <<"tag", n>> \in Loses
      OBVIOUS
    <2> QED
      BY <2>1, TablesJoin, Shapes
  <1>8. Known("signature", All({"signature", "copy"}, Kept))
    <2>1. \A n \in {"signature", "copy"} : <<"signature", n>> \in Loses
      OBVIOUS
    <2> QED
      BY <2>1, TablesJoin, Shapes
  <1>9. Known("reference", All({"normalize_name"}, Array))
    <2>1. \A n \in {"normalize_name"} : <<"reference", n>> \in Loses
      OBVIOUS
    <2> QED
      BY <2>1, TablesJoin, Shapes
  <1>10. Known("pathspec", All({"match_diff", "match_index", "match_tree", "match_workdir"}, Listed))
    <2>1. \A n \in {"match_diff", "match_index", "match_tree", "match_workdir"} : <<"pathspec", n>> \in Loses
      OBVIOUS
    <2> QED
      BY <2>1, TablesJoin, Shapes
  <1> QED
    BY <1>1, <1>2, <1>3, <1>4, <1>5, <1>6, <1>7, <1>8, <1>9, <1>10

LEMMA LoopTables ==
  /\ Known("repository", BranchLoops)
  /\ Known("repository", CommitLoops)
  /\ Known("repository", ReferenceLoops)
  /\ Known("index", IndexLoops)
  <1>1. \A n \in {"for_each_branch"} :
          <<"repository", n>> \in Hides /\ <<"repository", n>> \in Loses
    BY DEF Hides, Loses
  <1>2. \A n \in {"for_each_commit"} :
          <<"repository", n>> \in Hides /\ <<"repository", n>> \in Loses
    BY DEF Hides, Loses
  <1>3. \A n \in {"for_each_reference", "for_each_reference_name", "for_each_reference_glob"} :
          <<"repository", n>> \in Hides /\ <<"repository", n>> \in Loses
    BY DEF Hides, Loses
  <1>4. \A n \in {"for_each", "for_each_conflict"} :
          <<"index", n>> \in Hides /\ <<"index", n>> \in Loses
    BY DEF Hides, Loses
  <1> QED
    BY <1>1, <1>2, <1>3, <1>4, TablesJoin, Shapes
    DEF BranchLoops, CommitLoops, ReferenceLoops, IndexLoops

(* All tables of Facade are known. *)
LEMMA TablesKnown ==
  /\ /\ Known("repository", Opened)
     /\ Known("repository", Heads)
     /\ Known("repository", State)
     /\ Known("repository", Attributes)
     /\ Known("repository", Branches)
     /\ Known("repository", Upstreams)
  /\ /\ Known("repository", Checkouts)
     /\ Known("repository", Diffs)
     /\ Known("repository", MergeBases)
     /\ Known("repository", Notes)
     /\ Known("repository", References)
     /\ Known("repository", Remotes)
  /\ /\ Known("repository", Stashes)
     /\ Known("repository", Submodules)
     /\ Known("repository", Tags)
     /\ Known("repository", Worktrees)
     /\ Known("config", ConfigDeletes)
     /\ Known("config", ConfigValues)
  /\ /\ Known("config", ConfigEntries)
     /\ Known("config", ConfigSize)
     /\ Known("odb", NewOdb)
     /\ Known("odb", OdbBackends)
     /\ Known("odb", OdbObjects)
     /\ Known("object", Objects)
  /\ /\ Known("commit", Commits)
     /\ Known("tree", Trees)
     /\ Known("tag", TagObjects)
     /\ Known("reference", ReferenceObjects)
     /\ Known("note", NoteObjects)
     /\ Known("signature", Signatures)
  /\ /\ Known("oid", Oids)
     /\ Known("diff", DiffObjects)
     /\ Known("diff", DiffVisits)
     /\ Known("diff", DiffBuffers)
     /\ Known("patch", NewPatch)
     /\ Known("patch", Patches)
  /\ /\ Known("blame", Blames)
     /\ Known("index", NewIndex)
     /\ Known("index", IndexEntries)
     /\ Known("index", IndexFile)
     /\ Known("remote", Remote)
     /\ Known("remote", RemoteUpdates)
  /\ /\ Known("refspec", Refspec)
     /\ Known("credential", Credential)
     /\ Known("credential", CredentialUser)
     /\ Known("submodule", Submodule)
     /\ Known("worktree", Worktree)
     /\ Known("reflog", Reflog)
  /\ /\ Known("tree_builder", TreeBuilder)
     /\ Known("pathspec", Pathspec)
     /\ Known("pack_builder", PackBuilder)
     /\ Known("indexer", Indexer)
     /\ Known("revwalk", RevWalks)
     /\ Known("rebase", RebaseCalls)
  /\ /\ Known("annotated_commit", AnnotatedCommits)
  <1>1. /\ Known("repository", Opened)
        /\ Known("repository", Heads)
        /\ Known("repository", State)
        /\ Known("repository", Attributes)
        /\ Known("repository", Branches)
        /\ Known("repository", Upstreams)
    <2>1. Known("repository", Opened)
      BY TablesJoin, Shapes, HidingParts, LosingParts DEF Opened
    <2>2. Known("repository", Heads)
      BY TablesJoin, Shapes, HidingParts, LosingParts DEF Heads
    <2>3. Known("repository", State)
      BY TablesJoin, Shapes, HidingParts, LosingParts DEF State
    <2>4. Known("repository", Attributes)
      BY TablesJoin, Shapes, HidingParts, LosingParts DEF Attributes
    <2>5. Known("repository", Branches)
      BY TablesJoin, Shapes, HidingParts, LosingParts DEF Branches
    <2>6. Known("repository", Upstreams)
      BY TablesJoin, Shapes, HidingParts, LosingParts DEF Upstreams
    <2> QED
      BY <2>1, <2>2, <2>3, <2>4, <2>5, <2>6
  <1>2. /\ Known("repository", Checkouts)
        /\ Known("repository", Diffs)
        /\ Known("repository", MergeBases)
        /\ Known("repository", Notes)
        /\ Known("repository", References)
        /\ Known("repository", Remotes)
    <2>1. Known("repository", Checkouts)
      BY TablesJoin, Shapes, HidingParts, LosingParts DEF Checkouts
    <2>2. Known("repository", Diffs)
      BY TablesJoin, Shapes, HidingParts, LosingParts DEF Diffs
    <2>3. Known("repository", MergeBases)
      BY TablesJoin, Shapes, HidingParts, LosingParts DEF MergeBases
    <2>4. Known("repository", Notes)
      BY TablesJoin, Shapes, HidingParts, LosingParts DEF Notes
    <2>5. Known("repository", References)
      BY TablesJoin, Shapes, HidingParts, LosingParts DEF References
    <2>6. Known("repository", Remotes)
      BY TablesJoin, Shapes, HidingParts, LosingParts DEF Remotes
    <2> QED
      BY <2>1, <2>2, <2>3, <2>4, <2>5, <2>6
  <1>3. /\ Known("repository", Stashes)
        /\ Known("repository", Submodules)
        /\ Known("repository", Tags)
        /\ Known("repository", Worktrees)
        /\ Known("config", ConfigDeletes)
        /\ Known("config", ConfigValues)
    <2>1. Known("repository", Stashes)
      BY TablesJoin, Shapes, HidingParts, LosingParts DEF Stashes
    <2>2. Known("repository", Submodules)
      BY TablesJoin, Shapes, HidingParts, LosingParts DEF Submodules
    <2>3. Known("repository", Tags)
      BY TablesJoin, Shapes, HidingParts, LosingParts DEF Tags
    <2>4. Known("repository", Worktrees)
      BY TablesJoin, Shapes, HidingParts, LosingParts DEF Worktrees
    <2>5. Known("config", ConfigDeletes)
      BY TablesJoin, Shapes, HidingParts, LosingParts DEF ConfigDeletes
    <2>6. Known("config", ConfigValues)
      BY TablesJoin, Shapes, HidingParts, LosingParts DEF ConfigValues
    <2> QED
      BY <2>1, <2>2, <2>3, <2>4, <2>5, <2>6
  <1>4. /\ Known("config", ConfigEntries)
        /\ Known("config", ConfigSize)
        /\ Known("odb", NewOdb)
        /\ Known("odb", OdbBackends)
        /\ Known("odb", OdbObjects)
        /\ Known("object", Objects)
    <2>1. Known("config", ConfigEntries)
      BY TablesJoin, Shapes, HidingParts, LosingParts DEF ConfigEntries
    <2>2. Known("config", ConfigSize)
      BY TablesJoin, Shapes, HidingParts, LosingParts DEF ConfigSize
    <2>3. Known("odb", NewOdb)
      BY TablesJoin, Shapes, HidingParts, LosingParts DEF NewOdb
    <2>4. Known("odb", OdbBackends)
      BY TablesJoin, Shapes, HidingParts, LosingParts DEF OdbBackends
    <2>5. Known("odb", OdbObjects)
      BY TablesJoin, Shapes, HidingParts, LosingParts DEF OdbObjects
    <2>6. Known("object", Objects)
      BY TablesJoin, Shapes, HidingParts, LosingParts DEF Objects
    <2> QED
      BY <2>1, <2>2, <2>3, <2>4, <2>5, <2>6
  <1>5. /\ Known("commit", Commits)
        /\ Known("tree", Trees)
        /\ Known("tag", TagObjects)
        /\ Known("reference", ReferenceObjects)
        /\ Known("note", NoteObjects)
        /\ Known("signature", Signatures)
    <2>1. Known("commit", Commits)
      BY TablesJoin, Shapes, HidingParts, LosingParts DEF Commits
    <2>2. Known("tree", Trees)
      BY TablesJoin, Shapes, HidingParts, LosingParts DEF Trees
    <2>3. Known("tag", TagObjects)
      BY TablesJoin, Shapes, HidingParts, LosingParts DEF TagObjects
    <2>4. Known("reference", ReferenceObjects)
      BY TablesJoin, Shapes, HidingParts, LosingParts DEF ReferenceObjects
    <2>5. Known("note", NoteObjects)
      BY TablesJoin, Shapes, HidingParts, LosingParts DEF NoteObjects
    <2>6. Known("signature", Signatures)
      BY TablesJoin, Shapes, HidingParts, LosingParts DEF Signatures
    <2> QED
      BY <2>1, <2>2, <2>3, <2>4, <2>5, <2>6
  <1>6. /\ Known("oid", Oids)
        /\ Known("diff", DiffObjects)
        /\ Known("diff", DiffVisits)
        /\ Known("diff", DiffBuffers)
        /\ Known("patch", NewPatch)
        /\ Known("patch", Patches)
    <2>1. Known("oid", Oids)
      BY TablesJoin, Shapes, HidingParts, LosingParts DEF Oids
    <2>2. Known("diff", DiffObjects)
      BY TablesJoin, Shapes, HidingParts, LosingParts DEF DiffObjects
    <2>3. Known("diff", DiffVisits)
      BY TablesJoin, Shapes, HidingParts, LosingParts DEF DiffVisits
    <2>4. Known("diff", DiffBuffers)
      BY TablesJoin, Shapes, HidingParts, LosingParts DEF DiffBuffers
    <2>5. Known("patch", NewPatch)
      BY TablesJoin, Shapes, HidingParts, LosingParts DEF NewPatch
    <2>6. Known("patch", Patches)
      BY TablesJoin, Shapes, HidingParts, LosingParts DEF Patches
    <2> QED
      BY <2>1, <2>2, <2>3, <2>4, <2>5, <2>6
  <1>7. /\ Known("blame", Blames)
        /\ Known("index", NewIndex)
        /\ Known("index", IndexEntries)
        /\ Known("index", IndexFile)
        /\ Known("remote", Remote)
        /\ Known("remote", RemoteUpdates)
    <2>1. Known("blame", Blames)
      BY TablesJoin, Shapes, HidingParts, LosingParts DEF Blames
    <2>2. Known("index", NewIndex)
      BY TablesJoin, Shapes, HidingParts, LosingParts DEF NewIndex
    <2>3. Known("index", IndexEntries)
      BY TablesJoin, Shapes, HidingParts, LosingParts DEF IndexEntries
    <2>4. Known("index", IndexFile)
      BY TablesJoin, Shapes, HidingParts, LosingParts DEF IndexFile
    <2>5. Known("remote", Remote)
      BY TablesJoin, Shapes, HidingParts, LosingParts DEF Remote
    <2>6. Known("remote", RemoteUpdates)
      BY TablesJoin, Shapes, HidingParts, LosingParts DEF RemoteUpdates
    <2> QED
      BY <2>1, <2>2, <2>3, <2>4, <2>5, <2>6
  <1>8. /\ Known("refspec", Refspec)
        /\ Known("credential", Credential)
        /\ Known("credential", CredentialUser)
        /\ Known("submodule", Submodule)
        /\ Known("worktree", Worktree)
        /\ Known("reflog", Reflog)
    <2>1. Known("refspec", Refspec)
      BY TablesJoin, Shapes, HidingParts, LosingParts DEF Refspec
    <2>2. Known("credential", Credential)
      BY TablesJoin, Shapes, HidingParts, LosingParts DEF Credential
    <2>3. Known("credential", CredentialUser)
      BY TablesJoin, Shapes, HidingParts, LosingParts DEF CredentialUser
    <2>4. Known("submodule", Submodule)
      BY TablesJoin, Shapes, HidingParts, LosingParts DEF Submodule
    <2>5. Known("worktree", Worktree)
      BY TablesJoin, Shapes, HidingParts, LosingParts DEF Worktree
    <2>6. Known("reflog", Reflog)
      BY TablesJoin, Shapes, HidingParts, LosingParts DEF Reflog
    <2> QED
      BY <2>1, <2>2, <2>3, <2>4, <2>5, <2>6
  <1>9. /\ Known("tree_builder", TreeBuilder)
        /\ Known("pathspec", Pathspec)
        /\ Known("pack_builder", PackBuilder)
        /\ Known("indexer", Indexer)
        /\ Known("revwalk", RevWalks)
        /\ Known("rebase", RebaseCalls)
    <2>1. Known("tree_builder", TreeBuilder)
      BY TablesJoin, Shapes, HidingParts, LosingParts DEF TreeBuilder
    <2>2. Known("pathspec", Pathspec)
      BY TablesJoin, Shapes, HidingParts, LosingParts DEF Pathspec
    <2>3. Known("pack_builder", PackBuilder)
      BY TablesJoin, Shapes, HidingParts, LosingParts DEF PackBuilder
    <2>4. Known("indexer", Indexer)
      BY TablesJoin, Shapes, HidingParts, LosingParts DEF Indexer
    <2>5. Known("revwalk", RevWalks)
      BY TablesJoin, Shapes, HidingParts, LosingParts DEF RevWalks
    <2>6. Known("rebase", RebaseCalls)
      BY TablesJoin, Shapes, HidingParts, LosingParts DEF RebaseCalls
    <2> QED
      BY <2>1, <2>2, <2>3, <2>4, <2>5, <2>6
  <1>10. /\ Known("annotated_commit", AnnotatedCommits)
    <2>1. Known("annotated_commit", AnnotatedCommits)
      BY TablesJoin, Shapes, HidingParts, LosingParts DEF AnnotatedCommits
    <2> QED
      BY <2>1
  <1> QED
    BY <1>1, <1>2, <1>3, <1>4, <1>5, <1>6, <1>7, <1>8, <1>9, <1>10

(* A function of Facade judges its codes at once, and is in Hides or reports
   all failures, in Loses or frees its memory. *)
LEMMA FacadeKnown ==
  \A f \in FacadeFunctions : /\ Judged(f[3])
                             /\ Honest(f[3]) \/ <<f[1], f[2]>> \in Hides
                             /\ Careful(f[3]) \/ <<f[1], f[2]>> \in Loses
  <1> DEFINE Good(functions) ==
               \A f \in functions : /\ Judged(f[3])
                                    /\ Honest(f[3]) \/ <<f[1], f[2]>> \in Hides
                                    /\ Careful(f[3]) \/ <<f[1], f[2]>> \in Loses
  <1>1. ASSUME NEW c, NEW table, Known(c, table)
        PROVE  Good(Class(c, table))
    BY <1>1 DEF Class, Known
  <1>2. Known("repository", Repository)
    BY TablesJoin, TablesKnown, LoopTables DEF Repository
  <1>3. /\ Known("config", Config) /\ Known("odb", NewOdb \cup OdbBackends \cup OdbObjects)
        /\ Known("diff", DiffObjects \cup DiffVisits \cup DiffBuffers)
        /\ Known("patch", NewPatch \cup Patches)
        /\ Known("index", NewIndex \cup IndexEntries \cup IndexLoops \cup IndexFile)
        /\ Known("remote", Remote \cup RemoteUpdates)
        /\ Known("credential", Credential \cup CredentialUser)
    BY TablesJoin, TablesKnown, LoopTables DEF Config
  <1> HIDE DEF Good
  <1>4. ASSUME NEW f \in FacadeFunctions
        PROVE  \E functions : Good(functions) /\ f \in functions
    BY <1>1, <1>2, <1>3, TablesKnown DEF FacadeFunctions
  <1> QED
    BY <1>4 DEF Good

(* CallsAssumption is true of cppgit2: its functions are programs, and each
   judges the code of a call before it makes the next. *)
THEOREM FacadeIsPrompt ==
  \A f \in FacadeFunctions : f[3] \in Seq(Step) /\ Prompt(f[3])
  BY FacadeKnown DEF Judged

(* Of the functions of Facade, however deep visitors call them, only those in
   Hides can return normally although a call of libgit2 failed. *)
THEOREM FacadeHides ==
  ASSUME Functions = FacadeFunctions, MayHide = Hides
  PROVE  Spec => []FailureSeen
  <1>1. HonestLeft => FailureSeen
    BY FacadeKnown DEF HonestLeft, FailureSeen, Named
  <1> QED
    BY <1>1, Inductive, PTL DEF Spec, IInv

(* Only those in Loses can be left with memory of libgit2's or malloc's that
   nobody owns, by whatever way they are left. *)
THEOREM FacadeLoses ==
  ASSUME Functions = FacadeFunctions, MayLose = Loses
  PROVE  Spec => []RawFreed
  <1>1. CarefulLeft => RawFreed
    BY FacadeKnown DEF CarefulLeft, RawFreed, Named
  <1> QED
    BY <1>1, Inductive, PTL DEF Spec, IInv

=============================================================================
