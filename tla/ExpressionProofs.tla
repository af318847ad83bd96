-------------------------- MODULE ExpressionProofs --------------------------
(***************************************************************************)
(* Proofs about Expression for any number of items and jobs, for every     *)
(* pipeline and whatever its evaluators do.                                *)
(***************************************************************************)
EXTENDS Expression, SequenceTheorems, WellFoundedInduction, TLAPS

Label == {"waiting", "reset", "load", "store", "call", "yield", "ok", "error"}

Types ==
  /\ case \in Case /\ case.items \in Nat /\ case.parallel \in BOOLEAN
  /\ pc \in [Item -> Label]

\* Errors are recorded.
ErrorsKept == failed # <<>> <=> \E i \in Item : pc[i] = "error"

\* Without goroutines an item is begun when all before it have succeeded.
InOrder ==
  ~case.parallel => \A i, j \in Item : i < j /\ pc[j] # "waiting" => pc[i] = "ok"

\* What the call returned is what the evaluations came to, and is final.
ResultIsFinal ==
  \/ result = "none"
  \/ AllDone /\ result = FirstError

IInv == Types /\ ErrorsKept /\ InOrder /\ ResultIsFinal

-----------------------------------------------------------------------------
\* When the call may return, no item can be begun or is running.
LEMMA DoneIsStill ==
  ASSUME Types, ErrorsKept, InOrder, AllDone
  PROVE  \A i \in Item : ~Running(i) /\ ~Start(i)
<1>1. CASE \A i \in Item : pc[i] \in Finished
  BY <1>1 DEF Running, Start, Finished
<1>2. CASE ~case.parallel /\ failed # <<>>
  <2>1. PICK j \in Item : pc[j] = "error"
    BY <1>2 DEF ErrorsKept
  <2>2. \A i \in Item : i < j => pc[i] = "ok"
    BY <1>2, <2>1 DEF InOrder
  <2>3. \A i \in Item : j < i => pc[i] = "waiting"
    BY <1>2, <2>1 DEF InOrder
  <2>4. case.items \in Nat
    BY DEF Types
  <2>5. ASSUME NEW i \in Item PROVE ~Running(i)
    BY <2>1, <2>2, <2>3, <2>4 DEF Item, Running, Finished
  <2>6. ASSUME NEW i \in Item, Start(i) PROVE FALSE
    <3>1. pc[i] = "waiting" /\ (i > 1 => pc[i - 1] = "ok")
      BY <1>2, <2>6 DEF Start
    <3>2. j < i /\ i > 1 /\ i - 1 \in Item
      BY <2>1, <2>2, <2>4, <3>1 DEF Item
    <3>3. j = i - 1 \/ j < i - 1
      BY <2>4, <3>2 DEF Item
    <3> QED BY <2>1, <2>3, <3>1, <3>2, <3>3
  <2> QED BY <2>5, <2>6
<1> QED BY <1>1, <1>2 DEF AllDone

\* What a step of an evaluation does to pc, failed and result.
LEMMA EvaluationFacts ==
  ASSUME Types, NEW i \in Item, Evaluation(i)
  PROVE  /\ case' = case /\ result' = result
         /\ Running(i) \/ Start(i)
         /\ \E l \in Label \ {"waiting"} :
              /\ pc' = [pc EXCEPT ![i] = l]
              /\ IF l = "error" THEN failed' = Append(failed, i) ELSE failed' = failed
<1>1. CASE Start(i)
  <2>1. case' = case /\ result' = result /\ failed' = failed
        /\ \E l \in Label \ {"waiting", "error"} : pc' = [pc EXCEPT ![i] = l]
    BY <1>1 DEF Start, Label
  <2> QED BY <1>1, <2>1
<1>2. CASE Reset(i) \/ Load(i)
  <2>1. case' = case /\ result' = result /\ failed' = failed /\ Running(i)
    BY <1>2 DEF Reset, Load, Running, Finished
  <2>2. \E l \in {"load", "store", "call"} : pc' = [pc EXCEPT ![i] = l]
    BY <1>2, Zenon DEF Reset, Load
  <2> QED BY <2>1, <2>2 DEF Label
<1>3. CASE Store(i) \/ Call(i)
  BY <1>3, Zenon DEF Store, Call, Label, Running, Finished
<1>4. CASE Yield(i)
  <2>1. pc[i] = "yield" /\ case' = case /\ result' = result /\ failed' = failed
        /\ (pc' = pc \/ pc' = [pc EXCEPT ![i] = "reset"])
    BY <1>4 DEF Yield
  <2>2. pc = [pc EXCEPT ![i] = "yield"]
    BY <2>1 DEF Types
  <2> QED BY <2>1, <2>2 DEF Label, Running, Finished
<1>5. CASE Return(i)
  <2>1. /\ pc[i] = "yield" /\ case' = case /\ result' = result /\ failed' = failed
        /\ pc' = [pc EXCEPT ![i] = Resumes(i)]
    BY <1>5 DEF Return
  <2>2. Resumes(i) \in Label \ {"waiting", "error"}
    BY DEF Resumes, Label
  <2>3. Running(i)
    BY <2>1 DEF Running, Finished
  <2> QED BY <2>1, <2>2, <2>3
<1>6. CASE Fail(i)
  BY <1>6 DEF Fail, Label, Running, Finished
<1> QED BY <1>1, <1>2, <1>3, <1>4, <1>5, <1>6 DEF Evaluation

\* An item is begun in its turn; once begun, it only ends.
LEMMA InOrderKept ==
  ASSUME Types, ErrorsKept, InOrder, NEW i \in Item, Evaluation(i)
  PROVE  InOrder'
<1>1. PICK l \in Label \ {"waiting"} : case' = case /\ pc' = [pc EXCEPT ![i] = l]
  BY EvaluationFacts
<1>2. Item' = Item /\ case.items \in Nat
  BY <1>1 DEF Item, Types
<1>3. SUFFICES ASSUME ~case.parallel, NEW j \in Item, NEW k \in Item, j < k, pc'[k] # "waiting"
               PROVE  pc'[j] = "ok"
  BY <1>1, <1>2 DEF InOrder
<1>4. CASE pc[k] # "waiting"
  <2>1. pc[j] = "ok"
    BY <1>3, <1>4 DEF InOrder
  <2>2. i # j
    BY <2>1, EvaluationFacts DEF Running, Finished, Start
  <2> QED BY <1>1, <2>1, <2>2 DEF Types
<1>5. CASE pc[k] = "waiting"
  <2>1. k = i
    BY <1>1, <1>3, <1>5 DEF Types
  <2>2. Start(i)
    BY <1>5, <2>1, EvaluationFacts DEF Running
  <2>3. k > 1 /\ pc[k - 1] = "ok" /\ k - 1 \in Item
    BY <1>2, <1>3, <2>1, <2>2 DEF Start, Item
  <2>4. j = k - 1 \/ j < k - 1
    BY <1>2, <1>3 DEF Item
  <2>5. pc[j] = "ok"
    BY <1>3, <2>3, <2>4 DEF InOrder
  <2> QED BY <1>1, <1>3, <2>1, <2>5 DEF Types, Item
<1> QED BY <1>4, <1>5

\* An evaluation takes a step only before the call has returned.
LEMMA EvaluationStep == ASSUME IInv, NEW i \in Item, Evaluation(i) PROVE IInv'
<1>1. PICK l \in Label \ {"waiting"} :
        /\ case' = case /\ result' = result /\ (Running(i) \/ Start(i))
        /\ pc' = [pc EXCEPT ![i] = l]
        /\ IF l = "error" THEN failed' = Append(failed, i) ELSE failed' = failed
  BY EvaluationFacts DEF IInv
<1>2. Item' = Item
  BY <1>1 DEF Item
<1>3. Types'
  BY <1>1, <1>2 DEF IInv, Types
<1>4. InOrder'
  BY InOrderKept DEF IInv
<1>5. ErrorsKept'
  <2>1. pc[i] # "error" /\ ErrorsKept
    BY <1>1 DEF IInv, Running, Finished, Start
  <2>2. CASE l = "error"
    <3>1. pc'[i] = "error"
      BY <1>1, <2>2 DEF IInv, Types
    <3>2. failed' # <<>>
      BY <1>1, <2>2
    <3> QED BY <1>2, <3>1, <3>2 DEF ErrorsKept
  <2>3. CASE l # "error"
    <3>1. \A j \in Item : pc'[j] = "error" <=> pc[j] = "error"
      BY <1>1, <2>1, <2>3 DEF IInv, Types
    <3> QED BY <1>1, <1>2, <2>1, <2>3, <3>1 DEF ErrorsKept
  <2> QED BY <2>2, <2>3
<1>6. result = "none"
  BY <1>1, DoneIsStill DEF IInv, ResultIsFinal
<1> QED BY <1>1, <1>3, <1>4, <1>5, <1>6 DEF IInv, ResultIsFinal

\* Every step preserves the invariant.
LEMMA StepPreserves == ASSUME IInv, [Next]_vars PROVE IInv'
<1>1. CASE \E i \in Item : Evaluation(i)
  BY <1>1, EvaluationStep
<1>2. CASE Wait \/ UNCHANGED vars
  <2>1. UNCHANGED <<case, pc, failed>> /\ (result' = result \/ (AllDone /\ result' = FirstError))
    BY <1>2 DEF Wait, vars
  <2>2. Item' = Item /\ AllDone' = AllDone /\ FirstError' = FirstError
    BY <2>1 DEF Item, AllDone, FirstError
  <2>3. Types' /\ ErrorsKept' /\ InOrder'
    BY <2>1, <2>2 DEF IInv, Types, ErrorsKept, InOrder
  <2>4. ResultIsFinal'
    BY <2>1, <2>2 DEF IInv, ResultIsFinal
  <2> QED BY <2>3, <2>4 DEF IInv
<1> QED BY <1>1, <1>2 DEF Next

\* Nothing has begun.
LEMMA Initially == ASSUME Init PROVE IInv
<1>1. case \in CaseType
  BY CaseAssumption DEF Init
<1>2. Types
  BY <1>1 DEF Init, Types, CaseType, Label
<1> QED BY <1>2 DEF Init, IInv, ErrorsKept, InOrder, ResultIsFinal

\* Items are evaluated in order without goroutines, and nothing happens any more
\* once the call has returned.
THEOREM Invariant == Spec => []IInv
<1> QED BY Initially, StepPreserves, PTL DEF Spec

\* For any number of items and jobs, the call returns with nothing left running
\* and an error if and only if an evaluation failed, after all items or, without
\* goroutines, those up to the one which failed.
THEOREM ResultCorrect == Spec => []ResultCoversItems
<1>1. ASSUME IInv, result # "none" PROVE ResultCoversItems
  <2>1. AllDone /\ result = FirstError /\ Types /\ ErrorsKept /\ InOrder
    BY <1>1 DEF IInv, ResultIsFinal
  <2>2. \A i \in Item : ~Running(i)
    BY <2>1, DoneIsStill
  <2>3. result = "error" <=> \E i \in Item : pc[i] = "error"
    BY <2>1 DEF FirstError, ErrorsKept
  <2>4. ASSUME NEW i \in Item, pc[i] = "waiting"
        PROVE  ~case.parallel /\ \E j \in 1 .. i - 1 : pc[j] = "error"
    <3>1. ~case.parallel /\ failed # <<>>
      BY <2>1, <2>4 DEF AllDone, Finished
    <3>2. PICK j \in Item : pc[j] = "error"
      BY <2>1, <3>1 DEF ErrorsKept
    <3>3. ~(i < j) /\ i # j
      BY <2>1, <2>4, <3>1, <3>2 DEF InOrder
    <3>4. j \in 1 .. i - 1
      BY <2>1, <3>3 DEF Item, Types
    <3> QED BY <3>1, <3>2, <3>4
  <2> QED BY <2>2, <2>3, <2>4 DEF ResultCoversItems
<1>2. IInv => ResultCoversItems
  BY <1>1 DEF ResultCoversItems
<1> QED BY <1>2, Invariant, PTL

-----------------------------------------------------------------------------
(* Calls and args *)

Frame == [step : Nat \ {0}, yields : 0 .. MaxYields, fails : BOOLEAN]
Use == [expr : Expr, words : Seq(Word), evaluators : Seq(Signature)]

\* A running evaluation has calls of consecutive steps, one inside the other.
Stacks ==
  /\ stack \in [Item -> Seq(Frame)]
  /\ \A i \in Item :
       /\ Len(stack[i]) <= Len(case.steps)
       /\ Running(i) <=> stack[i] # <<>>
       /\ \A n \in 1 .. Len(stack[i]) : stack[i][n].step = n

Values ==
  /\ loaded \in [Item -> Seq(Word)] /\ arg \in [Expr -> Seq(Word)]
  /\ failed \in Seq(Item) /\ result \in {"none", "ok", "error"}

\* What an evaluation finds in the arg of its step on the way to the call.
OwnArg(i) ==
  /\ pc[i] = "load" => arg[Step(i).expr] = <<>> \/ case.type[Step(i).expr] = "scalar"
  /\ pc[i] = "store" => loaded[i] = <<>>
  /\ pc[i] = "call" =>
       \/ arg[Step(i).expr] = Step(i).words
       \/ Step(i).words = <<>> /\ case.type[Step(i).expr] = "scalar"

OwnArgs == ~case.parallel => \A i \in Item : OwnArg(i)

CallInv == IInv /\ Stacks /\ Values /\ OwnArgs

\* The least element of a set of natural numbers.
LEMMA LeastNumber ==
  ASSUME NEW S \in SUBSET Nat, S # {}
  PROVE  \E n \in S : \A m \in S : n <= m
<1> DEFINE R == OpToRel(<, Nat)
<1>1. IsWellFoundedOn(R, Nat)
  BY NatLessThanWellFounded
<1>2. \A m, n \in Nat : m < n => <<m, n>> \in R
  BY DEF OpToRel
<1> HIDE DEF R
<1>3. PICK n \in S : \A m \in S : ~(<<m, n>> \in R)
  BY <1>1, WFMin
<1>4. ASSUME NEW m \in S, m < n PROVE FALSE
  <2>1. m \in Nat /\ n \in Nat
    OBVIOUS
  <2>2. <<m, n>> \in R
    BY <2>1, <1>4, <1>2, Zenon
  <2> QED BY <2>2, <1>3
<1> QED BY <1>4

LEMMA MinFacts ==
  ASSUME NEW S \in SUBSET Nat, S # {}
  PROVE  Min(S) \in S
<1>1. \E n \in S : \A m \in S : n <= m
  BY LeastNumber
<1> QED BY <1>1 DEF Min

LEMMA MaxFacts ==
  ASSUME NEW n \in Nat, NEW S \in SUBSET (1 .. n), S # {}
  PROVE  Max(S) \in S
<1> DEFINE T == {n - s : s \in S}
<1>1. T \in SUBSET Nat /\ T # {}
  <2>1. \A s \in S : s \in 1 .. n
    OBVIOUS
  <2>2. \A s \in S : n - s \in Nat
    BY <2>1
  <2>3. PICK s \in S : TRUE
    OBVIOUS
  <2>4. n - s \in T
    OBVIOUS
  <2> QED BY <2>2, <2>4
<1>2. PICK t \in T : \A m \in T : t <= m
  <2> HIDE DEF T
  <2> QED BY <1>1, LeastNumber
<1>3. PICK x \in S : t = n - x
  BY <1>2
<1>4. \A y \in S : x >= y
  <2>1. ASSUME NEW y \in S PROVE x >= y
    <3>1. n - y \in T
      OBVIOUS
    <3>2. t <= n - y
      BY <1>2, <3>1
    <3> QED BY <1>3, <3>2
  <2> QED BY <2>1
<1> QED BY <1>4 DEF Max

LEMMA CaseFacts ==
  ASSUME case \in Case
  PROVE  /\ case.steps \in Seq(Use) /\ Len(case.steps) \in Nat
         /\ DOMAIN case.steps = 1 .. Len(case.steps)
         /\ case.type \in [Expr -> {"string", "scalar"}]
         /\ \A s \in 1 .. Len(case.steps) :
              case.steps[s] \in Use /\ case.steps[s].evaluators # <<>>
<1>1. case \in CaseType
  BY CaseAssumption
<1>2. case.steps \in Seq(Use) /\ case.type \in [Expr -> {"string", "scalar"}]
  BY <1>1 DEF CaseType, Use
<1> HIDE DEF Use
<1>3. /\ Len(case.steps) \in Nat /\ DOMAIN case.steps = 1 .. Len(case.steps)
      /\ \A s \in 1 .. Len(case.steps) : case.steps[s] \in Use
  BY <1>2, ElementOfSeq
<1> QED BY <1>2, <1>3, CaseAssumption

\* The innermost call of a running evaluation is that of the last step begun.
LEMMA TopFacts ==
  ASSUME case \in Case, Stacks, NEW i \in Item, Running(i)
  PROVE  /\ stack[i] \in Seq(Frame) /\ Len(stack[i]) \in 1 .. Len(case.steps)
         /\ Top(i) = stack[i][Len(stack[i])] /\ Top(i) \in Frame
         /\ Top(i).step = Len(stack[i])
         /\ Step(i) = case.steps[Len(stack[i])] /\ Step(i) \in Use
         /\ Step(i).expr \in Expr /\ Step(i).words \in Seq(Word)
         /\ Step(i).evaluators \in Seq(Signature) /\ Step(i).evaluators # <<>>
         /\ case.type[Step(i).expr] \in {"string", "scalar"}
<1>1. /\ stack[i] \in Seq(Frame) /\ stack[i] # <<>> /\ Len(stack[i]) <= Len(case.steps)
      /\ \A n \in 1 .. Len(stack[i]) : stack[i][n].step = n
  BY DEF Stacks
<1>2. Len(stack[i]) \in Nat \ {0} /\ \A n \in 1 .. Len(stack[i]) : stack[i][n] \in Frame
  <2> HIDE DEF Frame
  <2> QED BY <1>1, EmptySeq, ElementOfSeq
<1>3. Len(stack[i]) \in 1 .. Len(case.steps) /\ Len(stack[i]) \in 1 .. Len(stack[i])
  BY <1>1, <1>2, CaseFacts
<1>4. Top(i) = stack[i][Len(stack[i])]
  BY DEF Top, Last
<1>5. Top(i) \in Frame /\ Top(i).step = Len(stack[i])
  BY <1>1, <1>2, <1>3, <1>4
<1>6. Step(i) = case.steps[Len(stack[i])]
  BY <1>5 DEF Step
<1>7. Step(i) \in Use /\ Step(i).evaluators # <<>>
  BY <1>3, <1>6, CaseFacts
<1>8. /\ Step(i).expr \in Expr /\ Step(i).words \in Seq(Word)
      /\ Step(i).evaluators \in Seq(Signature)
  BY <1>7 DEF Use
<1> QED BY <1>1, <1>3, <1>4, <1>5, <1>6, <1>7, <1>8, CaseFacts

\* What an evaluator does, composed or not, is an outcome.
LEMMA ComposedOutcome ==
  ASSUME NEW signatures \in Seq(Signature), NEW o \in ComposeEvaluator(signatures)
  PROVE  o \in Outcome
<1>1. PICK outcomes \in [DOMAIN signatures -> Outcome] :
        o = LET hit == {n \in DOMAIN signatures : outcomes[n].yields > 0 \/ outcomes[n].fails}
            IN IF hit = {} THEN [yields |-> 0, fails |-> FALSE] ELSE outcomes[Min(hit)]
  BY DEF ComposeEvaluator
<1> DEFINE hit == {n \in DOMAIN signatures : outcomes[n].yields > 0 \/ outcomes[n].fails}
<1>2. [yields |-> 0, fails |-> FALSE] \in Outcome
  BY YieldsAssumption DEF Outcome
<1>3. hit # {} => Min(hit) \in DOMAIN signatures
  <2>1. hit \in SUBSET Nat /\ hit \subseteq DOMAIN signatures
    BY LenProperties
  <2> HIDE DEF hit
  <2> QED BY <2>1, MinFacts
<1>4. o = IF hit = {} THEN [yields |-> 0, fails |-> FALSE] ELSE outcomes[Min(hit)]
  BY <1>1
<1> HIDE DEF hit
<1> QED BY <1>2, <1>3, <1>4

-----------------------------------------------------------------------------
(* What a step does to the calls and the args *)

\* Without goroutines at most one evaluation is running.
LEMMA RunsAlone ==
  ASSUME Types, InOrder, ~case.parallel, NEW i \in Item, Running(i) \/ Start(i),
         NEW j \in Item, j # i
  PROVE  ~Running(j)
<1>1. case.items \in Nat /\ i \in Nat /\ j \in Nat /\ i >= 1 /\ j >= 1
  BY DEF Types, Item
<1>2. pc[i] # "ok"
  BY DEF Running, Start, Finished
<1>3. CASE i < j
  <2>1. pc[j] = "waiting"
    BY <1>2, <1>3 DEF InOrder
  <2> QED BY <2>1 DEF Running
<1>4. CASE j < i
  <2>1. pc[j] = "ok"
    <3>1. CASE Running(i)
      <4>1. pc[i] # "waiting"
        BY <3>1 DEF Running
      <4> QED BY <4>1, <1>4 DEF InOrder
    <3>2. CASE Start(i)
      <4>1. i - 1 \in Item /\ pc[i - 1] = "ok"
        BY <1>1, <1>4, <3>2 DEF Start, Item
      <4>2. j = i - 1 \/ j < i - 1
        BY <1>1, <1>4
      <4> QED BY <4>1, <4>2 DEF InOrder
    <3> QED BY <3>1, <3>2
  <2> QED BY <2>1 DEF Running, Finished
<1> QED BY <1>1, <1>3, <1>4

\* An evaluation which is not running needs nothing of the args.
LEMMA IdleOwnsNothing ==
  ASSUME NEW i \in Item, ~Running(i)
  PROVE  OwnArg(i)
  BY DEF OwnArg, Running, Finished

\* A step of an evaluation which replaces its calls by calls.
LEMMA StackStep ==
  ASSUME Types, Stacks, case' = case, NEW i \in Item,
         NEW l \in Label, pc' = [pc EXCEPT ![i] = l],
         NEW calls \in Seq(Frame), stack' = [stack EXCEPT ![i] = calls],
         Len(calls) <= Len(case.steps),
         l \in {"waiting", "ok", "error"} <=> calls = <<>>,
         \A n \in 1 .. Len(calls) : calls[n].step = n
  PROVE  Stacks'
<1>1. Item' = Item
  BY DEF Item
<1>2. stack' \in [Item -> Seq(Frame)]
  <2> HIDE DEF Frame
  <2> QED BY DEF Stacks
<1>3. ASSUME NEW j \in Item
      PROVE  /\ Len(stack'[j]) <= Len(case.steps)
             /\ Running(j)' <=> stack'[j] # <<>>
             /\ \A n \in 1 .. Len(stack'[j]) : stack'[j][n].step = n
  <2>1. CASE j = i
    <3>1. stack'[j] = calls /\ pc'[j] = l
      BY <2>1 DEF Stacks, Types
    <3>2. Running(j)' <=> l \notin {"waiting", "ok", "error"}
      BY <3>1 DEF Running, Finished
    <3> HIDE DEF Frame
    <3> QED BY <3>1, <3>2
  <2>2. CASE j # i
    <3>1. stack'[j] = stack[j] /\ pc'[j] = pc[j]
      BY <2>2 DEF Stacks, Types
    <3>2. Running(j)' <=> Running(j)
      BY <3>1 DEF Running, Finished
    <3> QED BY <3>1, <3>2 DEF Stacks
  <2> QED BY <2>1, <2>2
<1> QED BY <1>1, <1>2, <1>3 DEF Stacks

\* A step which leaves the calls as they are and the evaluation running.
LEMMA StackSame ==
  ASSUME Types, Stacks, case' = case, NEW i \in Item, Running(i), stack' = stack,
         NEW l \in Label, pc' = [pc EXCEPT ![i] = l], l \notin {"waiting", "ok", "error"}
  PROVE  Stacks'
<1>1. /\ stack[i] \in Seq(Frame) /\ Len(stack[i]) <= Len(case.steps)
      /\ stack[i] # <<>> /\ \A n \in 1 .. Len(stack[i]) : stack[i][n].step = n
  BY DEF Stacks
<1>2. stack' = [stack EXCEPT ![i] = stack[i]]
  BY DEF Stacks
<1> HIDE DEF Frame
<1> QED BY <1>1, <1>2, StackStep

\* Only the evaluation which takes the step has to be looked at for its arg.
LEMMA OwnArgsStep ==
  ASSUME Types, InOrder, case' = case, NEW i \in Item, Running(i) \/ Start(i),
         NEW l \in Label, pc' = [pc EXCEPT ![i] = l],
         ~case.parallel => OwnArg(i)'
  PROVE  OwnArgs'
<1>1. Item' = Item
  BY DEF Item
<1>2. ASSUME ~case.parallel, NEW j \in Item, j # i PROVE OwnArg(j)'
  <2>1. ~Running(j)
    BY <1>2, RunsAlone
  <2>2. pc'[j] = pc[j]
    BY <1>2 DEF Types
  <2>3. pc'[j] \in Finished \cup {"waiting"}
    BY <2>1, <2>2 DEF Running
  <2> QED BY <2>3 DEF OwnArg, Finished
<1> QED BY <1>1, <1>2 DEF OwnArgs

Kept == Stacks' /\ Values' /\ OwnArgs'

LEMMA StartKeeps == ASSUME CallInv, NEW i \in Item, Start(i) PROVE Kept
<1>1. Types /\ InOrder /\ Stacks /\ Values /\ case \in Case
  BY DEF CallInv, IInv, Types
<1>2. /\ pc[i] = "waiting" /\ UNCHANGED <<case, loaded, arg, failed, result>>
      /\ IF case.steps = <<>> THEN pc' = [pc EXCEPT ![i] = "ok"] /\ UNCHANGED stack
         ELSE /\ pc' = [pc EXCEPT ![i] = "reset"]
              /\ stack' = [stack EXCEPT ![i] = <<[step |-> 1, yields |-> 0, fails |-> FALSE]>>]
  BY DEF Start
<1>3. Values'
  BY <1>1, <1>2 DEF Values, Item
<1>4. CASE case.steps = <<>>
  <2>1. pc' = [pc EXCEPT ![i] = "ok"] /\ stack[i] = <<>> /\ stack' = [stack EXCEPT ![i] = <<>>]
    BY <1>1, <1>2, <1>4 DEF Stacks, Running
  <2>2. <<>> \in Seq(Frame) /\ Len(<<>>) = 0 /\ "ok" \in Label /\ 0 <= Len(case.steps)
    <3> HIDE DEF Frame
    <3> QED BY <1>1, CaseFacts DEF Label
  <2>3. \A n \in 1 .. Len(<<>>) : FALSE
    BY <2>2
  <2>4. Stacks'
    <3> DEFINE calls == <<>>
    <3>1. calls \in Seq(Frame) /\ Len(calls) <= Len(case.steps) /\ calls = <<>>
      BY <2>2
    <3>2. \A n \in 1 .. Len(calls) : calls[n].step = n
      BY <2>3
    <3>3. stack' = [stack EXCEPT ![i] = calls]
      BY <2>1
    <3> HIDE DEF calls, Frame
    <3> QED BY <1>1, <1>2, <2>1, <2>2, <3>1, <3>2, <3>3, StackStep
  <2>5. OwnArg(i)'
    BY <1>1, <2>1 DEF OwnArg, Types
  <2> QED BY <1>1, <1>2, <1>3, <2>1, <2>2, <2>4, <2>5, OwnArgsStep DEF Kept
<1>5. CASE case.steps # <<>>
  <2> DEFINE frame == [step |-> 1, yields |-> 0, fails |-> FALSE]
             calls == <<frame>>
  <2>1. pc' = [pc EXCEPT ![i] = "reset"] /\ stack' = [stack EXCEPT ![i] = calls]
    BY <1>2, <1>5
  <2>2. frame \in Frame /\ frame.step = 1
    BY YieldsAssumption DEF Frame
  <2> HIDE DEF frame
  <2>3. calls \in Seq(Frame) /\ Len(calls) = 1 /\ calls # <<>> /\ calls[1] = frame
    <3> HIDE DEF Frame
    <3> QED BY <2>2
  <2> HIDE DEF calls
  <2>4. Len(calls) <= Len(case.steps) /\ \A n \in 1 .. Len(calls) : calls[n].step = n
    <3>1. Len(case.steps) # 0
      BY <1>1, <1>5, CaseFacts, EmptySeq
    <3>2. Len(calls) <= Len(case.steps)
      BY <1>1, <2>3, <3>1, CaseFacts
    <3> QED BY <2>2, <2>3, <3>2
  <2>5. "reset" \in Label
    BY DEF Label
  <2>6. Stacks'
    BY <1>1, <1>2, <2>1, <2>3, <2>4, <2>5, StackStep
  <2>7. OwnArg(i)'
    BY <1>1, <2>1 DEF OwnArg, Types
  <2> QED BY <1>1, <1>2, <1>3, <2>1, <2>5, <2>6, <2>7, OwnArgsStep DEF Kept
<1> QED BY <1>4, <1>5

\* The step is reset before anything is applied to it.
LEMMA ResetKeeps == ASSUME CallInv, NEW i \in Item, Reset(i) PROVE Kept
<1> DEFINE e == Step(i).expr
           w == Step(i).words
           l == IF w = <<>> THEN "call" ELSE "load"
<1>1. Types /\ InOrder /\ Stacks /\ Values /\ case \in Case
  BY DEF CallInv, IInv, Types
<1>2. /\ pc[i] = "reset" /\ UNCHANGED <<case, stack, loaded, failed, result>>
      /\ arg' = [arg EXCEPT ![e] = ResetArg(case.type[e], @)]
      /\ pc' = [pc EXCEPT ![i] = l]
  BY DEF Reset
<1>3. Running(i) /\ l \in Label /\ l \notin {"waiting", "ok", "error"}
  BY <1>2 DEF Running, Finished, Label
<1>4. e \in Expr /\ w \in Seq(Word) /\ case.type[e] \in {"string", "scalar"}
  BY <1>1, <1>3, TopFacts
<1>5. arg \in [Expr -> Seq(Word)] /\ arg' \in [Expr -> Seq(Word)]
      /\ arg'[e] = (IF case.type[e] = "string" THEN <<>> ELSE arg[e])
  BY <1>1, <1>2, <1>4 DEF Values, ResetArg
<1>6. Values'
  BY <1>1, <1>2, <1>5 DEF Values, Item
<1>7. Step(i)' = Step(i) /\ pc'[i] = l
  BY <1>1, <1>2 DEF Step, Top, Types
<1>8. OwnArg(i)'
  BY <1>2, <1>4, <1>5, <1>7 DEF OwnArg
<1>9. Stacks'
  BY <1>1, <1>2, <1>3, StackSame
<1> QED BY <1>1, <1>2, <1>3, <1>6, <1>8, <1>9, OwnArgsStep DEF Kept

LEMMA LoadKeeps == ASSUME CallInv, NEW i \in Item, Load(i) PROVE Kept
<1> DEFINE e == Step(i).expr
<1>1. /\ Types /\ InOrder /\ Stacks /\ Values /\ case \in Case
      /\ ~case.parallel => OwnArg(i)
  BY DEF CallInv, IInv, Types, OwnArgs
<1>2. /\ pc[i] = "load" /\ UNCHANGED <<case, stack, arg, failed, result>>
      /\ loaded' = [loaded EXCEPT ![i] = IF case.type[e] = "string" THEN arg[e] ELSE <<>>]
      /\ pc' = [pc EXCEPT ![i] = "store"]
  BY DEF Load
<1>3. Running(i) /\ "store" \in Label
  BY <1>2 DEF Running, Finished, Label
<1>4. e \in Expr /\ case.type[e] \in {"string", "scalar"}
  BY <1>1, <1>3, TopFacts
<1>5. /\ loaded' \in [Item -> Seq(Word)]
      /\ loaded'[i] = (IF case.type[e] = "string" THEN arg[e] ELSE <<>>)
  <2>1. arg[e] \in Seq(Word) /\ <<>> \in Seq(Word)
    BY <1>1, <1>4 DEF Values
  <2> QED BY <1>1, <1>2, <2>1 DEF Values
<1>6. Values'
  BY <1>1, <1>2, <1>5 DEF Values, Item
<1>7. Step(i)' = Step(i) /\ pc'[i] = "store"
  BY <1>1, <1>2 DEF Step, Top, Types
<1>8. ~case.parallel => OwnArg(i)'
  BY <1>1, <1>2, <1>4, <1>5, <1>7 DEF OwnArg
<1>9. Stacks'
  BY <1>1, <1>2, <1>3, StackSame
<1> QED BY <1>1, <1>2, <1>3, <1>6, <1>8, <1>9, OwnArgsStep DEF Kept

LEMMA StoreKeeps == ASSUME CallInv, NEW i \in Item, Store(i) PROVE Kept
<1> DEFINE e == Step(i).expr
           w == Step(i).words
<1>1. /\ Types /\ InOrder /\ Stacks /\ Values /\ case \in Case
      /\ ~case.parallel => OwnArg(i)
  BY DEF CallInv, IInv, Types, OwnArgs
<1>2. /\ pc[i] = "store" /\ UNCHANGED <<case, stack, failed, result>>
      /\ arg' = [arg EXCEPT ![e] = loaded[i] \o w]
      /\ pc' = [pc EXCEPT ![i] = "call"]
      /\ loaded' = [loaded EXCEPT ![i] = <<>>]
  BY DEF Store
<1>3. Running(i) /\ "call" \in Label
  BY <1>2 DEF Running, Finished, Label
<1>4. e \in Expr /\ w \in Seq(Word)
  BY <1>1, <1>3, TopFacts
<1>5. loaded[i] \in Seq(Word) /\ loaded[i] \o w \in Seq(Word)
  BY <1>1, <1>4 DEF Values
<1>6. loaded[i] = <<>> => loaded[i] \o w = w
  BY <1>4
<1>7. /\ arg' \in [Expr -> Seq(Word)] /\ arg'[e] = loaded[i] \o w
      /\ loaded' \in [Item -> Seq(Word)]
  BY <1>1, <1>2, <1>4, <1>5 DEF Values
<1>8. Values'
  BY <1>1, <1>2, <1>7 DEF Values, Item
<1>9. Step(i)' = Step(i) /\ pc'[i] = "call"
  BY <1>1, <1>2 DEF Step, Top, Types
<1>10. ~case.parallel => OwnArg(i)'
  BY <1>1, <1>2, <1>6, <1>7, <1>9 DEF OwnArg
<1>11. Stacks'
  BY <1>1, <1>2, <1>3, StackSame
<1> QED BY <1>1, <1>2, <1>3, <1>8, <1>10, <1>11, OwnArgsStep DEF Kept

\* A sequence of calls whose innermost one changed, but for its step.
LEMMA TopReplaced ==
  ASSUME NEW calls \in Seq(Frame), NEW N \in Nat, Len(calls) \in 1 .. N,
         \A n \in 1 .. Len(calls) : calls[n].step = n,
         NEW frame \in Frame, frame.step = Len(calls),
         NEW next, next = [calls EXCEPT ![Len(calls)] = frame]
  PROVE  /\ next \in Seq(Frame) /\ Len(next) = Len(calls) /\ next # <<>>
         /\ \A n \in 1 .. Len(next) : next[n].step = n
<1>1. next \in Seq(Frame) /\ Len(next) = Len(calls)
  <2> HIDE DEF Frame
  <2> QED BY ExceptSeq
<1>2. \A n \in 1 .. Len(calls) : next[n] = IF n = Len(calls) THEN frame ELSE calls[n]
  <2> HIDE DEF Frame
  <2> QED OBVIOUS
<1>3. \A n \in 1 .. Len(next) : next[n].step = n
  BY <1>1, <1>2, Zenon
<1>4. next # <<>>
  <2> HIDE DEF Frame
  <2> QED BY <1>1
<1> QED BY <1>1, <1>3, <1>4, Zenon

LEMMA CallKeeps == ASSUME CallInv, NEW i \in Item, Call(i) PROVE Kept
<1>1. Types /\ InOrder /\ Stacks /\ Values /\ case \in Case
  BY DEF CallInv, IInv, Types
<1>2. pc[i] = "call" /\ UNCHANGED <<case, loaded, arg, failed, result>>
      /\ pc' = [pc EXCEPT ![i] = "yield"]
  BY DEF Call
<1>3. Running(i) /\ "yield" \in Label
  BY <1>2 DEF Running, Finished, Label
<1>4. /\ stack[i] \in Seq(Frame) /\ Len(stack[i]) \in 1 .. Len(case.steps)
      /\ Top(i).step = Len(stack[i]) /\ Step(i).evaluators \in Seq(Signature)
      /\ Len(case.steps) \in Nat
      /\ \A n \in 1 .. Len(stack[i]) : stack[i][n].step = n
  BY <1>1, <1>3, TopFacts, CaseFacts DEF Stacks
<1>5. PICK o \in ComposeEvaluator(Step(i).evaluators) :
        stack' = [stack EXCEPT ![i] = [@ EXCEPT ![Len(@)] =
                   [step |-> Top(i).step, yields |-> o.yields, fails |-> o.fails]]]
  BY DEF Call
<1> DEFINE frame == [step |-> Top(i).step, yields |-> o.yields, fails |-> o.fails]
           calls == [stack[i] EXCEPT ![Len(stack[i])] = frame]
<1>6. frame \in Frame /\ frame.step = Len(stack[i])
  <2>1. o \in Outcome
    BY <1>4, ComposedOutcome
  <2> QED BY <1>4, <2>1 DEF Frame, Outcome
<1>7. stack' = [stack EXCEPT ![i] = calls]
  BY <1>1, <1>5 DEF Stacks
<1> HIDE DEF frame
<1>8. /\ calls \in Seq(Frame) /\ Len(calls) = Len(stack[i]) /\ calls # <<>>
      /\ \A n \in 1 .. Len(calls) : calls[n].step = n
  BY <1>4, <1>6, TopReplaced
<1> HIDE DEF calls
<1>9. Stacks'
  <2>1. Len(calls) <= Len(case.steps)
    BY <1>4, <1>8
  <2> QED BY <1>1, <1>2, <1>3, <1>7, <1>8, <2>1, StackStep
<1>10. Values'
  BY <1>1, <1>2 DEF Values, Item
<1>11. OwnArg(i)'
  BY <1>1, <1>2 DEF OwnArg, Types
<1> QED BY <1>1, <1>2, <1>3, <1>9, <1>10, <1>11, OwnArgsStep DEF Kept

LEMMA YieldKeeps == ASSUME CallInv, NEW i \in Item, Yield(i) PROVE Kept
<1> DEFINE frame == [Top(i) EXCEPT !.yields = @ - 1]
           resumed == [stack[i] EXCEPT ![Len(stack[i])] = frame]
           next == [step |-> Top(i).step + 1, yields |-> 0, fails |-> FALSE]
           more == Append(resumed, next)
<1>1. Types /\ InOrder /\ Stacks /\ Values /\ case \in Case
  BY DEF CallInv, IInv, Types
<1>2. pc[i] = "yield" /\ Top(i).yields > 0 /\ UNCHANGED <<case, loaded, arg, failed, result>>
  BY DEF Yield
<1>3. Running(i) /\ "yield" \in Label /\ "reset" \in Label
  BY <1>2 DEF Running, Finished, Label
<1>4. /\ stack[i] \in Seq(Frame) /\ Len(stack[i]) \in 1 .. Len(case.steps)
      /\ Top(i) = stack[i][Len(stack[i])] /\ Top(i) \in Frame
      /\ Top(i).step = Len(stack[i]) /\ Len(case.steps) \in Nat
      /\ \A n \in 1 .. Len(stack[i]) : stack[i][n].step = n
  BY <1>1, <1>3, TopFacts, CaseFacts DEF Stacks
<1>5. \/ /\ stack' = [stack EXCEPT ![i] = resumed] /\ pc' = pc
      \/ /\ Len(stack[i]) # Len(case.steps)
         /\ stack' = [stack EXCEPT ![i] = more] /\ pc' = [pc EXCEPT ![i] = "reset"]
  BY <1>4 DEF Yield
<1>6. frame \in Frame /\ frame.step = Len(stack[i])
  <2>1. Top(i).yields - 1 \in 0 .. MaxYields
    BY <1>2, <1>4, YieldsAssumption DEF Frame
  <2>2. Top(i) \in [step : Nat \ {0}, yields : 0 .. MaxYields, fails : BOOLEAN]
    BY <1>4 DEF Frame
  <2>3. frame \in [step : Nat \ {0}, yields : 0 .. MaxYields, fails : BOOLEAN]
    BY <2>1, <2>2
  <2>4. frame.step = Top(i).step
    BY <2>2
  <2> QED BY <1>4, <2>3, <2>4 DEF Frame
<1> HIDE DEF frame
<1>7. /\ resumed \in Seq(Frame) /\ Len(resumed) = Len(stack[i]) /\ resumed # <<>>
      /\ \A n \in 1 .. Len(resumed) : resumed[n].step = n
  BY <1>4, <1>6, TopReplaced
<1>8. Values'
  BY <1>1, <1>2 DEF Values, Item
<1>9. next \in Frame /\ next.step = Len(stack[i]) + 1
  BY <1>4, YieldsAssumption DEF Frame
<1> HIDE DEF resumed, next
<1>10. /\ more \in Seq(Frame) /\ Len(more) = Len(stack[i]) + 1 /\ more # <<>>
       /\ \A n \in 1 .. Len(more) : more[n].step = n
  <2>1. /\ more \in Seq(Frame) /\ Len(more) = Len(resumed) + 1
        /\ \A n \in 1 .. Len(resumed) : more[n] = resumed[n]
        /\ more[Len(resumed) + 1] = next
    <3> HIDE DEF Frame
    <3> QED BY <1>7, <1>9, AppendProperties
  <2>2. more # <<>>
    <3> HIDE DEF Frame
    <3> QED BY <1>4, <1>7, <2>1, EmptySeq
  <2>3. ASSUME NEW n \in 1 .. Len(more) PROVE more[n].step = n
    <3>1. n \in 1 .. Len(resumed) \/ n = Len(resumed) + 1
      BY <1>4, <1>7, <2>1
    <3> QED BY <3>1, <2>1, <1>7, <1>9
  <2> QED BY <1>7, <2>1, <2>2, <2>3
<1> HIDE DEF more
<1>11. CASE stack' = [stack EXCEPT ![i] = resumed] /\ pc' = pc
  <2>1. pc' = [pc EXCEPT ![i] = "yield"]
    BY <1>1, <1>2, <1>11 DEF Types
  <2>2. Len(resumed) <= Len(case.steps)
    BY <1>4, <1>7
  <2>3. Stacks'
    BY <1>1, <1>2, <1>3, <1>7, <1>11, <2>1, <2>2, StackStep
  <2>4. OwnArg(i)'
    BY <1>2, <1>11 DEF OwnArg
  <2> QED BY <1>1, <1>2, <1>3, <1>8, <2>1, <2>3, <2>4, OwnArgsStep DEF Kept
<1>12. CASE /\ Len(stack[i]) # Len(case.steps)
            /\ stack' = [stack EXCEPT ![i] = more] /\ pc' = [pc EXCEPT ![i] = "reset"]
  <2>1. Len(more) <= Len(case.steps)
    BY <1>4, <1>10, <1>12
  <2>2. Stacks'
    BY <1>1, <1>2, <1>3, <1>10, <1>12, <2>1, StackStep
  <2>3. OwnArg(i)'
    BY <1>1, <1>12 DEF OwnArg, Types
  <2> QED BY <1>1, <1>2, <1>3, <1>8, <1>12, <2>2, <2>3, OwnArgsStep DEF Kept
<1> QED BY <1>5, <1>11, <1>12

LEMMA ReturnKeeps == ASSUME CallInv, NEW i \in Item, Return(i) PROVE Kept
<1> DEFINE calls == Front(stack[i])
           l == Resumes(i)
<1>1. Types /\ InOrder /\ Stacks /\ Values /\ case \in Case
  BY DEF CallInv, IInv, Types
<1>2. pc[i] = "yield" /\ UNCHANGED <<case, loaded, arg, failed, result>>
      /\ stack' = [stack EXCEPT ![i] = Front(@)] /\ pc' = [pc EXCEPT ![i] = l]
  BY DEF Return
<1>3. Running(i) /\ l \in Label
  BY <1>2 DEF Running, Finished, Label, Resumes
<1>4. /\ stack[i] \in Seq(Frame) /\ Len(stack[i]) \in 1 .. Len(case.steps)
      /\ Len(case.steps) \in Nat
      /\ \A n \in 1 .. Len(stack[i]) : stack[i][n].step = n
  BY <1>1, <1>3, TopFacts, CaseFacts DEF Stacks
<1>5. /\ calls \in Seq(Frame) /\ Len(calls) = Len(stack[i]) - 1
      /\ \A n \in 1 .. Len(stack[i]) - 1 : calls[n] = stack[i][n]
      /\ calls = <<>> <=> Len(stack[i]) = 1
  <2>1. 1 \in 1 .. Len(stack[i]) + 1 /\ Len(stack[i]) - 1 \in 1 - 1 .. Len(stack[i])
    BY <1>4
  <2> HIDE DEF Frame
  <2>2. /\ calls \in Seq(Frame) /\ Len(calls) = Len(stack[i]) - 1
        /\ \A n \in 1 .. Len(stack[i]) - 1 : calls[n] = stack[i][n]
    BY <1>4, <2>1, SubSeqProperties DEF Front
  <2> HIDE DEF calls
  <2>3. calls = <<>> <=> Len(calls) = 0
    BY <2>2, EmptySeq
  <2> QED BY <1>4, <2>2, <2>3
<1>6. stack' = [stack EXCEPT ![i] = calls]
  BY <1>2
<1>7. l \in {"waiting", "ok", "error"} <=> calls = <<>>
  BY <1>5 DEF Resumes
<1> HIDE DEF calls
<1>8. Len(calls) <= Len(case.steps) /\ \A n \in 1 .. Len(calls) : calls[n].step = n
  BY <1>4, <1>5
<1>9. Stacks'
  <2> HIDE DEF l
  <2> QED BY <1>1, <1>2, <1>3, <1>5, <1>6, <1>7, <1>8, StackStep
<1>10. Values'
  BY <1>1, <1>2 DEF Values, Item
<1>11. OwnArg(i)'
  BY <1>1, <1>2 DEF OwnArg, Types, Resumes
<1> QED BY <1>1, <1>2, <1>3, <1>9, <1>10, <1>11, OwnArgsStep DEF Kept

LEMMA FailKeeps == ASSUME CallInv, NEW i \in Item, Fail(i) PROVE Kept
<1> DEFINE calls == <<>>
<1>1. Types /\ InOrder /\ Stacks /\ Values /\ case \in Case
  BY DEF CallInv, IInv, Types
<1>2. pc[i] = "yield" /\ UNCHANGED <<case, loaded, arg, result>>
      /\ stack' = [stack EXCEPT ![i] = calls] /\ pc' = [pc EXCEPT ![i] = "error"]
      /\ failed' = Append(failed, i)
  BY DEF Fail
<1>3. Running(i) /\ "error" \in Label
  BY <1>2 DEF Running, Finished, Label
<1>4. /\ calls \in Seq(Frame) /\ Len(calls) <= Len(case.steps) /\ calls = <<>>
      /\ \A n \in 1 .. Len(calls) : calls[n].step = n
  <2> HIDE DEF Frame
  <2> QED BY <1>1, CaseFacts
<1> HIDE DEF calls
<1>5. Stacks'
  BY <1>1, <1>2, <1>3, <1>4, StackStep
<1>6. Values'
  BY <1>1, <1>2 DEF Values, Item
<1>7. OwnArg(i)'
  BY <1>1, <1>2 DEF OwnArg, Types
<1> QED BY <1>1, <1>2, <1>3, <1>5, <1>6, <1>7, OwnArgsStep DEF Kept

\* Every step keeps the calls and the args as they should be.
LEMMA CallStep == ASSUME CallInv, [Next]_vars PROVE CallInv'
<1>1. IInv'
  BY StepPreserves DEF CallInv
<1>2. CASE \E i \in Item : Evaluation(i)
  <2>1. PICK i \in Item : Evaluation(i)
    BY <1>2
  <2>2. Kept
    BY <2>1, StartKeeps, ResetKeeps, LoadKeeps, StoreKeeps, CallKeeps, YieldKeeps,
       ReturnKeeps, FailKeeps DEF Evaluation
  <2> QED BY <1>1, <2>2 DEF CallInv, Kept
<1>3. CASE Wait \/ UNCHANGED vars
  <2>1. /\ UNCHANGED <<case, pc, stack, loaded, arg, failed>>
        /\ result' = result \/ result' \in {"ok", "error"}
    BY <1>3 DEF Wait, vars, FirstError
  <2>2. Stacks' /\ Values'
    BY <2>1 DEF CallInv, Stacks, Values, Item, Running
  <2>3. OwnArgs'
    BY <2>1 DEF CallInv, OwnArgs, OwnArg, Item, Step, Top
  <2> QED BY <1>1, <2>2, <2>3 DEF CallInv
<1> QED BY <1>2, <1>3 DEF Next

LEMMA CallInitially == ASSUME Init PROVE CallInv
<1>1. IInv /\ case \in Case
  BY Initially DEF IInv, Types
<1>2. Stacks
  <2>1. stack = [i \in Item |-> <<>>] /\ pc = [i \in Item |-> "waiting"]
    BY DEF Init
  <2>2. stack \in [Item -> Seq(Frame)]
    <3> HIDE DEF Frame
    <3> QED BY <2>1
  <2>3. \A i \in Item : stack[i] = <<>> /\ Len(stack[i]) = 0 /\ ~Running(i)
    BY <2>1 DEF Running
  <2>4. \A i \in Item : Len(stack[i]) <= Len(case.steps)
    BY <1>1, <2>3, CaseFacts
  <2> QED BY <2>2, <2>3, <2>4 DEF Stacks
<1>3. Applied \in [Expr -> Seq(Word)]
  <2>1. ASSUME NEW e \in Expr
        PROVE  LET sets == {n \in DOMAIN case.steps :
                              /\ case.steps[n].expr = e
                              /\ case.steps[n].words # <<>> \/ case.type[e] = "string"}
               IN  (IF sets = {} THEN <<>> ELSE case.steps[Max(sets)].words) \in Seq(Word)
    <3> DEFINE sets == {n \in DOMAIN case.steps :
                          /\ case.steps[n].expr = e
                          /\ case.steps[n].words # <<>> \/ case.type[e] = "string"}
    <3>1. sets \in SUBSET (1 .. Len(case.steps)) /\ Len(case.steps) \in Nat
      BY <1>1, CaseFacts
    <3> HIDE DEF sets
    <3>2. sets # {} => Max(sets) \in 1 .. Len(case.steps)
      BY <3>1, MaxFacts
    <3>3. sets # {} => case.steps[Max(sets)].words \in Seq(Word)
      BY <1>1, <3>2, CaseFacts DEF Use
    <3>4. <<>> \in Seq(Word)
      OBVIOUS
    <3> QED BY <3>3, <3>4 DEF sets
  <2> QED BY <2>1 DEF Applied
<1>4. Values
  BY <1>3 DEF Init, Values
<1>5. OwnArgs
  BY DEF Init, OwnArgs, OwnArg
<1> QED BY <1>1, <1>2, <1>4, <1>5 DEF CallInv

\* Calls are nested as the pipeline is, and without goroutines the words of
\* other steps do not reach an arg which is on its way to a call.
THEOREM CallInvariant == Spec => []CallInv
<1> QED BY CallInitially, CallStep, PTL DEF Spec

\* The variables keep their types: whatever the evaluators yield, the calls of
\* an item are nested in the order of the steps, and go no deeper than these.
THEOREM TypeCorrect == Spec => []TypeOK
<1>1. ASSUME CallInv PROVE TypeOK
  <2>1. /\ case \in Case /\ Stacks /\ Values
        /\ pc \in [Item -> {"waiting", "reset", "load", "store", "call", "yield", "ok", "error"}]
    BY <1>1 DEF CallInv, IInv, Types, Label
  <2>2. ASSUME NEW i \in Item, NEW n \in DOMAIN stack[i]
        PROVE  /\ stack[i][n].step = n
               /\ [stack[i][n] EXCEPT !.step = 0] \in
                    [step : {0}, yields : 0 .. MaxYields, fails : BOOLEAN]
    <3>1. stack[i] \in Seq(Frame)
      BY <2>1 DEF Stacks
    <3>2. n \in 1 .. Len(stack[i]) /\ stack[i][n] \in Frame
      <4> HIDE DEF Frame
      <4> QED BY <3>1, ElementOfSeq, LenProperties
    <3>3. stack[i][n].step = n
      BY <2>1, <3>2 DEF Stacks
    <3> QED BY <3>2, <3>3 DEF Frame
  <2> QED BY <2>1, <2>2 DEF TypeOK, Stacks, Values
<1> QED BY <1>1, CallInvariant, PTL

\* Evaluate calls an evaluator with the words of its own step in the arg, for
\* every pipeline, however many steps share the operator.
THEOREM ArgsCorrect == Spec => []ArgsAreOwnWhenCalled
<1>1. ASSUME CallInv PROVE ArgsAreOwnWhenCalled
  BY <1>1 DEF CallInv, OwnArgs, OwnArg, ArgsAreOwnWhenCalled
<1> QED BY <1>1, CallInvariant, PTL
=============================================================================
