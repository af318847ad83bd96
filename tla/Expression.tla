----------------------------- MODULE Expression -----------------------------
(***************************************************************************)
(* Evaluating an expression: a pipeline of steps through which every item  *)
(* is passed, one after the other (Evaluate) or each in a goroutine        *)
(* (EvaluateParallel).  A step is a use of an expression operator with     *)
(* what was written after it.  All uses of an operator share the args of   *)
(* the Expr; a step resets them and applies its own words when it is       *)
(* evaluated.  Its evaluator then yields the item to the next step, any    *)
(* number of times, and that step runs before the yield returns.           *)
(* Reading and writing the value of an arg is one step each.  (Strings     *)
(* torn by the race are left out: no action depends on the value.)         *)
(***************************************************************************)
EXTENDS Integers, Sequences, FiniteSets, FiniteSetsExt, SequencesExt

CONSTANTS
  Expr,           \* expression operators, with one arg each
  Word,
  MaxYields,      \* times an evaluator yields at most
  Case            \* an expression with what it is evaluated for

\* Functions which EvaluatorOf accepts, by the results they have.
Signature == {"yielder", "error", "bool", "none", "bare error", "error value", "true", "false", "nil"}

\* A step is a use of expr with its words and the evaluators which make it up,
\* several if ComposeEvaluator is used.  type is that of the operator's arg.
CaseType ==
  [type : [Expr -> {"string", "scalar"}],
   steps : Seq([expr : Expr, words : Seq(Word), evaluators : Seq(Signature)]),
   items : Nat, parallel : BOOLEAN, jobs : Nat \ {0}]

ASSUME YieldsAssumption == MaxYields \in Nat
ASSUME CaseAssumption == \A c \in Case :
  /\ c \in CaseType
  /\ \A s \in DOMAIN c.steps : Len(c.steps[s].words) < 2 /\ c.steps[s].evaluators # <<>>

VARIABLES
  case,           \* chosen initially
  pc,             \* what the evaluation of an item does
  stack,          \* its calls of evaluators, the innermost last
  loaded,         \* the value which it read, to append to
  arg,            \* the value of the arg of each operator
  failed,         \* items whose evaluation failed, in that order
  result          \* what the call returned, once it has

vars == <<case, pc, stack, loaded, arg, failed, result>>

Item == 1 .. case.items
Finished == {"ok", "error"}
Running(i) == pc[i] \notin Finished \cup {"waiting"}

Top(i) == Last(stack[i])
Step(i) == case.steps[Top(i).step]

-----------------------------------------------------------------------------
(* Evaluators *)

Outcome == [yields : 0 .. MaxYields, fails : BOOLEAN]
Yields(S) == {[yields |-> y, fails |-> FALSE] : y \in S}
Fails == [yields |-> 0, fails |-> TRUE]

\* EvaluatorOf: how often the item is yielded, and whether an error follows.
\* A function without parameters which returns an error never yields.
EvaluatorOf(signature) ==
  CASE signature = "yielder" -> Outcome
    [] signature = "error" -> Yields({1}) \cup {Fails}
    [] signature = "bool" -> Yields({0, 1})
    [] signature \in {"none", "true", "nil"} -> Yields({1})
    [] signature = "bare error" -> Yields({0}) \cup {Fails}
    [] signature = "error value" -> {Fails}
    [] signature = "false" -> Yields({0})

\* ComposeEvaluator: the first evaluator which yields or fails.
ComposeEvaluator(signatures) ==
  {LET hit == {n \in DOMAIN signatures : outcomes[n].yields > 0 \/ outcomes[n].fails}
   IN IF hit = {} THEN [yields |-> 0, fails |-> FALSE] ELSE outcomes[Min(hit)] :
   outcomes \in {f \in [DOMAIN signatures -> Outcome] :
                   \A n \in DOMAIN signatures : f[n] \in EvaluatorOf(signatures[n])}}

-----------------------------------------------------------------------------
\* Defect: the binding is not reset when the step is evaluated.
ResetNothing(type, v) == v
\* A string is reset, a scalar is not.
ResetArg(type, v) == IF type = "string" THEN <<>> ELSE v

\* The Initializer applied the words of all steps before the Action: the last
\* step stands which set the arg, or reset it.
Applied ==
  [e \in Expr |->
     LET sets == {n \in DOMAIN case.steps :
                    /\ case.steps[n].expr = e
                    /\ case.steps[n].words # <<>> \/ case.type[e] = "string"}
     IN  IF sets = {} THEN <<>> ELSE case.steps[Max(sets)].words]

Init ==
  /\ case \in Case
  /\ pc = [i \in Item |-> "waiting"]
  /\ stack = [i \in Item |-> <<>>]
  /\ loaded = [i \in Item |-> <<>>]
  /\ arg = Applied
  /\ failed = <<>>
  /\ result = "none"

\* Defect: an evaluation which failed keeps its place.
SlotsKept == Cardinality({j \in Item : Running(j) \/ pc[j] = "error"}) < case.jobs
\* Go blocks until fewer than jobs evaluations run.
Slots == Cardinality({j \in Item : Running(j)}) < case.jobs

\* Goroutines start in the order of the items; without them an item has to
\* wait for the one before it, and none is evaluated after an error.
Start(i) ==
  /\ pc[i] = "waiting"
  /\ IF case.parallel THEN Slots /\ (i > 1 => pc[i - 1] # "waiting")
     ELSE i > 1 => pc[i - 1] = "ok"
  /\ IF case.steps = <<>> THEN pc' = [pc EXCEPT ![i] = "ok"] /\ UNCHANGED stack
     ELSE /\ pc' = [pc EXCEPT ![i] = "reset"]
          /\ stack' = [stack EXCEPT ![i] = <<[step |-> 1, yields |-> 0, fails |-> FALSE]>>]
  /\ UNCHANGED <<case, loaded, arg, failed, result>>

Reset(i) ==
  /\ pc[i] = "reset"
  /\ arg' = [arg EXCEPT ![Step(i).expr] = ResetArg(case.type[Step(i).expr], @)]
  /\ pc' = [pc EXCEPT ![i] = IF Step(i).words = <<>> THEN "call" ELSE "load"]
  /\ UNCHANGED <<case, stack, loaded, failed, result>>

Load(i) ==
  /\ pc[i] = "load"
  /\ loaded' = [loaded EXCEPT ![i] = IF case.type[Step(i).expr] = "string" THEN arg[Step(i).expr] ELSE <<>>]
  /\ pc' = [pc EXCEPT ![i] = "store"]
  /\ UNCHANGED <<case, stack, arg, failed, result>>

Store(i) ==
  /\ pc[i] = "store"
  /\ arg' = [arg EXCEPT ![Step(i).expr] = loaded[i] \o Step(i).words]
  /\ pc' = [pc EXCEPT ![i] = "call"]
  /\ loaded' = [loaded EXCEPT ![i] = <<>>]
  /\ UNCHANGED <<case, stack, failed, result>>

Call(i) ==
  /\ pc[i] = "call"
  /\ \E o \in ComposeEvaluator(Step(i).evaluators) :
       stack' = [stack EXCEPT ![i] = [@ EXCEPT ![Len(@)] =
                   [step |-> Top(i).step, yields |-> o.yields, fails |-> o.fails]]]
  /\ pc' = [pc EXCEPT ![i] = "yield"]
  /\ UNCHANGED <<case, loaded, arg, failed, result>>

\* The last step yields to no one.
Yield(i) ==
  /\ pc[i] = "yield" /\ Top(i).yields > 0
  /\ LET resumed == [stack[i] EXCEPT ![Len(stack[i])] = [Top(i) EXCEPT !.yields = @ - 1]]
         next == [step |-> Top(i).step + 1, yields |-> 0, fails |-> FALSE]
     IN IF Top(i).step = Len(case.steps)
        THEN stack' = [stack EXCEPT ![i] = resumed] /\ UNCHANGED pc
        ELSE /\ stack' = [stack EXCEPT ![i] = Append(resumed, next)]
             /\ pc' = [pc EXCEPT ![i] = "reset"]
  /\ UNCHANGED <<case, loaded, arg, failed, result>>

\* Defect: the evaluation is over when its innermost call is.
ResumesNot(i) == "ok"
\* What follows once the innermost call has returned.
Resumes(i) == IF Len(stack[i]) = 1 THEN "ok" ELSE "yield"

Return(i) ==
  /\ pc[i] = "yield" /\ Top(i).yields = 0 /\ ~Top(i).fails
  /\ stack' = [stack EXCEPT ![i] = Front(@)]
  /\ pc' = [pc EXCEPT ![i] = Resumes(i)]
  /\ UNCHANGED <<case, loaded, arg, failed, result>>

\* The error is returned through the evaluators which yielded.
Fail(i) ==
  /\ pc[i] = "yield" /\ Top(i).yields = 0 /\ Top(i).fails
  /\ stack' = [stack EXCEPT ![i] = <<>>]
  /\ pc' = [pc EXCEPT ![i] = "error"]
  /\ failed' = Append(failed, i)
  /\ UNCHANGED <<case, loaded, arg, result>>

\* Defect: the error of an evaluation ends the call.
AllDoneOrFailed == failed # <<>> \/ \A i \in Item : pc[i] \in Finished
\* Wait returns when all goroutines have; without them an error ends the call.
AllDone == (~case.parallel /\ failed # <<>>) \/ \A i \in Item : pc[i] \in Finished

\* errgroup keeps the first error.
FirstError == IF failed # <<>> THEN "error" ELSE "ok"

Wait ==
  /\ result = "none" /\ AllDone
  /\ result' = FirstError
  /\ UNCHANGED <<case, pc, stack, loaded, arg, failed>>

Evaluation(i) ==
  Start(i) \/ Reset(i) \/ Load(i) \/ Store(i) \/ Call(i) \/ Yield(i) \/ Return(i) \/ Fail(i)

Next == (\E i \in Item : Evaluation(i)) \/ Wait

\* Goroutines are scheduled, and the evaluators return.
Fairness == WF_vars(Wait) /\ WF_vars(\E i \in Item : Evaluation(i))

Spec == Init /\ [][Next]_vars /\ Fairness

-----------------------------------------------------------------------------
(* Properties *)

\* Variables have their types; a running evaluation has calls of consecutive
\* steps, one inside the other.
TypeOK ==
  /\ case \in Case
  /\ pc \in [Item -> {"waiting", "reset", "load", "store", "call", "yield", "ok", "error"}]
  /\ \A i \in Item :
       /\ Len(stack[i]) <= Len(case.steps)
       /\ Running(i) <=> stack[i] # <<>>
       /\ \A n \in DOMAIN stack[i] : stack[i][n].step = n /\ [stack[i][n] EXCEPT !.step = 0] \in
            [step : {0}, yields : 0 .. MaxYields, fails : BOOLEAN]
  /\ loaded \in [Item -> Seq(Word)]
  /\ arg \in [Expr -> Seq(Word)]
  /\ failed \in Seq(Item)
  /\ result \in {"none", "ok", "error"}

\* Evaluate calls an evaluator with the words of its own step in the args,
\* whichever steps used the same operator before, as often as the step is
\* yielded to.  A scalar has to be given a word, as it is not reset.
ArgsAreOwnWhenCalled ==
  ~case.parallel =>
    \A i \in Item : pc[i] = "call" =>
      \/ arg[Step(i).expr] = Step(i).words
      \/ Step(i).words = <<>> /\ case.type[Step(i).expr] = "scalar"

\* When the call returns no evaluation is running, and it returns an error if
\* and only if an evaluation failed; EvaluateParallel has evaluated all items
\* by then, Evaluate those up to the one which failed.
ResultCoversItems ==
  result # "none" =>
    /\ \A i \in Item : ~Running(i)
    /\ result = "error" <=> \E i \in Item : pc[i] = "error"
    /\ \A i \in Item : pc[i] = "waiting" =>
         ~case.parallel /\ \E j \in 1 .. i - 1 : pc[j] = "error"

\* The call returns, also with more items than jobs of which some fail.
EvaluationReturns == <>(result # "none")

=============================================================================
