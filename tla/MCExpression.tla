---------------------------- MODULE MCExpression ----------------------------
(***************************************************************************)
(* Pipelines of at most three steps, two of which use the same operator.   *)
(* Parallel evaluation has more items than jobs.                           *)
(***************************************************************************)
EXTENDS Expression

Use(e, words, evaluators) == [expr |-> e, words |-> words, evaluators |-> evaluators]

Evaluators ==
  {<<s>> : s \in Signature \ {"nil", "true", "false"}} \cup
  {<<"false", "yielder">>, <<"bool", "error value">>, <<"true", "error">>, <<"nil">>}

OneStep == {<<Use("e", <<"x">>, s)>> : s \in Evaluators}
TwoUses ==
  {<<Use("e", <<"x">>, s), Use("e", w, <<t>>)>> :
     s \in {<<"yielder">>, <<"bool">>}, w \in {<<>>, <<"y">>}, t \in {"bool", "error"}}
WithOtherBetween ==
  {<<Use("e", <<"x">>, <<"none">>), Use("f", <<"z">>, <<"yielder">>), Use("e", w, <<"error">>)>> :
     w \in {<<>>, <<"y">>}}

Serial ==
  [type : {[e |-> a, f |-> "string"] : a \in {"string", "scalar"}},
   steps : {<<>>} \cup OneStep \cup TwoUses \cup WithOtherBetween,
   items : 0 .. 2, parallel : {FALSE}, jobs : {1}]
Parallel ==
  [type : {[e |-> "string", f |-> "string"]}, steps : {<<>>} \cup OneStep \cup TwoUses,
   items : {2}, parallel : {TRUE}, jobs : {1, 2}]
ParallelItems ==
  [type : {[e |-> "string", f |-> "string"]}, steps : OneStep,
   items : {3}, parallel : {TRUE}, jobs : {2}]

MCCase == Serial \cup Parallel \cup ParallelItems

=============================================================================
