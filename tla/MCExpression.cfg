\* Two operators; an evaluator yields at most twice.
CONSTANTS
  Expr = {"e", "f"}
  Word = {"x", "y", "z"}
  MaxYields = 2
  Case <- MCCase
SPECIFICATION Spec
\* Nothing follows once the call has returned; that it does is EvaluationReturns.
CHECK_DEADLOCK FALSE
INVARIANTS
  TypeOK
  ArgsAreOwnWhenCalled
  ResultCoversItems
PROPERTY EvaluationReturns
