SPECIFICATION Spec
CONSTANTS
  Depth = 3
  LocalFlags <- MCLocalFlags
  LocalArgs <- MCLocalArgs
  Self = "self"
  Case <- MCCase
INVARIANTS
  TypeOK
  BeforePrecedesAction
  AfterUnwinds
  UsedOptionsActFirst
  NarrowedFlagsRespected
PROPERTIES
  ImplementsNesting
CHECK_DEADLOCK FALSE
