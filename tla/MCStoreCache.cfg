SPECIFICATION Spec
CHECK_DEADLOCK FALSE
CONSTANTS
  Thread = {t1, t2}
  None = None
  Empty = Empty
  Broken = Broken
  Panic = Panic
  Outcome <- AnyOutcome
  MaxCalls = 2
INVARIANTS
  TypeOK
  ProvidedByOneLoad
  FailureIsReported
PROPERTIES
  ImplementsService
  EveryCallEnds
