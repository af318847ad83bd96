SPECIFICATION FairSpec
CONSTANTS
  N = 3
  MaxLate = 2
  OrderClass <- MCClass
  DependencyList <- MCNames
  ArgName = ArgName
  AncestorName = AncestorName
  MissingName = MissingName
  EmptyName = EmptyName
INVARIANTS
  TypeOK
  OrderRespectsDeps
  CycleIsExact
  TiebreakIsOrderClass
  EveryFlagRunsOnce
PROPERTIES
  OrderingEnds
  ImplementsSchedule
CHECK_DEADLOCK FALSE
