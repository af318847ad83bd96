\* Three changes: a removal, and additions which hide or outgrow it.
CONSTANTS
  MaxChanges = 3
  Nil = Nil
  Nobody = Nobody
  Initial <- MCInitial
SPECIFICATION Spec
\* Set-up is over at the end; that it gets there is SetupEnds.
CHECK_DEADLOCK FALSE
INVARIANTS
  TypeOK
  InitializedInOrder
PROPERTY SetupEnds
