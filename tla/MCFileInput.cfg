SPECIFICATION Spec
CHECK_DEADLOCK FALSE
CONSTANTS
  Original <- MCOriginal
  Backup <- MCBackup
  Stdin = "-"
  Case <- MCCase
  MaxWritten = 3
INVARIANTS
  TypeOK
  EntriesInOrder
  WholeFileSeen
  EditsAreKept
  NothingLeftOpen
PROPERTY EveryRangeEnds
