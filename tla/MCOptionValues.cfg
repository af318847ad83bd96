\* The app and one sub-command.
CONSTANTS
  Word <- MCWord
  Bad = "bad"
  Blank = "blank"
  OptionalValue <- MCOptionalValue
  NoWord = NoWord
  Levels = 2
  Case <- MCCase
SPECIFICATION Spec
INVARIANTS
  TypeOK
  ValueIsWinning
  OccurrenceValuesAreOwn
  ActionPerUse
