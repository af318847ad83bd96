SPECIFICATION Spec
CONSTANTS
  Flag <- MCFlag
  FlagCounter <- MCFlagCounter
  Optional <- MCOptional
  Numeric = "n"
  NoFlag = "none"
  Digit <- MCDigit
  Equals = "="
  Name <- MCName
  Input <- DocInput
INVARIANTS
  NeverPanics
CHECK_DEADLOCK FALSE
