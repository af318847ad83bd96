SPECIFICATION FairSpec
CONSTANTS
  Flag <- MCFlag
  FlagCounter <- MCFlagCounter
  Optional <- MCOptional
  Numeric = "n"
  NoFlag = "none"
  Digit <- MCDigit
  Equals = "="
  Name <- MCName
  Input <- MCInput
INVARIANTS
  TypeOK
  EveryTokenUsedOnce
  ValuesBindInOrder
  RightmostFilledOnPlainLines
PROPERTY ParsingEnds
CHECK_DEADLOCK FALSE
