CONSTANT
  Inputs <- MCInputs
SPECIFICATION FairSpec
INVARIANTS
  TypeOK
  EveryCharacterOnce
  LongestMatch
  RightLine
PROPERTY
  Terminates
