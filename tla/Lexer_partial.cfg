CONSTANT
  Inputs <- MCFinding
SPECIFICATION Spec
INVARIANT
  NoPartialLeft
