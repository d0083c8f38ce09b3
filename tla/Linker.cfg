SPECIFICATION Spec
CONSTANTS
  Inputs <- MCInputs
  ShortBits = 4
  MaxInjections = 7
CHECK_DEADLOCK FALSE
INVARIANT ReferencesRight
INVARIANT LayoutSound
INVARIANT SearchRight
PROPERTY LinkEnds
