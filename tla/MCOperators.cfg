SPECIFICATION Spec
CONSTANTS
  MaxDims = 8
  Ops <- MCOps
INVARIANTS
  NeverOutOfRange
  MovesWhatIsMeant
  SliceFailsOnlyOnShape
  MultipliesWhatIsMeant
  WindowsFit
CHECK_DEADLOCK FALSE
