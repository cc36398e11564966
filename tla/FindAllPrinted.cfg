SPECIFICATION Spec
CONSTANTS
  Cap = 2
  MaxLines = 6
  MaxEvents = 2
INVARIANT
  AllPrinted
CHECK_DEADLOCK FALSE
