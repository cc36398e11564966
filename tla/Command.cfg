SPECIFICATION Spec
CONSTANTS
  Cap = 2
  MaxLines = 6
  MaxEvents = 2
INVARIANTS
  DeliveredInOrder
  EventsDelivered
  SuccessIsComplete
CHECK_DEADLOCK FALSE
