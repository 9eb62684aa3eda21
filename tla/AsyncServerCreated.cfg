SPECIFICATION Spec
CONSTANTS
  Pollers = {p1, p2}
  MaxRequests = 2
  NoCall = NoCall
INVARIANT CreatedIsAlive
CHECK_DEADLOCK FALSE
