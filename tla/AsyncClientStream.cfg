SPECIFICATION FairSpec
CONSTANTS
  Pollers = {p1, p2, p3}
  Messages = 4
INVARIANTS TypeOK OneInCharge HandledInOrder
PROPERTIES StreamEnds
CHECK_DEADLOCK FALSE
