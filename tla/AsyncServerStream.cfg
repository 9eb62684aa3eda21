SPECIFICATION FairSpec
CONSTANTS
  Pollers = {p1, p2}
  MaxRange = 4
INVARIANTS TypeOK OneInCharge WrittenInOrder
PROPERTIES FinishedOnce StreamEnds
CHECK_DEADLOCK FALSE
