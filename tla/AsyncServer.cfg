SPECIFICATION FairSpec
CONSTANTS
  Pollers = {p1, p2}
  MaxRequests = 4
  NoCall = NoCall
INVARIANTS TypeOK OnePlace OneListener AnsweredOnce
PROPERTIES ShutdownCleansUp
CHECK_DEADLOCK FALSE
