SPECIFICATION FairSpec
CONSTANTS
  c1 = c1
  c2 = c2
  Calls = {c1, c2}
  Retries = 2
  Pollers = {p1, p2}
  Faulty = {c2}
  WaitList <- TwoCalls
  Idle = Idle
INVARIANTS TypeOK PromiseSetOnce PromiseIsKept PromiseTellsTheTruth WaitedIsQuiet
PROPERTIES WaitEnds
CHECK_DEADLOCK FALSE
