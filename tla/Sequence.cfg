SPECIFICATION FairSpec
CONSTANTS
  Jobs = {j1, j2, j3, j4}
  Endless = {j4}
  Owner = Owner
  NoJob = NoJob
INVARIANTS TypeOK InOrder LastCoversAll NothingOutlivesIt MasterLives StopsSoon
PROPERTIES DestructorEnds ImplementsExecutor
CHECK_DEADLOCK FALSE
