SPECIFICATION Spec
CONSTANTS
  Jobs = {j1, j2}
  Endless = {}
  Owner = Owner
  NoJob = NoJob
PROPERTIES JoinJoinsAll
CHECK_DEADLOCK FALSE
