SPECIFICATION FairSpec
CONSTANTS
  Jobs = {j1, j2}
  Endless = {}
  Owner = Owner
  NoJob = NoJob
PROPERTIES ExitTriggersCondition
CHECK_DEADLOCK FALSE
