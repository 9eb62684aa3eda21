SPECIFICATION FairSpec
CONSTANTS
  Handles = {a, b, c}
  States = {s1, s2, s3}
  Nil = Nil
INVARIANTS TypeOK HandleControlsJob NoOrphan
PROPERTIES DestructorEnds
CHECK_DEADLOCK FALSE
