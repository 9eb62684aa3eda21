SPECIFICATION Spec
CONSTANTS
  Pollers = {p1}
  MaxRange = 2
INVARIANT TagsAreLive
CHECK_DEADLOCK FALSE
