SPECIFICATION DiffSpec
CONSTANTS
  IndexBits = 4
  Lines = {"x", "y"}
  MaxLines = 4
  MaxRaw = 0
  Limits = {7}
  lines_before = 3
  lines_after = 3
INVARIANT DifferencesReturned

