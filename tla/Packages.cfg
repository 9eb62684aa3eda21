SPECIFICATION PackagesSpec
CONSTANTS
  IndexBits = 16
  Lines = {"x", "y"}
  MaxLines = 5
  MaxRaw = 2
  Limits = {1, 2, 3, 32767}
  lines_before = 1
  lines_after = 1
  Lists = {o, p}
  Vals = {a, b}
  Nodes = {n1, n2, n3, n4}
  NoNode = NoNode
  NoVal = NoVal
  Maps = {m1, m2}
  Keys = {"k", "l"}
  Objects = {x1, x2, x3}
  Slots = {"s", "t"}
  NoObject = NoObject
  Options = {"a", "b"}
  Required = {"a"}
  Defaulted = {"b"}
  Default = "default"
  Values = {"v", "w"}
  Bad = "bad"
  Unset = "unset"
  MaxLine = 2
  MaxParses = 3
  DenomBits = 3
  NumLimit = 12
  MaxPow = 3
  MaxOps = 2
  Guards = {g1, g2, g3}
  Terms = {t1, t2, t3, t4}
  Throwing = {t4}
  Empty = Empty
  MaxRuns = 2
SYMMETRY Symmetry
INVARIANTS
  ScriptIsShortest
  DiffIsRight
  IndexAgrees
  DeletedOnce
  ProductExact
  TypeOK
  RunsExactlyOnce
PROPERTY ParseIsAllOrNothing
CHECK_DEADLOCK FALSE
