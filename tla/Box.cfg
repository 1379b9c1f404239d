SPECIFICATION BoxSpec
CONSTANTS
  Dep = {d1, d2}
  Other = Other
  Capacity = 2
  OpCapacity = 3
  PerRequest = 2
  DepsPerRequest = 2
  DepLabels = 1
  MaxRequests = 3
  MaxOps = 3
  MaxOpen = 2
  Trailing = TRUE
  Sheds = TRUE
  Samples = TRUE
  Route = {a, b, c}
  Arms = 2
  RowsPerArm = 2
  PoolCapacity = 4
  ArmFor = 3
  MaxTime = 6
INVARIANT BoxInv
INVARIANT ReadsItsOwnTime
INVARIANT NothingOverwrittenIsRead
INVARIANT NeverPassesForSmall
INVARIANT RunawayCostsItself
INVARIANT ReserveKeepsItsLast
INVARIANT CoversWhileItFits
SYMMETRY Routes
CONSTRAINT Within
CHECK_DEADLOCK FALSE
