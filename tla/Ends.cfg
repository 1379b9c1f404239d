SPECIFICATION EndsSpec
CONSTANTS
  Sig = {s1, s2}
  Signal = {}
  Capture = {}
  Ending = {}
  NoEnding = NoEnding
  Local = FALSE
  MaxQueued = 2
  MaxExceptions = 2
  MaxSignatures = 2
  MaxRunningTotals = 2
  MaxTriggers = 1
  MaxIntervals = 0
  MaxProfiles = 0
  MaxThrows = 1
  MaxAsks = 0
  MaxFailures = 1
  MaxRejected = 1
  MaxLate = 1
  Every = 2
  Window = 2
  Budget = 2
  Floor = 0
  MaxCost = 3
  MaxClock = 10
  MaxInWindow = 5
INVARIANT ShedTimeExact
INVARIANT ShedHasReason
PROPERTY NothingWaitsForEver
PROPERTY DetailComesBack
CHECK_DEADLOCK FALSE
