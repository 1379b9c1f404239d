SPECIFICATION Spec
CONSTANTS
  Sig = {}
  Signal = {}
  Capture = {}
  Ending = {exit}
  NoEnding = NoEnding
  Local = FALSE
  MaxQueued = 2
  MaxExceptions = 1
  MaxSignatures = 2
  MaxRunningTotals = 2
  MaxTriggers = 1
  MaxIntervals = 1
  MaxProfiles = 0
  MaxThrows = 0
  MaxAsks = 0
  MaxFailures = 1
  MaxRejected = 1
  MaxLate = 1
INVARIANT EndingLandedMeansSaid
CHECK_DEADLOCK FALSE
