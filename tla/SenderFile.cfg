SPECIFICATION Spec
CONSTANTS
  Sig = {}
  Signal = {}
  Capture = {}
  Ending = {exit, signal}
  NoEnding = NoEnding
  Local = TRUE
  MaxQueued = 2
  MaxExceptions = 1
  MaxSignatures = 2
  MaxRunningTotals = 2
  MaxTriggers = 1
  MaxIntervals = 4
  MaxProfiles = 2
  MaxThrows = 2
  MaxAsks = 0
  MaxFailures = 1
  MaxRejected = 1
  MaxLate = 1
INVARIANT HeldIsWritten
CHECK_DEADLOCK FALSE
