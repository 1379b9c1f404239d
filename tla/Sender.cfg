SPECIFICATION Spec
CONSTANTS
  Sig = {s1, s2}
  Signal = {g1, g2}
  Capture = {c1}
  Ending = {exit, signal}
  NoEnding = NoEnding
  Local = FALSE
  MaxQueued = 2
  MaxExceptions = 1
  MaxSignatures = 1
  MaxRunningTotals = 1
  MaxTriggers = 2
  MaxIntervals = 4
  MaxProfiles = 3
  MaxThrows = 2
  MaxAsks = 2
  MaxFailures = 2
  MaxRejected = 1
  MaxLate = 2
INVARIANT IInv
INVARIANT NothingElseVanishes
INVARIANT CountedAtMostOnce
INVARIANT NoOccurrenceVanishes
INVARIANT LossIsSaid
INVARIANT CountersNeverLieDownwards
PROPERTY CountedOnce
CONSTRAINT Within
CHECK_DEADLOCK FALSE
