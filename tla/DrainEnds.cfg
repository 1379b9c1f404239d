SPECIFICATION FairDrainSpec
CONSTANTS
  Capture = {c1}
  Door = {"stop", "signal"}
  MaxLive = 1
  MaxFlushes = 3
  MaxItems = 1
  MaxAccepted = 1
PROPERTY EveryFlushEnds
CHECK_DEADLOCK FALSE
