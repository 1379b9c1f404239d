SPECIFICATION MCSpec
CONSTANTS
  get = get
  post = post
  a = a
  b = b
  hidden = hidden
  db = db
  api = api
  x = x
  y = y
  Endpoint <- Endpoints
  OtherRoute = OtherRoute
  Kind = {db, api}
  Name = {x, y}
  OtherName = OtherName
  Operation <- Operations
  ErrorKind = {"error"}
  Bodies <- RequestBodies
  MaxRoutes = 1
  MaxKept = 1
  MaxOperations = 2
  WindowMs = 3
  Seconds = 2
  SecondTicks = 2
  MaxRows = 1
  MaxDropped = 1
  MaxDelay = 2
  ReferenceRoutes = 1
  PerRoute = 2
  Digest <- Summaries
  MaxReferenceDropped = 1
  Sustained = 2
  Cooldown = 2
  WaitThreshold = 1
  MinToArm = 1
  Excluded = {hidden}
  MaxRequests = 4
  MaxOpen = 2
  MaxNow = 5
  MaxRotations = 3
INVARIANT RegistersInv
INVARIANT EveryRequestTold
INVARIANT EveryOperationTold
INVARIANT SecondsTell
INVARIANT SamplesTell
INVARIANT ArmedMeansSustained
INVARIANT IdleMeansIdle
CONSTRAINT Within
CHECK_DEADLOCK FALSE
