SPECIFICATION LifeSpec
CONSTANTS
  Part <- Parts
  Driver = {"pg", "mysql", "sqlite", "mssql", "mongodb"}
  DriverOf <- Owner
  Imported = {"neon, imported"}
  AwaitsImports = {"pg"}
  Optional = {"mariadb callback"}
  Watched = {"mssql pool", "prisma adapter"}
  LastLook = 3
  Channel = {"http", "redis"}
  Behaviour <- Acts
  Target = {"a", "b"}
  Excluded = {"b"}
  MaxInternalErrors = 2
  MaxRequests = 4
  MaxCalls = 3
  MaxStarts = 2
  Capture = {c1, c2}
  Door = {"stop", "disable", "signal", "idle"}
  MaxLive = 1
  MaxFlushes = 3
  MaxItems = 2
  MaxAccepted = 2
INVARIANT LoadedMeansPatched
INVARIANT EachCallOnce
INVARIANT DrainInv
INVARIANT CaptureAccountedFor
INVARIANT ReferenceFollows
INVARIANT OneVersionSaid
INVARIANT StopDelivers
SYMMETRY Captures
CONSTRAINT WithinLife
CHECK_DEADLOCK FALSE
