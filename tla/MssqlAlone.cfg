SPECIFICATION MCSpec
CONSTANTS
  Part <- Parts
  Driver = {"pg", "mysql", "sqlite", "mssql", "mongodb"}
  DriverOf <- Owner
  Imported = {"neon, imported"}
  AwaitsImports = {"pg"}
  Optional = {"mariadb callback"}
  Watched = {"mssql pool", "prisma adapter"}
  LastLook = 3
  Channel = {"http", "redis"}
  Behaviour <- Acts
  Target = {"a", "b"}
  Excluded = {"b"}
  MaxInternalErrors = 2
  MaxRequests = 4
  MaxCalls = 3
  MaxStarts = 2
INVARIANT ObservedMeansRecorded
CONSTRAINT Within
CHECK_DEADLOCK FALSE
