SPECIFICATION Spec
CONSTANTS
  Id = {1, 2}
  Operation = {1, 2}
  ToolOf <- ToolsUsed
  HasToken = TRUE
  MaxMessages = 3
  MaxVersion = 2
  CommandLine <- CommandLines
  RequestTimeout = 2
  SlowDown = 2
  MaxInterval = 2
  MaxExpires = 4
  MaxTime = 12
  Projects <- ProjectsTried
  MaxRuns = 2
  MaxSaves = 1
  Options <- OptionsTried
  Place <- Places
  LinkDepth = 3
  Line <- LinesTried
  Tolerance = 1
  Declared = {"GET /c"}
  Parsed <- UrlsParsed
  DefaultIntervalMs = 10
  MinIntervalMs = 1
  ProfileWindowMs = 60
  RecentMs = 300
  Environments <- EnvironmentsTried
  InitOptions <- CodeTried
  Preloads <- PreloadsTried
  Node <- NodesTried
  EnvFile <- FileTried
  MaxStarts = 2
  MaxShutdowns = 2
  Workloads = {"ids", "retries", "login", "init", "check", "read", "start"}
CONSTRAINT Within
INVARIANT EachAskOnce
INVARIANT InitKeepsWhatIsThere
INVARIANT NothingLeft
INVARIANT EachLineOnce
INVARIANT FirstStartRules
INVARIANT CredentialsShownOrLost
CHECK_DEADLOCK FALSE
