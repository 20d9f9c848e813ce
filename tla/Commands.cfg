CONSTANTS
  Processes = {p1, p2}
  Objects = 4
  PageSize = 2
  CheckpointEvery = 2
  MaxItems = 3
  MaxPages = 3
  Chunks = 2
  Requests <- SomeRequests
  Letters <- SomeLetters
  Expansion = 3
  Pad = 0
  MinRadius = 3
  Retention = 2
  Credentials <- SomeCredentials
  MaxLength = 5
  MaxPiece = 2
  Segments <- SomeSegments
  MaxSegments = 3
  Hosts = {"e", "w"}
  Tenants = {"T", "U"}
  Proxy = Proxy
  OwnAuth = OwnAuth
  Central = Central
  None = None
  Routes <- SomeRoutes
  OwnSets <- SomeOwnSets
  Own = Own
  Other = Other
  Paths <- SomePaths
  Tokens <- SomeTokens
  Files <- SomeFiles
  Profiles <- SomeProfiles
  Settings <- SomeSettings
  Roles <- SomeRoles
  Caches <- SomeCaches
  Leftovers <- SomeLeftovers
  Configs <- SomeConfigs
  Invocations <- SomeInvocations
SPECIFICATION CommandsSpec
INVARIANTS ScanInv StatusInv RawInv RoutingInv LeaseInv DiagnosisInv
PROPERTIES GuardedWrites StreamGuarded EveryCommandEnds ProgressKept
\* A command and an output end.
CHECK_DEADLOCK FALSE
