SPECIFICATION MCSpec
CONSTANTS
  Processes = {p1, p2}
  Setups = {p1}
  Migrations <- MCMigrations
  Rebuilds <- MCRebuilds
  Places <- MCPlaces
  Databases <- MCDatabases
  MaxCrashes = 1
  MaxOldBuilds = 1
  Servers = {pid1, pid2, pid3}
  pid1 = pid1
  Clients = {c1}
  Nobody = Nobody
  Inodes = 2
  Attempts = 3
  MaxManual = 1
  MaxCommands = 2
  MaxFailures = 1
INVARIANTS
  WorkIsKept
  AppliedOnce
  OneServer
  RecordIsTheHolders
PROPERTIES
  Opens
  StopMeansGone
  ServerReturns
CHECK_DEADLOCK FALSE
