\* Every operation: lookups with and without -1, --q queries, listings, searches,
\* groups, package files, -Am and -Au; all sources in all orders, two names per
\* AUR request.
CONSTANTS
  SyncDbs <- MCSyncDbs
  Cache <- MCCache
  AurPkgs <- MCAurPkgs
  CommandLines <- AllLines
  AurMaxArg = 2
SPECIFICATION FairSpec
CHECK_DEADLOCK FALSE
INVARIANTS TypeOK PrintedAtMostOnce RemovedIffAnswered FirstDatabaseWins NothingOverlooked
INVARIANTS ExitStatusTruthful ForeignShownOnce UpgradesAreNewer
PROPERTIES JustOneKept ExitsOrAsksForEver
