\* An AUR search for two words neither of which finds anything.
CONSTANTS
  SyncDbs <- MCSyncDbs
  Cache <- MCCache
  AurPkgs <- MCAurPkgs
  CommandLines <- SearchLines
  AurMaxArg = 2
SPECIFICATION FairSpec
CHECK_DEADLOCK FALSE
PROPERTY AurRequestReturns
