\* -1 -ii with two targets.
CONSTANTS
  SyncDbs <- MCSyncDbs
  Cache <- MCCache
  AurPkgs <- MCAurPkgs
  CommandLines <- JustOneLines
  AurMaxArg = 2
SPECIFICATION Spec
CHECK_DEADLOCK FALSE
INVARIANT EachTargetAnswered
