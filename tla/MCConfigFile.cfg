\* A configuration file and one that it includes.
CONSTANTS
  Text <- MCText
  FileSystems <- MCFileSystems
  Globs <- MCGlobs
  Configfile = "pacman.conf"
  Machine = "x86_64"
  MaxOpen = 3
SPECIFICATION Spec
CHECK_DEADLOCK FALSE
INVARIANTS TypeOK HandleFromOptions ServersOfRepos FilesClosed
