\* All orders, up to four results.
CONSTANTS
  Packages <- MCPackages
  Words <- MCWords
  Distance <- MCDistance
  LocalDate <- MCLocalDate
  INT_MAX = 7
  MaxResults = 4
SPECIFICATION Spec
CHECK_DEADLOCK FALSE
INVARIANTS TypeOK PrintedIsFound CompareIsOrder PrintedInOrder PrintedAlive
