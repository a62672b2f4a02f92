\* Two results.
CONSTANTS
  Packages <- MCPackages
  Words <- MCWords
  Distance <- MCDistance
  LocalDate <- MCLocalDate
  INT_MAX = 7
  MaxResults = 2
SPECIFICATION Spec
CHECK_DEADLOCK FALSE
INVARIANT AlpmOnTop
