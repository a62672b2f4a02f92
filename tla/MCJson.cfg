\* Replies of two packages, or of one that holds a map; an unknown key may occur.
CONSTANTS
  OtherKeys = {"Submitter"}
  Texts = {1, 2}
  MaxMaps = 3
  MaxOpen = 5
  MaxKeys = 4
SPECIFICATION Spec
CHECK_DEADLOCK FALSE
INVARIANTS TypeOK AllOrNothing SortedWhenNamed FieldUnderItsKey
