\* A key that is not in aur_key_types_names.
CONSTANTS
  OtherKeys = {"Submitter"}
  Texts = {1}
  MaxMaps = 2
  MaxOpen = 4
  MaxKeys = 3
SPECIFICATION Spec
CHECK_DEADLOCK FALSE
INVARIANT MaintainerShown
