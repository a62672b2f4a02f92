\* What the string functions make of all short texts.
SPECIFICATION Spec
CHECK_DEADLOCK FALSE
CONSTANTS
  Char <- MCChar
  PathMax = 1
  Value <- MCValue
  Translation <- MCTranslation
  Stat <- MCStat
  IdChars = {"a"}
  ValChars = {"1"}
  Alphabet <- MCAlphabet
  MaxText <- MCMaxText
  MaxOther <- MCMaxOther
  Repo <- MCRepo
  Arch <- MCArch
  Entries <- MCEntries
  MaxEntries = 2
  DefaultColors <- MCDefaultColors
INVARIANTS TypeOK NumbersExact PartsRead ColorsRead TextsExpanded BuffersSuffice
