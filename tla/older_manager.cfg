SPECIFICATION FairSpec
CONSTANTS
  NULL = NULL
  Char <- MCChar
  Digit <- MCDigit
  Typed <- MCTyped
  Path <- MCPath
  Inode = {"i1", "i2"}
  Lookup <- MCLookup
  PageLines = 2
  Longer = "longer"
  ProtectFile = "i2"
  MaxFiles = 2
INVARIANTS Understood InStep
PROPERTIES Heard
CHECK_DEADLOCK FALSE
