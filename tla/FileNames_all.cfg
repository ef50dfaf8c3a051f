SPECIFICATION Spec
CONSTANTS
  Char = {"x", ".", "/"}
  Dot = "."
  Slash = "/"
  MAX_PATH_LENGTH = 7
  TooLong = TooLong
  MaxLength = 4
  tmp <- TmpName
INVARIANTS
  PathsFit
  HiddenIsTheName
  TmpIsNextToIt
  ExtensionIsTheNames
CHECK_DEADLOCK FALSE
