SPECIFICATION Spec
CONSTANTS
  Words <- Vocabulary
  cl_names <- Actions
  CommandLines <- UpToThree
INVARIANTS
  TypeOK
  ReadingIsRight
  FirstReasonDecides
CHECK_DEADLOCK FALSE
