SPECIFICATION FairSpec
CONSTANTS
  BUFFERSIZE = 3
  UINT_RANGE = 65536
  Inputs <- AllFiles
  Rooms = {0, 4, 100}
  ReadFaults = TRUE
INVARIANTS
  TypeOK
  BuffersInBounds
  NoCountUnderflow
  OutputIsTranslation
  ReportIsExact
  PreCheckIsExact
  ConvertedNeedsNothing
  AbstractionIsExact
PROPERTY
  Termination
CHECK_DEADLOCK FALSE
