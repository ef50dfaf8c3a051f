SPECIFICATION Spec
CONSTANTS
  BUFFERSIZE = 2
  UINT_RANGE = 65536
  Inputs <- AllFiles
  Rooms = {100}
  ReadFaults = FALSE
INVARIANT
  NoByteDropped
CHECK_DEADLOCK FALSE
