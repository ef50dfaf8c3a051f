SPECIFICATION Spec
CONSTANTS
  A = A
  B = B
  f1 = f1
  f2 = f2
  Absent = Absent
  Procs = {A, B}
  Files = {f1}
  Commands <- SameWay
  Kinds <- OneKind
  Careful = FALSE
  Faults = {}
INVARIANT
  DoneIsWhole
CHECK_DEADLOCK FALSE
