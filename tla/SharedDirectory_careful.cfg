SPECIFICATION Spec
CONSTANTS
  A = A
  B = B
  f1 = f1
  f2 = f2
  Absent = Absent
  Procs = {A, B}
  Files = {f1, f2}
  Commands <- BothWays
  Kinds <- SomeKinds
  Careful = TRUE
  Faults = {"kill", "rename", "read"}
INVARIANTS
  TypeOK
  DataSurvives
  FilesAreTheirOwn
SYMMETRY Symmetry
CHECK_DEADLOCK FALSE
