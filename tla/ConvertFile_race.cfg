SPECIFICATION Spec
CONSTANTS
  A = A
  B = B
  C = C
  f1 = f1
  f2 = f2
  tmpA = tmpA
  tmpB = tmpB
  Absent = Absent
  Procs = {A, B}
  Files = {f1}
  Tmps = {tmpA, tmpB}
  session_tmp_filename <- OwnNames
  KnownBinaryNames = {}
  Invocations <- SomeCommands
  Kinds <- MostKinds
  Faults <- AllButClose
INVARIANTS
  TypeOK
  UnneededStay
  DataSurvives
  AbsentOnlyInTheWindow
  DoneIsConverted
  NotDoneIsUntouched
PROPERTY
  ReplacesSafely
CHECK_DEADLOCK FALSE
