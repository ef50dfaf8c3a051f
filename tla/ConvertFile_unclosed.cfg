SPECIFICATION Spec
CONSTANTS
  A = A
  B = B
  C = C
  f1 = f1
  f2 = f2
  tmpA = tmpA
  tmpB = tmpB
  Absent = Absent
  Procs = {A}
  Files = {f1}
  Tmps = {tmpA}
  session_tmp_filename <- OwnNames
  KnownBinaryNames = {}
  Invocations <- ToLF
  Kinds <- CRLFFile
  Faults = {"close"}
INVARIANT
  DoneIsWhole
CHECK_DEADLOCK FALSE
