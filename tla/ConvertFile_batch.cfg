SPECIFICATION FairSpec
CONSTANTS
  A = A
  B = B
  C = C
  f1 = f1
  f2 = f2
  tmpA = tmpA
  tmpB = tmpB
  Absent = Absent
  Procs = {A, B, C}
  Files = {f1, f2}
  Tmps = {tmpA, tmpB}
  session_tmp_filename <- ReusedNames
  KnownBinaryNames = {f2}
  Invocations <- ToLFKeepAll
  Kinds <- SomeKinds
  Faults = {"kill", "rename", "read"}
CONSTRAINT ReuseBounds
INVARIANTS
  NoLeftoverTmp
  MetaRestored
  BinariesStay
PROPERTIES
  LeftCopyStays
  Termination
  AbsentIsTransient
CHECK_DEADLOCK FALSE
