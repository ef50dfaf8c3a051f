SPECIFICATION Spec
CONSTANTS
  a = a
  b = b
  c = c
  d = d
  e = e
  g = g
  l = l
  png = png
  gone = gone
  hid = hid
  tmp = tmp
  cwd = cwd
  sub = sub
  deep = deep
  closed = closed
  Nothing = Nothing
  Names = {a, b, c, d, e, g, l, png, gone, hid, tmp}
  TmpName = tmp
  strlen <- Length
  HiddenNames = {hid, tmp}
  KnownBinaryNames = {png}
  Directories = {cwd, sub, deep, closed}
  Cwd = cwd
  Tree <- Linked
  Arguments <- BothArguments
  Commands <- ThreeCommands
  Unopenable = {closed}
  Faults = {"stat", "io", "rename", "relist"}
  MAX_PATH_LENGTH = 8
  MAX_LINKS = 2
INVARIANTS
  PathsFit
  NothingMissed
  OnlyEligible
PROPERTIES
  IsASweep
  Termination
CHECK_DEADLOCK FALSE
