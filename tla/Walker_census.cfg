SPECIFICATION Spec
CONSTANTS
  a = a
  b = b
  c = c
  d = d
  e = e
  g = g
  l = l
  png = png
  gone = gone
  hid = hid
  tmp = tmp
  cwd = cwd
  sub = sub
  deep = deep
  closed = closed
  Nothing = Nothing
  Names = {a, b, c, d, e, g, l, png, gone, hid, tmp}
  TmpName = tmp
  strlen <- LongLength
  HiddenNames = {hid, tmp}
  KnownBinaryNames = {png}
  Directories = {cwd, sub, deep, closed}
  Cwd = cwd
  Tree <- Plain
  Arguments <- AllArguments
  Commands <- EveryCommand
  Unopenable = {closed}
  Faults = {}
  MAX_PATH_LENGTH = 10
  MAX_LINKS = 3
INVARIANTS
  TypeOK
  TotalsAreTrue
  SumsAgree
CHECK_DEADLOCK FALSE
