SPECIFICATION Spec
CONSTANTS
  x = x
  y = y
  nul = nul
  bad = bad
  repl = repl
  Byte <- MCByte
  Nul = nul
  Bad = bad
  Repl = repl
  Junk = Junk
  IntRange = 64
  MaxString = 16
  Names = {n1}
  Writable = {n1}
  Inodes = {i1, i2}
  HandlePtrs = {a1, a2}
  StreamPtrs = {q1, q2}
  Objs = {o1, o2, o3}
  Data <- MCData
  InitContents <- MCContents
  Null = Null
  NoFile = NoFile
  Idle = Idle
  MaxWrites = 2
  MaxDepth = 2
  MaxFds = 3
  BufCap = 1
  Quota = 16
  StickyEof = FALSE
  ClosesOnce = TRUE
  External = FALSE
SYMMETRY Symmetry
PROPERTIES BlindWriteIsTotal
CHECK_DEADLOCK FALSE
