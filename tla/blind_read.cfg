SPECIFICATION Spec
CONSTANTS
  x = x
  y = y
  nul = nul
  bad = bad
  repl = repl
  Byte <- MCByte
  Nul = nul
  Bad = bad
  Repl = repl
  Junk = Junk
  IntRange = 2
  MaxString = 0
  Names = {n1}
  Writable = {n1}
  Inodes = {i1, i2}
  HandlePtrs = {a1, a2}
  StreamPtrs = {q1, q2}
  Objs = {o1, o2, o3}
  Data <- MCData
  InitContents <- MCContents
  Null = Null
  NoFile = NoFile
  Idle = Idle
  MaxWrites = 2
  MaxDepth = 2
  MaxFds = 3
  BufCap = 1
  Quota = 16
  StickyEof = FALSE
  ClosesOnce = TRUE
  External = FALSE
SYMMETRY Symmetry
PROPERTIES BlindReadIsTotal
CHECK_DEADLOCK FALSE
