SPECIFICATION Spec
CONSTANTS
  x = x
  y = y
  nul = nul
  bad = bad
  repl = repl
  Byte <- MCByte
  Nul = nul
  Bad = bad
  Repl = repl
  Junk = Junk
  IntRange = 8
  MaxString = 1
  Names = {n1, n2}
  Writable = {n1}
  Inodes = {i1, i2}
  HandlePtrs = {a1, a2}
  StreamPtrs = {q1, q2}
  Objs = {o1, o2}
  Data <- MCData
  InitContents <- MCContents
  Null = Null
  NoFile = NoFile
  Idle = Idle
  MaxWrites = 2
  MaxDepth = 2
  MaxFds = 3
  BufCap = 1
  Quota = 3
  StickyEof = TRUE
  ClosesOnce = FALSE
  External = FALSE
SYMMETRY Symmetry
INVARIANTS StructsOwnStreams
PROPERTIES KeepsPromise
CHECK_DEADLOCK FALSE
