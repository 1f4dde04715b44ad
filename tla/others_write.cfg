SPECIFICATION Spec
CONSTANTS
  x = x
  y = y
  nul = nul
  bad = bad
  repl = repl
  Byte <- MCByte
  Nul = nul
  Bad = bad
  Repl = repl
  Junk = Junk
  IntRange = 64
  MaxString = 16
  Names = {n1, n2}
  Writable = {n1}
  Inodes = {i1, i2}
  HandlePtrs = {a1}
  StreamPtrs = {q1}
  Objs = {o1, o2}
  Data <- MCData
  InitContents <- MCContents
  Null = Null
  NoFile = NoFile
  Idle = Idle
  MaxWrites = 2
  MaxDepth = 1
  MaxFds = 3
  BufCap = 1
  Quota = 3
  StickyEof = FALSE
  ClosesOnce = FALSE
  External = TRUE
SYMMETRY Symmetry
INVARIANTS CloseMakesDurable PrefixSurvives
PROPERTIES KeepsPromise ReadsWhatWasWritten
CHECK_DEADLOCK FALSE
