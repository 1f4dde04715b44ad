SPECIFICATION Spec
CONSTANTS
  a = a
  b = b
  code = code
  Blank = Blank
  Pattern = Pattern
  Tokens <- MCTokens
  Files <- MCFiles
  Templates <- MCTemplates
  Disks <- MCDisks
INVARIANTS ComposesWholeFiles LeftImportsCameLate TwinsAgree
CHECK_DEADLOCK FALSE
