SPECIFICATION FairSpec
CONSTANTS
  p = p
  a = a
  b = b
  cwd = cwd
  lib = lib
  Names <- MCNames
  Program = p
  Await = Await
  Cwd = cwd
  Folders <- MCFolders
  Contents <- MCContents
  Trees <- MCTrees
  MaxStack = 4
  MaxEdits = 0
INVARIANTS FailedImportsAreRejected
CHECK_DEADLOCK FALSE
