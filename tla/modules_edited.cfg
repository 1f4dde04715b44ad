SPECIFICATION FairSpec
CONSTANTS
  p = p
  a = a
  b = b
  cwd = cwd
  lib = lib
  Names <- MCNames
  Program = p
  Await = Await
  Cwd = cwd
  Folders <- MCFolders
  Contents <- MCContents
  Trees <- EditedTrees
  MaxStack = 3
  MaxEdits = 1
INVARIANTS RunsOnlyWholeGraphs NothingIsLeftWaiting
CHECK_DEADLOCK FALSE
