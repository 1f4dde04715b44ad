SPECIFICATION Spec
CONSTANTS
  p = p
  b = b
  cwd = cwd
  lib = lib
  Starts <- OneFlagStarts
  Names <- MCNames
  Program = p
  Await = Await
  Cwd = cwd
  Folders <- MCFolders
  Contents <- MCContents
  Trees <- MCTrees
  MaxStack = 3
  ArgCounts = {0, 1, 2}
  MaxCalls = 3
  Flags <- MCFlags
  Ints = {"64"}
  Floats = {"0.5"}
  None = None
INVARIANTS AnyFlagReachesV8
CHECK_DEADLOCK FALSE
