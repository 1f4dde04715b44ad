SPECIFICATION Spec
CONSTANTS
  p = p
  b = b
  cwd = cwd
  lib = lib
  Starts <- UsualStarts
  Names <- MCNames
  Program = p
  Await = Await
  Cwd = cwd
  Folders <- MCFolders
  Contents <- MCContents
  Trees <- MCTrees
  MaxStack = 3
  ArgCounts = {1}
  MaxCalls = 3
  Flags <- MCFlags
  Ints = {"64"}
  Floats = {"0.5"}
  None = None
INVARIANTS DocumentedCallsReturn
CHECK_DEADLOCK FALSE
