SPECIFICATION FairSpec
CONSTANTS
  Names <- MCNames
  ToolOf <- MCToolOf
  CallOf <- MCCallOf
  Paths <- MCPaths
  Inodes <- MCInodes
  KindOf <- MCKindOf
  LinkTo <- MCLinkTo
  Trees <- MCTrees
  Flags = {"A", "D"}
  Modifiers <- MCModifiers
  Hidden = {"b", "e"}
  Puts <- MCPuts
  Moved <- MCMoved
  MaxOthers = 1
  BufferSize = 3
  Contents <- MCContents
  Types = {"ext3", "vfat"}
  Pids = {1, 2}
  MaxChanges = 3
  Requests <- MCRequests
  InputLength = 5
  OldLength = 3
  DefaultSize = 3
  Sizes = {0, 1, 2}
  Counts = {0, 2}
  MaxInterrupts = 1
INVARIANTS StatusHonest OnlyAsked OutputComplete
PROPERTIES ToolEnds
CHECK_DEADLOCK FALSE
