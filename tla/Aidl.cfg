SPECIFICATION FairSpec
CONSTANTS
  Builds <- MCBuilds
  Cwd <- MCCwd
  ShortNames <- MCShortNames
  MaxUserSetMethodId = 6
  Word = 16
  Keywords = {"class"}
  MaxCalls = 2
INVARIANTS CompilerSound FilesAgree BinderFaithful RpcFaithful
PROPERTIES FilesWritten AidlEnds
CHECK_DEADLOCK FALSE
