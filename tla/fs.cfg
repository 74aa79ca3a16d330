SPECIFICATION FsSpec
CONSTANTS
  p1 = p1
  p2 = p2
  FsProcs = {p1, p2}
  NoProc = NoProc
  FNames = {"d", "x"}
  NINODES = 3
  NINODE = 4
  InitFiles <- EmptyDisk
  Calls <- MCCalls
INVARIANTS RefExact CacheCoherent 
CHECK_DEADLOCK FALSE
