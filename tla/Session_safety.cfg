SPECIFICATION FairSpec
CONSTANTS
  RequestIds = {r1, r2}
  MaxMessages = 3
  MaxChunks = 1
INVARIANTS
  NoOrphanTask
  ClosedLeavesNothing
  NothingAfterClosing
  NoSilentEnd
PROPERTIES
  NobodyHangs
