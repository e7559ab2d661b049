CONSTANTS
  r1 = r1
  r2 = r2
  None = None
  Reps = {r1, r2}
  MaxBatches = 2
SPECIFICATION FairSpec
INVARIANTS
  MapHoldsPending
  RepliesToThisBatch
  CompleteWhenAllAnswer
  ChannelHasRoom
PROPERTIES
  DispatcherFree
  BatchesReturn
