CONSTANTS
  r1 = r1
  i1 = i1
  i2 = i2
  old = old
  app = app
  c1 = c1
  c2 = c2
  None = None
  guid = r1
  Reps = {r1}
  Instances = {i1, i2, old}
  Apps = {app}
  AppGuid <- MCAppGuid
  MemoryMB <- MCMemoryMB
  DiskMB <- MCDiskMB
  TotalMemoryMB <- MCTotalMemoryMB
  TotalDiskMB <- MCTotalDiskMB
  TotalContainers <- MCTotalContainers
  ScoreUnit = 4
  Callers = {c1, c2}
  Batches <- MCBatches
  Initial = {old}
SPECIFICATION FairSpec
INVARIANTS
  Serialized
PROPERTIES
  ImplementsAuctionRep
  LockGivenBack
