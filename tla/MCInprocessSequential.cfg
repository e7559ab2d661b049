CONSTANTS
  r1 = r1
  r2 = r2
  r3 = r3
  i1 = i1
  i2 = i2
  i3 = i3
  i4 = i4
  old = old
  appA = appA
  appB = appB
  None = None
  Rejected = Rejected
  Reps = {r1, r2}
  Instances <- MCInstances
  Apps <- MCApps
  AppGuid <- InTurnAppGuid
  MemoryMB <- MCMemoryMB
  DiskMB <- MCDiskMB
  TotalMemoryMB <- InTurnMemoryMB
  TotalDiskMB <- InTurnTotal
  TotalContainers <- InTurnTotal
  ScoreUnit = 12
  Initial <- InTurnInitial
  Auctioned = {i1, i2, i3, i4}
  Algorithms = {"all_rescore", "all_reserve", "pick_among_best", "pick_best", "reserve_n_best", "random"}
  MaxRounds = 1
  MaxBiddingPool = 100
  NBest = 2
  MayTimeout = FALSE
  MaxConcurrent = 1
SPECIFICATION FairSpec
INVARIANTS
  LostOnlyIfFull
  EvenSpread
PROPERTIES
  BestBidWins
  Termination
