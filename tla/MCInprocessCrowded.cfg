CONSTANTS
  r1 = r1
  r2 = r2
  r3 = r3
  i1 = i1
  i2 = i2
  i3 = i3
  i4 = i4
  old = old
  appA = appA
  appB = appB
  None = None
  Rejected = Rejected
  Reps = {r1, r2, r3}
  Instances <- MCInstances
  Apps <- MCApps
  AppGuid <- MCAppGuid
  MemoryMB <- MCMemoryMB
  DiskMB <- MCDiskMB
  TotalMemoryMB <- CrowdedMemoryMB
  TotalDiskMB <- CrowdedDiskMB
  TotalContainers <- CrowdedContainers
  ScoreUnit = 4
  Initial <- CrowdedInitial
  Auctioned = {i1, i2}
  Algorithms = {"all_rescore", "all_reserve", "pick_among_best", "pick_best", "reserve_n_best", "random", "unknown"}
  MaxRounds = 2
  MaxBiddingPool = 60
  NBest = 2
  MayTimeout = TRUE
  MaxConcurrent = 2
SPECIFICATION FairSpec
INVARIANTS
  TypeOK
  NoOvercommit
  PlacedExactlyOnce
  ReservationsAccounted
  ReportCountsLost
PROPERTIES
  Termination
  EveryStepCounts
  ImplementsPlacement
