CONSTANTS
  r1 = r1
  r2 = r2
  i1 = i1
  i2 = i2
  old = old
  app = app
  None = None
  Reps = {r1, r2}
  Instances <- MCInstances
  Apps = {app}
  AppGuid <- MCAppGuid
  MemoryMB <- MCMemoryMB
  DiskMB <- MCDiskMB
  TotalMemoryMB <- RoomyMemoryMB
  TotalDiskMB <- MCTotalDiskMB
  TotalContainers <- RoomyContainers
  ScoreUnit = 8
  Initial <- MCInitial
  Rejected = Rejected
  Auctioned = {i1}
  Algorithms = {"all_rescore", "all_reserve", "pick_among_best", "pick_best", "reserve_n_best", "random"}
  MaxRounds = 3
  MaxBiddingPool = 100
  NBest = 2
SPECIFICATION FairSpec
INVARIANTS
  ViewWrongOnlyWhereMissed
  WinnerKeepsInstance
PROPERTIES
  EveryStepCounts
  Termination
