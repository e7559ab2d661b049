CONSTANTS
  r1 = r1
  r2 = r2
  i1 = i1
  i2 = i2
  old = old
  app = app
  None = None
  Reps = {r1, r2}
  Instances <- MCInstances
  Apps = {app}
  AppGuid <- MCAppGuid
  MemoryMB <- MCMemoryMB
  DiskMB <- MCDiskMB
  TotalMemoryMB <- MCTotalMemoryMB
  TotalDiskMB <- MCTotalDiskMB
  TotalContainers <- MCTotalContainers
  ScoreUnit = 4
  Initial <- MCInitial
  Rejected = Rejected
  Auctioned = {i1, i2}
  Algorithms = {"all_rescore", "all_reserve", "pick_among_best", "pick_best", "reserve_n_best", "random"}
  MaxRounds = 1
  MaxBiddingPool = 100
  NBest = 2
SPECIFICATION Spec
INVARIANTS
  TypeOK
  NoOvercommit
  ViewWrongOnlyWhereMissed
  LostToAnother
PROPERTIES
  ImplementsPlacement
