CONSTANTS
  a = a
  b = b
  r1 = r1
  r2 = r2
  Callers = {a, b}
  Reps = {r1}
  Guids <- MCGuids
  MaxConnections = 2
  Refusable = {2}
SPECIFICATION FairSpec
INVARIANTS
  TypeOK
  OneOKEach
  SubscribedWhereServed
  AllReceivedMeansAll
PROPERTY ReturnsOrStranded
CHECK_DEADLOCK FALSE
