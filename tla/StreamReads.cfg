CONSTANTS
  o1 = o1
  o2 = o2
  r1 = r1
  r2 = r2
  r3 = r3
  r4 = r4
  NoLimit = NoLimit
  Objects = {o1, o2}
  Reads = {r1, r2, r3, r4}
  Owner <- TwoOwners
  Size <- MixedSizes
  Limit = 4
  Concurrency = 2
  Threads = 1
SPECIFICATION FairSpec
INVARIANTS
  TypeOK
  BooksBalance
  LimitHolds
  PeakBound
  NoLostWakeup
  NoPartialResult
PROPERTIES
  EndsGivingAllBack
  KeepsPromise
