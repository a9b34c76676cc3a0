SPECIFICATION Spec
CONSTANTS
  r1 = r1  r2 = r2
  k1 = k1  k2 = k2  k3 = k3  k4 = k4  k5 = k5  k6 = k6
  c1 = c1  c2 = c2  c3 = c3  c4 = c4
  NoReading = NoReading
  Keys <- TwistedKeys
  Kind <- TwistedKind
  ContentOf <- TwistedContent
  HashOf <- TwistedHash
  Contents = {c1, c2}
  Ids <- ThreeIds
  Requests = {r1, r2}
  Readings <- JustOne
  Skews <- NoSkew
  Capacity = 1
  IngestWindow = 2
  FutureTolerance = 0
  MaxPerBatch = 2
  MaxPerSeries = 2
  MaxTime = 3
  MaxFaults = 1
  MaxRestarts = 1
SYMMETRY RequestSymmetry
INVARIANTS
  CacheIsCanonical
  PointsAreFiled
  AckedIsStored
  NothingUnreported
CHECK_DEADLOCK FALSE
