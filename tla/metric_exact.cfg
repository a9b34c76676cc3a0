SPECIFICATION Spec
CONSTANTS
  r1 = r1  r2 = r2
  k1 = k1  k2 = k2  k3 = k3  k4 = k4  k5 = k5  k6 = k6
  c1 = c1  c2 = c2  c3 = c3  c4 = c4
  NoReading = NoReading
  Keys <- KindKeys
  Kind <- KindKind
  ContentOf <- KindContent
  HashOf <- KindHash
  Contents = {c1, c2, c3, c4}
  Ids <- SixIds
  Requests = {r1}
  Readings <- OneTwoOrNone
  Skews <- NoSkew
  Capacity = 6
  IngestWindow = 9
  FutureTolerance = 0
  MaxPerBatch = 2
  MaxPerSeries = 2
  MaxTime = 4
  MaxFaults = 0
  MaxRestarts = 0
INVARIANTS
  TypeOK
  DeltasTelescope
CHECK_DEADLOCK FALSE
