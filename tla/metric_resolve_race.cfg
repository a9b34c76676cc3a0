SPECIFICATION Spec
CONSTANTS
  r1 = r1  r2 = r2
  k1 = k1  k2 = k2  k3 = k3  k4 = k4  k5 = k5  k6 = k6
  c1 = c1  c2 = c2  c3 = c3  c4 = c4
  NoReading = NoReading
  Keys <- CounterKey
  Kind <- CounterKind
  ContentOf <- CounterContent
  HashOf <- CounterHash
  Contents = {c1}
  Ids <- ThreeIds
  Requests = {r1, r2}
  Readings <- OneTwo
  Skews <- NoSkew
  Capacity = 1
  IngestWindow = 9
  FutureTolerance = 0
  MaxPerBatch = 1
  MaxPerSeries = 1
  MaxTime = 2
  MaxFaults = 0
  MaxRestarts = 0
PROPERTIES
  NeverForgets
CHECK_DEADLOCK FALSE
