SPECIFICATION Spec
CONSTANTS
  r1 = r1  body = body
  TableOrder <- LogsAndSpans
  Retention <- KeepSpansLess
  MonthLength = 6
  Period = 1
  IngestWindow = 1
  FutureTolerance = 1
  Installs <- FirstOfSix
  Payloads = {body}
  MaxStall = 1
  MaxTime = 23
  MaxFaults = 1
  Requests = {r1}
  Keyed <- SpansOnly
  Undated <- LogsOnly
  MaxBatch = 1
  MaxPosts = 1
INVARIANTS
  TypeOK
  PartitionsAhead
  AckedUntilExpired
  ExpiredDataGoes
CHECK_DEADLOCK FALSE
