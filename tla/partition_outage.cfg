SPECIFICATION Spec
CONSTANTS
  r1 = r1  body = body
  TableOrder <- LogsAndSpans
  Retention <- KeepSpansLess
  MonthLength = 4
  Period = 1
  IngestWindow = 1
  FutureTolerance = 1
  Installs <- FirstDay
  Payloads = {body}
  MaxStall = 0
  MaxTime = 13
  MaxFaults = 0
  Requests = {r1}
  Keyed <- SpansOnly
  Undated <- LogsOnly
  MaxBatch = 1
  MaxPosts = 0
INVARIANTS
  NoIngestOutage
CHECK_DEADLOCK FALSE
