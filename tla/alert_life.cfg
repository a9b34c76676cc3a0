SPECIFICATION FairSpec
CONSTANTS
  e1 = e1  e2 = e2
  plain = plain  counted = counted
  Evaluators = {e1}
  Ids <- OneId
  Configs = {plain, counted}
  Counting = {counted}
  Durations <- NowOrLater
  Hooks <- Either
  MaxAge = 3
  MaxLag = 1
  MaxEdits = 1
  MaxFaults = 2
INVARIANTS
  TypeOK
  NewsIsTrue
PROPERTIES
  FiresWhenDue
  LifecycleKept
  Told
