SPECIFICATION FairSpec
CONSTANTS
  e1 = e1  e2 = e2
  plain = plain  counted = counted
  Evaluators = {e1, e2}
  Ids <- OneId
  Configs = {plain}
  Counting <- NoConfig
  Durations <- BelowZeroOrLater
  Hooks <- Unset
  MaxAge = 3
  MaxLag = 1
  MaxEdits = 0
  MaxFaults = 1
PROPERTIES
  Settles
