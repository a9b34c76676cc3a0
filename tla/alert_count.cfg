SPECIFICATION FairSpec
CONSTANTS
  e1 = e1  e2 = e2
  plain = plain  counted = counted
  Evaluators = {e1}
  Ids <- OneId
  Configs = {counted}
  Counting = {counted}
  Durations <- Later
  Hooks <- Either
  MaxAge = 3
  MaxLag = 1
  MaxEdits = 0
  MaxFaults = 0
PROPERTIES
  EveryRuleSettles
