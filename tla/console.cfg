SPECIFICATION Spec
CONSTANTS
  MaxSteps <- SmallSteps

  Panels = {p1}
  MaxDash = 2
  MaxPanels = 1
  MaxRules = 1

  MetricNames = {m1, m2}
  TraceIds = {t1, t2}
  Trees <- AllTrees
  None = None
  Pages <- AllPages
CHECK_DEADLOCK FALSE
INVARIANTS
  TypeOK
  DashboardsSettle
  LastSaveWins
  RulesSettle
  ConfigsFitTheirKind
  EditsReachTheirRule
  QueriesSettle
  WaterfallNests
  BarsFit
  SpinnersEnd
PROPERTIES
  NoResurrection
