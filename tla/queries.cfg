SPECIFICATION Spec
CONSTANTS
  red = red  blue = blue  shape1 = shape1  shape2 = shape2
  Garbage = Garbage  Absent = Absent  Bare = Bare  JsonNull = JsonNull
  Hour = 2
  TicksPerMs = 2
  Scenarios <- AllScenarios
  Now = 10
  MonthLength = 8
  DefaultStep = 2
  LogPage <- SmallLogPage
  TracePage <- SmallTracePage
  MaxFaults = 1
INVARIANTS
  TypeOK
  SumsAreBracketed
  DistributionIsNewest
  PageIsNewest
  SummariesAreTrue
  ServiceMapIsTrue
  RollupsAddUp
  StatsAreBracketed
