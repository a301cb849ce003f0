SPECIFICATION FairSpec
CONSTANTS
  utm = utm
  ipc = ipc
  Series <- OneSeries
  Brackets = brackets
  Syncer = {s1}
  Refresher = {r1}
  Lookbacks = {20, 65}
  DaysPerMonth = 30
  YearMonths = 2
  LastMonth = 3
  Tables <- ThreeMonths
  TopIncome = 2
INVARIANTS
  TypeOK
  SyncClosesGaps
  NewYearsArrive
  BracketsLeaveNoGap
PROPERTIES
  MonthsArrive
CHECK_DEADLOCK FALSE
