SPECIFICATION Spec
CONSTANTS
  utm = utm
  ipc = ipc
  Series <- BothSeries
  Brackets = brackets
  Syncer = {s1}
  Refresher = {}
  Lookbacks = {20, 65}
  DaysPerMonth = 30
  YearMonths = 2
  LastMonth = 2
  Tables <- TwoMonths
  TopIncome = 1
INVARIANT BracketsCoverWindow
CHECK_DEADLOCK FALSE
