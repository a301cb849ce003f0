SPECIFICATION Spec
CONSTANTS
  uf = uf
  utm = utm
  Daily = {uf}
  Forward = {uf}
  Monthly = {}
  Holds <- SmallHolds
  Ahead = 1
  ProbeDays = 2
  MonthDays = 4
  YearEnd = 4
  PageOf <- SmallPages
  LastDay = 5
CHECK_DEADLOCK FALSE
INVARIANT BatchMatchesSingle
