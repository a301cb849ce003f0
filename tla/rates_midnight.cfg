SPECIFICATION Spec
CONSTANTS
  usd = usd
  uf = uf
  Codes <- TwoCodes
  ForwardCodes = {uf}
  Syncer = {s1}
  Looker = {}
  Refresher = {}
  Lookback = 1
  Forward = 0
  ProbeDays = 1
  LastDay = 2
  MaxLookups = 1
  MaxDeaths = 1
  Supplied = {}
  Open = {1, 2}
INVARIANT ConfirmedIsFinal
CHECK_DEADLOCK FALSE
