SPECIFICATION FairSpec
CONSTANTS
  usd = usd
  uf = uf
  Codes <- OneCode
  ForwardCodes = {uf}
  Syncer = {s1}
  Looker = {l1}
  Refresher = {r1}
  Lookback = 3
  Forward = 0
  ProbeDays = 1
  LastDay = 2
  MaxLookups = 2
  MaxDeaths = 1
  Supplied = {1}
  Open = {1}
INVARIANTS
  TypeOK
  FirstTransactionIsHonest
  ConfirmedLostToRacesOnly
  FutureAnswersAreExact
PROPERTIES
  RatesSettle
CHECK_DEADLOCK FALSE
