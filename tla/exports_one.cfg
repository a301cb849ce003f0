SPECIFICATION FairSpec
CONSTANTS
  Job = {j1}
  Writer = {j1}
  FileId = {f1}
  Seed = {f1}
  CanCreate = FALSE
  Stopper = {s1, s2}
  Series = 2
  Window = 5
  Interval = 3
  GuessIds = FALSE
  MaxFaults = 2
INVARIANTS
  TypeOK
  TimelyStopPreventsUpload
  StopTakesEffectWithinInterval
  SuccessIsComplete
  ProgressIsFresh
  ToldStoppingIsFlagged
  OrphanOnlyAfterFault
PROPERTIES
  OutcomesAreFinal
  ImplementsLifecycle
  EveryJobEnds
  TimelyStopCancels
CHECK_DEADLOCK FALSE
