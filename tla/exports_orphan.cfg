SPECIFICATION Spec
CONSTANTS
  Job = {j1}
  Writer = {j1}
  FileId = {f1}
  Seed = {f1}
  CanCreate = FALSE
  Stopper = {s1}
  Series = 1
  Window = 2
  Interval = 2
  GuessIds = FALSE
  MaxFaults = 1
INVARIANT EndedTaskRecordsOutcome
CHECK_DEADLOCK FALSE
