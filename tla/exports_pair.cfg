SPECIFICATION Spec
CONSTANTS
  Job = {j1, j2}
  Writer = {j1, j2, w1}
  FileId = {f1, f2}
  Seed = {f1}
  CanCreate = TRUE
  Stopper = {s1}
  Series = 1
  Window = 1
  Interval = 3
  GuessIds = FALSE
  MaxFaults = 0
SYMMETRY JobSymmetry
INVARIANTS
  FileHoldsCompleteExports
  SeededFolderStaysSingle
CHECK_DEADLOCK FALSE
