SPECIFICATION FolderSpec
CONSTANTS
  Writer = {w1, w2}
  FileId = {f1, f2}
  Seed = {}
  CanCreate = TRUE
INVARIANT OneFilePerName
CHECK_DEADLOCK FALSE
