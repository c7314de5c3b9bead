SPECIFICATION Spec
CONSTANTS
  Jobs = {"one", "two"}
  Files = {"f", "g"}
  FilesOf <- MCFilesOf
  NoFile = NoFile
  NoJob = NoJob
  MaxAsks = 2
  MaxEnds = 1
INVARIANT SucceededMeansComplete
CHECK_DEADLOCK FALSE
