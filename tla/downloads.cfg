SPECIFICATION Spec
CONSTANTS
  Jobs = {"one", "two"}
  Files = {"f", "g"}
  FilesOf <- MCFilesOf
  NoFile = NoFile
  NoJob = NoJob
  MaxAsks = 2
  MaxEnds = 1
INVARIANTS TypeOK NothingLost
PROPERTIES CanceledByUser EveryJobServed
CHECK_DEADLOCK FALSE
