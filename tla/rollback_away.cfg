SPECIFICATION RollbackFairSpec
CONSTANTS
  Field <- Fields
  Stamp = "stamp"
  Value = {1, 2, 3}
  Stamps = {1}
  Absent = 0
  Crashing <- Broken
  First <- Working
  Releases <- Releasable
  MaxPods = 2
  EntryTime = 1
  MaxRevision = 5
  MaxReleases = 2
PROPERTIES
  AwayFromCrash
CHECK_DEADLOCK FALSE
