SPECIFICATION RollbackFairSpec
CONSTANTS
  Field <- Fields
  Stamp = "stamp"
  Value = {1, 2, 3}
  Stamps = {1}
  Absent = 0
  Crashing <- Broken
  First <- Working
  Releases <- Releasable
  MaxPods = 1
  EntryTime = 1
  MaxRevision = 6
  MaxReleases = 2
INVARIANTS
  RollbackTypeOK
  PreviousFound
  SwapsOnly
PROPERTIES
  ServiceRestored
CHECK_DEADLOCK FALSE
