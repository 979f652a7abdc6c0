SPECIFICATION Spec
CONSTANTS
  SegmentFrames = 2
  MaxBatch = 2
  MaxRecords = 3
  MaxErrors = 1
  MaxCrashes = 1
INVARIANT AckedNeverLost
CHECK_DEADLOCK FALSE
