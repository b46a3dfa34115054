SPECIFICATION MCSpec
CONSTANTS
  Parts = {"checkpoint"}
  MaxLookups = 3
  MaxLookupFaults = 2
  MaxTime = 3
  MaxTimers = 3
  MaxSeconds = 2
  Second = 2
  Bytes <- const_Bytes
  MaxBytes = 4
  Lengths = {1, 2}
  MAX_QUEUED_OUTPUT = 3
  MaxLines = 4
  c1 = c1
  NoFile = NoFile
  Conns <- const_Conns
  MaxVersion = 1
  MaxRequests = 1
  MaxFaults = 2
  SilentFaults = TRUE
PROPERTIES FinishedTellsTruth
CHECK_DEADLOCK FALSE
