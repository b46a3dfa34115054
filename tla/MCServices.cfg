SPECIFICATION MCSpec
CONSTANTS
  Parts = {"lookup", "timers", "input", "output", "checkpoint"}
  MaxLookups = 3
  MaxLookupFaults = 2
  MaxTime = 3
  MaxTimers = 3
  MaxSeconds = 2
  Second = 2
  Bytes <- const_Bytes
  MaxBytes = 4
  Lengths = {0, 2, 4}
  MAX_QUEUED_OUTPUT = 3
  MaxLines = 4
  c1 = c1
  NoFile = NoFile
  Conns <- const_Conns
  MaxVersion = 1
  MaxRequests = 2
  MaxFaults = 2
  SilentFaults = FALSE
INVARIANTS AnswersMatch Armed InputFaithful OutputAccounted Durable OnlineIsConnected
PROPERTIES LookupReturns FinishedTellsTruth DumpsGoOn
CHECK_DEADLOCK FALSE
