SPECIFICATION Spec
CONSTANTS
  QueueIds = {q1, q2, q3}
  TaskIds = {t1}
  NoTask = NoTask
  NoQueue = NoQueue
  Players <- const_Players
  Programmers <- const_Owners
  Targets <- const_Targets
  MaxConns = 2
  Listeners = {l1, l2}
  Lines = {"inband"}
  MaxInput = 1
  MaxUsage = 0
  TaskLimit = 2
  INPUT_HIWAT = 2
  Builtins = {"fork", "read", "boot", "open", "recycle"}
SYMMETRY Symmetry
INVARIANTS TypeOK NoPanic BgAccounting BgTasksWithTheirOwner ReadersSurvive ConnectedIffHandle
