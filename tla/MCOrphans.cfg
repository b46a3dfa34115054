SPECIFICATION Spec
CONSTANTS
  QueueIds = {q1, q2, q3}
  TaskIds = {t1, t2}
  NoTask = NoTask
  NoQueue = NoQueue
  Players <- const_Players
  Programmers <- const_Owners
  Targets <- const_Targets
  MaxConns = 2
  Listeners = {l1}
  Lines = {"inband"}
  MaxInput = 1
  MaxUsage = 1
  TaskLimit = 2
  INPUT_HIWAT = 2
  Builtins = {"fork", "suspend", "read", "kill", "resume"}
SYMMETRY Symmetry
INVARIANTS IdleHasNothingToDo
