SPECIFICATION Spec
CONSTANTS
  QueueIds = {q1, q2, q3}
  TaskIds = {t1}
  NoTask = NoTask
  NoQueue = NoQueue
  Players <- const_Players
  Programmers <- const_Players
  Targets <- const_ConnAndPlayer
  MaxConns = 1
  Listeners = {l1}
  Lines = {"inband", "oob", "flush", "blank"}
  MaxInput = 2
  MaxUsage = 0
  TaskLimit = 2
  INPUT_HIWAT = 2
  Builtins = {"read", "read_now", "kill", "force", "flush_input", "hold", "disable_oob"}
SYMMETRY Symmetry
INVARIANTS IdleHasNothingToDo FlowControl
PROPERTIES ReadEndsByDispatch
