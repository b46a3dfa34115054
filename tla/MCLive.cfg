SPECIFICATION FairSpec
CONSTANTS
  QueueIds = {q1, q2}
  TaskIds = {t1}
  NoTask = NoTask
  NoQueue = NoQueue
  Players <- const_Players
  Programmers <- const_Players
  Targets <- const_Targets
  MaxConns = 2
  Listeners = {l1, l2}
  Lines = {"inband"}
  MaxInput = 1
  MaxUsage = 1
  TaskLimit = 2
  INPUT_HIWAT = 2
  Builtins = {"read", "boot"}

PROPERTIES StrandedReadersResume QueuesTakeTurns BootedConnectionsClose
