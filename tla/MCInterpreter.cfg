SPECIFICATION Spec
CONSTANTS
  MAXINT = 511
  INT_MAX = 511
  NUM_READY_VARS = 8
  OneByte = 16
  OP_PUSH_TEMP = 106
  max_stack_depth = 4
  Slots = {0, 1, 2, 3, 4, 5, 6, 7, 8, 9}
  Texts <- const_Texts
  ObjectCodes <- const_ObjectCodes
  RereadCodes <- const_RereadCodes
  MisreadPrograms <- const_MisreadPrograms
  MisplacedLines <- const_MisplacedLines
  Parsed <- const_Parsed
  Unflagged <- const_Unflagged
  Parent <- const_Parent
  Verb <- const_Verb
  Handler <- const_Handler
  Readable <- const_Readable
  Writable <- const_Writable
  Protected <- const_Protected
  Mains <- const_Mains
INVARIANTS RunsAsWritten WithinStack RoundTrip LinesRight
