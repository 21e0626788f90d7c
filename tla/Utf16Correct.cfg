\* The function returns: the runs stop.
SPECIFICATION Spec
CONSTANTS
  Bytes <- Kinds
  MaxLen = 3
INVARIANT AcceptsCorrect
CHECK_DEADLOCK FALSE
