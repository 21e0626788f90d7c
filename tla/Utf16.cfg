\* The function returns: the runs stop.
SPECIFICATION Spec
CONSTANTS
  Bytes <- Kinds
  MaxLen = 3
INVARIANTS StaysInBounds NoSurrogates AsciiUnchanged
CHECK_DEADLOCK FALSE
