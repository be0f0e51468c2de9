CONSTANTS
  Byte = {"a", "n"}
  Newline = "n"
  Limit = 2
  DrainSize = 6
  MaxInput = 8
SPECIFICATION Spec
INVARIANT FramesExact
CHECK_DEADLOCK FALSE
