CONSTANTS
  Byte = {"a", "b", "n"}
  Newline = "n"
  Limit = 3
  DrainSize = 3
  MaxInput = 7
SPECIFICATION Spec
INVARIANT FramesExact MemoryBounded
PROPERTY ReaderEnds
CHECK_DEADLOCK FALSE
