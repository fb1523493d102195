CONSTANTS
  Script <- MCScript
  Capacity <- MCCapacity
  MaxSegment <- MCMaxSegment
  SegmentEnds <- AnyEnd
  MaxDuplicates = 1
  MaxFlushes = 1
  SendMayFail = FALSE
SPECIFICATION Spec
INVARIANTS RightProtocol
CHECK_DEADLOCK FALSE
