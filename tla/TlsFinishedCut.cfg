CONSTANTS
  Script <- MCScript
  Capacity <- MCCapacity
  MaxSegment <- MCMaxSegment
  SegmentEnds <- AnyEnd
  MaxDuplicates = 0
  MaxFlushes = 1
  SendMayFail = FALSE
SPECIFICATION FairSpec
PROPERTIES WorkerComesBack
CHECK_DEADLOCK FALSE
