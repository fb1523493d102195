CONSTANTS
  Script <- MCScript
  Capacity <- MCCapacity
  MaxSegment <- MCMaxSegment
  SegmentEnds <- FinishedWhole
  MaxDuplicates = 1
  MaxFlushes = 1
  SendMayFail = TRUE
SPECIFICATION FairSpec
INVARIANTS TypeOK TranscriptExact NoMessageSkipped PlainIsSent NothingLeftBehind NoFaultInOrder NoncesAreFresh
PROPERTIES WorkerComesBack
CHECK_DEADLOCK FALSE
