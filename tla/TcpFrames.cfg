CONSTANTS
  Half = 3
  kWindowSize = 2
  InitialSeqs = {4}
  SendSizes = {1, 2}
  RecvSizes = {0, 1}
  Windows = {0, 1}
  Scales = {0, 1}
  Shortfalls = {1, 3}
  NicMayFail = TRUE
  PushMayFail = TRUE
  SizeT = 1048576
  Bytes <- MCBytes
  Room = 2048
  MaxOptions = 3
SPECIFICATION FramesSpec
INVARIANTS TypeOK SendAccounting FramesRoundTrip ScaleAsAnnounced
PROPERTIES AckNeverRegresses
CHECK_DEADLOCK FALSE
