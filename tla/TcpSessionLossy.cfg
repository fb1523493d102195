CONSTANTS
  Half = 7
  kWindowSize = 3
  InitialSeqs = {13}
  SendSizes = {1}
  RecvSizes = {0, 1, 2}
  Windows = {0, 3}
  Scales = {0}
  Shortfalls = {}
  NicMayFail = FALSE
  PushMayFail = TRUE
  ServerISS = 1
  ServerBytes = 2
  ServerWindow = 3
  ServerBuffers = FALSE
  ServerMayClose = TRUE
  ClientBytes = 1
  RestartSeqs = {9}
  MaxRestarts = 1
  MaxConnections = 2
  MaxFaults = 2
  MaxRetransmits = 1
SPECIFICATION SessionSpec
INVARIANTS NoByteSkipped AckedBytesWereDelivered HonestAcksFit NothingBeforeHandshake AckIsOurs
CHECK_DEADLOCK FALSE
