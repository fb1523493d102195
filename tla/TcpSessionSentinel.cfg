CONSTANTS
  Half = 5
  kWindowSize = 3
  InitialSeqs = {9}
  SendSizes = {1}
  RecvSizes = {0, 1, 2}
  Windows = {0, 3}
  Scales = {0}
  Shortfalls = {}
  NicMayFail = FALSE
  PushMayFail = FALSE
  ServerISS = 8
  ServerBytes = 3
  ServerWindow = 3
  ServerBuffers = FALSE
  ServerMayClose = FALSE
  ClientBytes = 0
  RestartSeqs = {}
  MaxRestarts = 0
  MaxConnections = 1
  MaxFaults = 1
  MaxRetransmits = 0
SPECIFICATION SessionSpec
INVARIANTS NoByteSkipped
CHECK_DEADLOCK FALSE
