CONSTANTS
  Half = 64
  kWindowSize = 3
  InitialSeqs = {127}
  SendSizes = {1}
  RecvSizes = {0, 1, 2, 3, 4, 5, 6, 7, 8, 9, 10}
  Windows = {0, 1, 2, 3}
  Scales = {0}
  Shortfalls = {}
  NicMayFail = TRUE
  PushMayFail = FALSE
  ServerISS = 7
  ServerBytes = 34
  ServerWindow = 3
  ServerBuffers = TRUE
  ServerMayClose = TRUE
  ClientBytes = 3
  RestartSeqs = {}
  MaxRestarts = 0
  MaxConnections = 1
  MaxFaults = 0
  MaxRetransmits = 1
  Script <- MCScript
  SegmentEnds <- Cuts
  TlsCapacity = 18
  Response = 2
  Frames <- MCFrames
  WsCapacity = 8
  MaxInFlight = 2
SPECIFICATION FairGatewaySpec
INVARIANTS CleanSession PromptDelivery
PROPERTIES TlsServed WsServed Served
CHECK_DEADLOCK FALSE
