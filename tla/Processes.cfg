CONSTANTS
  NumPorts = 2
  MultiQueue = {1, 2}
  SmallReta = {1}
  GatewayPort = 2
  MaxStarts = 2
  MaxSignals = 2
SPECIFICATION FairSpec
INVARIANTS NoLateExit  GatewayOnLivePort
PROPERTIES StopEnds InitResolves
CHECK_DEADLOCK FALSE
