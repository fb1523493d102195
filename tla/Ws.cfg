CONSTANTS
  Response = 2
  Frames <- AllFrames
  Capacity <- TightCapacity
  MaxPlain <- MCMaxPlain
  SendMayFail = TRUE
SPECIFICATION Spec
INVARIANTS TypeOK MessagesAsSent NoPayloadWaits NoFaultInStep
CHECK_DEADLOCK FALSE
