CONSTANTS
  Response = 2
  Frames <- PingBetween
  Capacity <- TightCapacity
  MaxPlain <- MCMaxPlain
  SendMayFail = FALSE
SPECIFICATION Spec
INVARIANTS NoPayloadWaits
CHECK_DEADLOCK FALSE
