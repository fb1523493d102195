SPECIFICATION FairSpec
CONSTANTS
  m1 = m1
  m2 = m2
  m3 = m3
  Mbufs <- ThreeMbufs
  kReceiveBurstSize = 2
  kSendBurstSize = 1
  MaxTxPackets = 2
  MaxRestarts = 1
INVARIANTS TypeOK OneOwner LeakPerStart
PROPERTY FramesArrive
CHECK_DEADLOCK FALSE
