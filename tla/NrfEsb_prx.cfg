SPECIFICATION Spec
CONSTANTS
  UINT32_MAX = 7
  TX_FIFO_SIZE = 1
  RX_FIFO_SIZE = 2
  PID_MAX = 1
  d1 = d1
  NoData = NoData
  PIPES <- TwoPipes
  DATA = {d1}
  ZERO_CRC = d1
  CHANNELS = {c1, c2}
  ADDRESSES = {a1}
  CONFIGS <- PrxConfigs
  WRITTEN <- AckOnly
  HEARD <- Received
  API <- PrxApi
INVARIANTS
  RingsConsistent
  TunedAsSet
PROPERTIES
  AckedIsStored
