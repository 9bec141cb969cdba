SPECIFICATION Spec
CONSTANTS
  UINT32_MAX = 7
  TX_FIFO_SIZE = 2
  RX_FIFO_SIZE = 1
  PID_MAX = 1
  d1 = d1
  NoData = NoData
  PIPES <- OnePipe
  DATA = {d1}
  ZERO_CRC = d1
  CHANNELS = {c1}
  ADDRESSES = {a1}
  CONFIGS <- PtxConfigs
  WRITTEN <- AckOrNot
  HEARD <- Acks
  API <- PreemptedApi
PROPERTIES
  StartsOnlyWithPayload
CHECK_DEADLOCK FALSE
