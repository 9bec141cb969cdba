SPECIFICATION Spec
CONSTANTS
  UINT32_MAX = 7
  TX_FIFO_SIZE = 2
  RX_FIFO_SIZE = 2
  PID_MAX = 1
  d1 = d1
  NoData = NoData
  PIPES <- OnePipe
  DATA = {d1}
  ZERO_CRC = d1
  CHANNELS = {c1}
  ADDRESSES = {a1}
  CONFIGS <- PrxConfigs
  WRITTEN <- AckOnly
  HEARD <- TwoPids
  API <- AckPayloadApi
PROPERTIES
  SuccessOnlyIfSent
CHECK_DEADLOCK FALSE
