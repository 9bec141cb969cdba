SPECIFICATION FairSpec
CONSTANTS
  UINT32_MAX = 7
  TX_FIFO_SIZE = 1
  RX_FIFO_SIZE = 1
  PID_MAX = 0
  d1 = d1
  NoData = NoData
  PIPES <- OnePipe
  DATA = {d1}
  ZERO_CRC = d1
  CHANNELS = {c1}
  ADDRESSES = {a1, a2}
  CONFIGS <- LiveConfigs
  WRITTEN <- AckOnly
  HEARD <- EmptyAck
  API <- LiveApi
PROPERTIES
  TransmissionEnds
  FlagsBecomeEvents
