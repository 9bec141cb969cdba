SPECIFICATION MCSpec
CONSTANTS
  UINT32_MAX = 7
  TX_FIFO_SIZE = 2
  RX_FIFO_SIZE = 1
  PID_MAX = 1
  NoData = NoData
  d1 = d1
  d2 = d2
  DATA <- Contents
  ZERO_CRC = NoData
  SENDER <- Sender
  RECEIVER <- Receiver
  MAX_WRITES = 4
  MAX_ANSWERS = 2
INVARIANTS
  TypeOK
  AnswersArrive
PROPERTIES
  ImplementsChannel
CHECK_DEADLOCK FALSE
