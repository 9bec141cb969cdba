SPECIFICATION Spec
CONSTANTS
  d1 = d1
  d2 = d2
  c1 = c1
  DEVICES <- Devices
  CONTROLLERS <- Controllers
  CHANNELS = 2
  MAXIMUM_DISPLAY_DEV = 2
  MAXIMUM_CONTROLLER_DEV = 1
  TRIES = 2
  NoIdx = NoIdx
  FAULTS = {"ack_lost"}
INVARIANTS
  DifferentAddresses
CHECK_DEADLOCK FALSE
