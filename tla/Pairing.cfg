SPECIFICATION FairSpec
CONSTANTS
  d1 = d1
  d2 = d2
  c1 = c1
  DEVICES <- Devices
  CONTROLLERS <- Controllers
  CHANNELS = 2
  MAXIMUM_DISPLAY_DEV = 2
  MAXIMUM_CONTROLLER_DEV = 1
  TRIES = 2
  NoIdx = NoIdx
  FAULTS = {"ack_lost", "power_off", "preempted", "clipped"}
INVARIANTS
  TypeOK
  UniqueIndex
  IndexCounted
  IndexFitsType
  RefusedOnlyIfFull
PROPERTIES
  RequestAcknowledged
CHECK_DEADLOCK FALSE
