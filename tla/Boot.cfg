SPECIFICATION Spec
CONSTANTS
  d1 = d1
  DEVICES <- OneDevice
  REGIONS = 1
  CANDIDATES = 2
  SAMPLES = 2
  RSSI_MAX = 1
  UINT16_MAX = 3
  MAXIMUM_DISPLAY_DEV = 4
  MAXIMUM_CONTROLLER_DEV = 1
  WORDS = 3
  MAX_CUTS = 2
INVARIANTS
  TypeOK
  BoxResumesWhole
  DeviceResumesWhole
  PairedDevicesAsked
PROPERTIES
  PickedIsBest
CHECK_DEADLOCK FALSE
