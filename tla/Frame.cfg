SPECIFICATION FairSpec
CONSTANTS
  d1 = d1
  DEVICES <- OneDevice
  CHANNELS = 3
  INTERVAL = 4
  OFFSET <- OneOffset
  NoIdx = NoIdx
  MAX_RESTARTS = 3
INVARIANTS
  TypeOK
  OncePerFrame
  ResendRepeats
PROPERTIES
  InStep
  HearsAgain
