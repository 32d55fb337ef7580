SPECIFICATION FairSpec
CONSTANTS
  MAX_NAME = 2
  MAX_PLATFORM = 1
  MAX_PAYLOAD = 3
  MAX_AGE = 4
  MAX_AHEAD = 3
  SECOND = 2
  Radix = 2
  MAX_LEN = 13
  Shapes <- MCShapes
  Offsets <- MCOffsets
  MaxFrames = 2
  FirstClock = 6
  LastClock = 8
INVARIANTS
  InStep
  ClosedForCause
  VerdictExplained
PROPERTIES
  EveryFrameJudged
