SPECIFICATION Spec
CONSTANTS
  Frames <- MCFrames
  Configs <- MCConfigs
  HeaderSize = 2
  StructSize = 3
  MaxPayload = 2
  BFrameDelay = 1
  Heartbeat = 1
  MaxFaults = 2
  MaxFrames = 4
  MaxDatagram = 6
INVARIANTS Reassembled DtsMonotone
PROPERTIES ResumesAtKeyframe
