SPECIFICATION FairSpec
CONSTANTS
  Frames <- MCFrames
  Configs <- OneConfig
  HeaderSize = 2
  StructSize = 3
  MaxPayload = 2
  BFrameDelay = 1
  Heartbeat = 1
  MaxFaults = 1
  MaxFrames = 1
  MaxDatagram = 6
PROPERTIES FeedReturns
