SPECIFICATION FairSpec
CONSTANTS
  Players = {p1}
  VideoConfigs = {v1}
  AudioConfigs = {a1, a2}
  None = None
  GopCache = TRUE
  GopMaxFrames = 2
  GuessCount = 1
  QueueLength = 2
  MwMsgs = 0
  MwSleep = 1
  MaxDump = 3
  FrameTimes <- Steps
  MaxGop = 1
  MaxBack = 0
  Crowd = 1
  Stalls = 2
INVARIANTS DeliveryInv HeadersReach InStep
PROPERTIES PromptLoseNothing ClientIsHeard QueueMoves
