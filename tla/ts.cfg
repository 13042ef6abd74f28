SPECIFICATION Spec
CONSTANTS
  Codecs = {"h264", "hevc"}
  Values = {"a", "b"}
  Pictures <- MCPictures
  Sounds <- MCSounds
  MinSize = 3
  Step = 1
  Counters = 4
  Lateness = 2
  MaxGather = 3
  MaxFaults = 1
INVARIANTS  HeaderTracked NoOrphanFrame GapsNoticed CutsBounded
