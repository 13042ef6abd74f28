SPECIFICATION Spec
CONSTANTS
  c1 = c1
  c2 = c2
  Conns <- OneConn
  Datagrams <- SingleDatagrams
  SyncChoices = {0, 1}
  MaxFed = 7
  K = 2
  N = 3
  RepairDeadline = 1
  MaxGroups = 2
  Singular = {}
  TsPacketSize = 2
  ReorderWindow = 1
  KeyframeRelax = 1
  EnableRelax = TRUE
  MaxBufferSize = 8
  EnableDetection = TRUE
  DefaultMode = "quic_fec"
INVARIANTS PipelineInv NothingLost OnlyRestoredOutOfTurn
