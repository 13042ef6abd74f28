SPECIFICATION ReorderFairSpec
CONSTANTS
  TsPacketSize = 2
  ReorderWindow = 1
  KeyframeRelax = 1
  EnableRelax = TRUE
  MaxBufferSize = 5
  SeqNums = {0, 1, 2, 3}
  Shapes <- MCShapes
  MaxPackets = 4
INVARIANTS NoStranded SizeBound Accounting
PROPERTIES InOrder ImplementsOrderedDelivery ReadyLeaves
