SPECIFICATION FairSpec
CONSTANTS
  c1 = c1
  c2 = c2
  c3 = c3
  Conns <- ThreeConns
  AdapterTimeout = 1
  CleanupEvery = 2
  InitOutcomes = {TRUE, FALSE}
  PacketOutcomes = {TRUE, FALSE}
  MaxCreated = 4
INVARIANTS NoDanglingSession TablesAgree ActiveLeak
PROPERTIES IdleReclaimed
