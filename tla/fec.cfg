SPECIFICATION FecFairSpec
CONSTANTS
  K = 2
  N = 3
  RepairDeadline = 1
  MaxGroups = 2
  Singular = {}
  GroupIds = {0, 1, 2}
  Payloads <- MCPayloads
  MaxCreated = 3
  MaxFailed = 0
INVARIANTS FecInv
PROPERTIES DeliveryBacked NoLiveGroupLost GroupsLeave
