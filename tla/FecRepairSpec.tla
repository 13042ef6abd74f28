--------------------------- MODULE FecRepairSpec ---------------------------
(***************************************************************************)
(* One FecRepairManager under an unreliable network: blocks of any group   *)
(* arrive in any order, again after their group is done, with a wrong      *)
(* index, or not at all, while time passes.                                *)
(***************************************************************************)
EXTENDS FecRepair

CONSTANTS
  GroupIds,     \* group ids the sender uses
  Payloads,     \* blocks it sends
  MaxCreated,   \* bound: groups created in a behaviour
  MaxFailed     \* failed_repairs saturates here

ASSUME FecWorkloadAssumption ==
  /\ GroupIds \subseteq Nat
  /\ Payloads \subseteq {b \in Block : b.size > 0}
  /\ MaxCreated \in Nat
  /\ MaxFailed \in Nat

VARIABLES
  fm,           \* the manager
  seen,         \* block slots received for a group since it was created
  handed        \* groups the last step handed to the adapter

fecVars == <<fm, seen, handed>>

FecInit ==
  /\ fm = NewFecManager
  /\ seen = [g \in GroupIds |-> {}]
  /\ handed = {}

\* Only groups in the table have a history.
SeenNow(history) ==
  seen' = [g \in GroupIds |-> IF g \in Groups(fm') THEN history[g] ELSE {}]

FecAdd(g, parity, index, block) ==
  /\ g \in Groups(fm) \/ fm.total < MaxCreated
  /\ fm' = AddBlock(fm, g, parity, index, block)
  /\ SeenNow(IF Refused(fm, g) THEN seen
             ELSE [seen EXCEPT ![g] = @ \cup
                     ({SlotOf(parity, index)}
                        \cap (IF parity THEN ParityIndices ELSE DataIndices))])
  /\ handed' = {}

Check ==
  /\ fm' = CheckAndRepair(fm,
             IF fm.failed + FailedNow(fm) > MaxFailed
               THEN MaxFailed ELSE fm.failed + FailedNow(fm))
  /\ SeenNow(seen)
  /\ handed' = Repaired(fm)

Cleanup ==
  /\ fm' = CleanupExpired(fm)
  /\ SeenNow(seen)
  /\ handed' = {}

FecTick ==
  /\ fm' = AgeGroups(fm)
  /\ SeenNow(seen)
  /\ handed' = {}

FecNext ==
  \/ \E g \in GroupIds, block \in Payloads :
       \/ \E index \in 0 .. K : FecAdd(g, FALSE, index, block)
       \/ \E index \in 0 .. (N - K) : FecAdd(g, TRUE, index, block)
  \/ Check
  \/ Cleanup
  \/ FecTick

FecSpec == FecInit /\ [][FecNext]_fecVars

\* Every datagram ends in a check, and time passes.
FecFairSpec == FecSpec /\ WF_fecVars(Check) /\ WF_fecVars(FecTick)

-----------------------------------------------------------------------------
\* The members have the types fec_group_buffer.hpp declares (lines 160-164).
FecTypeOK ==
  /\ IsFecManager(fm)
  /\ seen \in [GroupIds -> SUBSET (0 .. (N - 1))]
  /\ handed \subseteq GroupIds

\* max_groups_ is never exceeded, although a group is created before the block
\* that asked for it is looked at (create_group_if_needed).
GroupBound == Cardinality(Groups(fm)) <= MaxGroups

\* Every group ever created is still in the table or in exactly one of
\* complete_groups, repaired_groups and expired_groups, eviction included.
GroupAccounting ==
  fm.total = Cardinality(Groups(fm)) + fm.complete + fm.repaired + fm.expired

\* A group holds exactly the blocks received for it since it was created: no
\* block is lost, and none with an index outside its range is let in.
BlocksAreSeen == \A g \in Groups(fm) : DOMAIN fm.groups[g].blocks = seen[g]

\* check_and_repair hands out a group only when at least k of its n blocks
\* have arrived since it was created.
DeliveryBacked == [][\A g \in handed' : Cardinality(seen[g]) >= K]_fecVars

\* A group leaves the table undelivered only past repair_deadline_ms: neither
\* eviction nor clean-up costs a group that could still be repaired.
NoLiveGroupLost ==
  [][\A g \in Groups(fm) \ Groups(fm') :
       g \in handed' \/ GroupExpired(fm.groups[g])]_fecVars

\* Every group leaves the table, delivered or expired: a group that can never
\* be repaired, or whose repair keeps failing, does not hold its slot for ever.
GroupsLeave == \A g \in GroupIds : g \in Groups(fm) ~> g \notin Groups(fm)

\* The state of the manager between any two calls: its types, the limit of the
\* table, every group accounted for, and in each group exactly the blocks that
\* arrived for it (add_block, create_group_if_needed).
FecInv == FecTypeOK /\ GroupBound /\ GroupAccounting /\ BlocksAreSeen
=============================================================================
