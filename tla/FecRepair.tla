----------------------------- MODULE FecRepair -----------------------------
(***************************************************************************)
(* FEC groups and their manager (classes FecGroupBuffer and                *)
(* FecRepairManager, components/fec/fec_group_buffer.cpp) as operators on  *)
(* a record.  A block is its index in the group, its size, its keyframe    *)
(* flag and the offset of the first TS sync byte in it; indices below K    *)
(* are data blocks, the others parity.  Of the arithmetic of repair only   *)
(* its success matters: Singular names the systems whose elimination       *)
(* fails, and the bytes of a restored block are arbitrary.  A group's      *)
(* create_time_ms_ is kept as an age that saturates one past the deadline. *)
(***************************************************************************)
EXTENDS Integers, Sequences, FiniteSets, FiniteSetsExt, Functions

CONSTANTS
  K, N,               \* FecGroupConfig.k and .n
  RepairDeadline,     \* repair_deadline_ms
  MaxGroups,          \* max_groups_
  Singular            \* <<rows, missing>> index sets elimination cannot solve

ASSUME FecConfigAssumption ==
  /\ K \in Nat \ {0}
  /\ N \in Nat /\ N >= K
  /\ RepairDeadline \in Nat
  /\ MaxGroups \in Nat \ {0}

MaxGroupAge == RepairDeadline + 1

\* FecBlock
Block == [size : Nat, sync : Nat, key : BOOLEAN]

DataIndices == 0 .. (K - 1)
ParityIndices == K .. (N - 1)

\* The members of a manager: groups_ maps an id to a group, which maps block
\* indices to blocks; the rest is stats_.
IsFecManager(fm) ==
  /\ fm \in [groups : {fm.groups}, total : Nat, complete : Nat, repaired : Nat,
             expired : Nat, failed : Nat]
  /\ DOMAIN fm.groups \subseteq Nat
  /\ IsFiniteSet(DOMAIN fm.groups)
  /\ \A g \in DOMAIN fm.groups :
       /\ fm.groups[g] \in [age : 0 .. MaxGroupAge, blocks : {fm.groups[g].blocks}]
       /\ DOMAIN fm.groups[g].blocks \subseteq 0 .. (N - 1)
       /\ fm.groups[g].blocks \in [DOMAIN fm.groups[g].blocks -> Block]

NewFecManager ==
  [groups |-> [g \in {} |-> 0], total |-> 0, complete |-> 0, repaired |-> 0,
   expired |-> 0, failed |-> 0]

Groups(fm) == DOMAIN fm.groups

NewGroup == [age |-> 0, blocks |-> [i \in {} |-> 0]]

-----------------------------------------------------------------------------
(* One group *)

\* is_expired
GroupExpired(group) == group.age > RepairDeadline

DataBlocks(group) == DOMAIN group.blocks \cap DataIndices
ParityBlocks(group) == DOMAIN group.blocks \cap ParityIndices

\* get_missing_blocks
Missing(group) == DataIndices \ DOMAIN group.blocks

IsComplete(group) == Cardinality(DataBlocks(group)) >= K

CanRepair(group) ==
  IsComplete(group) \/ Cardinality(DOMAIN group.blocks) >= K

SameSize(group) ==
  \A i, j \in DOMAIN group.blocks : group.blocks[i].size = group.blocks[j].size

\* The data indices build_vandermonde_matrix takes as rows: the lowest
\* |missing| received ones.
Rows(group) ==
  {i \in DataBlocks(group) :
     Cardinality({j \in DataBlocks(group) : j < i}) < Cardinality(Missing(group))}

\* repair_rs succeeds
RsRepairs(group) ==
  /\ Cardinality(Missing(group)) <= Cardinality(ParityBlocks(group))
  /\ SameSize(group)
  /\ Cardinality(DataBlocks(group)) >= Cardinality(Missing(group))
  /\ <<Rows(group), Missing(group)>> \notin Singular

\* repair_xor succeeds
XorRepairs(group) ==
  /\ SameSize(group)
  /\ ParityBlocks(group) # {}
  /\ Cardinality(DataBlocks(group)) = K - 1

\* repair returns success
Repairs(group) ==
  \/ IsComplete(group)
  \/ RsRepairs(group)
  \/ Cardinality(Missing(group)) = 1 /\ XorRepairs(group)

\* The order repair returns the blocks in: a complete group by index, else the
\* restored blocks before the received ones.
Ascending(S) ==
  [p \in 1 .. Cardinality(S) |->
     CHOOSE i \in S : Cardinality({j \in S : j < i}) = p - 1]

\* Mutated form: the received blocks come first.
RepairOrder_ReceivedFirst(group) ==
  IF IsComplete(group)
    THEN Ascending(DataBlocks(group))
    ELSE Ascending(DataBlocks(group)) \o Ascending(Missing(group))

RepairOrder(group) ==
  IF IsComplete(group)
    THEN Ascending(DataBlocks(group))
    ELSE Ascending(Missing(group)) \o Ascending(DataBlocks(group))

\* A block repair returns: a received one as it is; a restored one has the size
\* of the others and counts as keyframe when any received data block does; its
\* first sync byte is wherever the arithmetic puts it, sync[i].
BlockOut(group, i, sync) ==
  IF i \in DOMAIN group.blocks
    THEN group.blocks[i]
    ELSE [size |-> group.blocks[CHOOSE j \in DOMAIN group.blocks : TRUE].size,
          sync |-> sync[i],
          key |-> \E j \in DataBlocks(group) : group.blocks[j].key]

\* add_block of a group.  The index is checked against the data or the parity
\* range, and parity indices follow the data indices.
\* Mutated form: the first index past the data blocks is let in.
InRange_OffByOne(parity, index) ==
  IF parity THEN index < N - K ELSE index <= K

InRange(parity, index) == IF parity THEN index < N - K ELSE index < K

SlotOf(parity, index) == IF parity THEN K + index ELSE index

WithBlock(group, slot, block) ==
  IF slot \in DOMAIN group.blocks
    THEN group
    ELSE [group EXCEPT !.blocks =
            [i \in DOMAIN group.blocks \cup {slot} |->
               IF i = slot THEN block ELSE group.blocks[i]]]

-----------------------------------------------------------------------------
(* The manager *)

ExpiredGroups(fm) == {g \in Groups(fm) : GroupExpired(fm.groups[g])}

\* create_group_if_needed: with the table full, the first expired group in id
\* order makes room - unless its id is 0, the "none" value of the search.
\* Mutated form: the first group is taken whether it is expired or not.
Victim_AnyGroup(fm) == Min(Groups(fm))

Victim(fm) == IF ExpiredGroups(fm) = {} THEN 0 ELSE Min(ExpiredGroups(fm))

HasRoom(fm) == Cardinality(Groups(fm)) < MaxGroups

Refused(fm, g) == g \notin Groups(fm) /\ ~HasRoom(fm) /\ Victim(fm) = 0

PutGroup(groups, g, group) ==
  [h \in DOMAIN groups \cup {g} |-> IF h = g THEN group ELSE groups[h]]

\* Mutated form: eviction is not counted.
Evict_NotCounted(fm, v) ==
  [fm EXCEPT !.groups = Restrict(fm.groups, Groups(fm) \ {v})]

Evict(fm, v) ==
  [fm EXCEPT !.groups = Restrict(fm.groups, Groups(fm) \ {v}),
             !.expired = fm.expired + 1]

Create(fm, g) ==
  [fm EXCEPT !.groups = PutGroup(fm.groups, g, NewGroup),
             !.total = fm.total + 1]

EnsureGroup(fm, g) ==
  IF g \in Groups(fm) \/ Refused(fm, g) THEN fm
  ELSE IF HasRoom(fm) THEN Create(fm, g)
  ELSE Create(Evict(fm, Victim(fm)), g)

\* add_block: a block with a bad index leaves the (possibly new) group behind.
AddBlock(fm, g, parity, index, block) ==
  LET ready == EnsureGroup(fm, g) IN
  IF Refused(fm, g) \/ ~InRange(parity, index)
    THEN ready
    ELSE [ready EXCEPT !.groups = PutGroup(ready.groups, g,
            WithBlock(ready.groups[g], SlotOf(parity, index), block))]

\* check_and_repair and check_and_repair_with_metadata: expired groups go
\* first, then what can be repaired; a group whose repair fails stays.
Ready(fm) == {g \in Groups(fm) \ ExpiredGroups(fm) : CanRepair(fm.groups[g])}
Repaired(fm) == {g \in Ready(fm) : Repairs(fm.groups[g])}

\* Mutated form: expired groups stay when nothing of them can be repaired.
CheckAndRepair_KeepsExpired(fm, failed) ==
  [fm EXCEPT
     !.groups = Restrict(fm.groups, Groups(fm) \ Repaired(fm)),
     !.complete = fm.complete
       + Cardinality({g \in Repaired(fm) : IsComplete(fm.groups[g])}),
     !.repaired = fm.repaired
       + Cardinality({g \in Repaired(fm) : ~IsComplete(fm.groups[g])}),
     !.failed = failed]

CheckAndRepair(fm, failed) ==
  [fm EXCEPT
     !.groups = Restrict(fm.groups, Groups(fm) \ (ExpiredGroups(fm) \cup Repaired(fm))),
     !.expired = fm.expired + Cardinality(ExpiredGroups(fm)),
     !.complete = fm.complete
       + Cardinality({g \in Repaired(fm) : IsComplete(fm.groups[g])}),
     !.repaired = fm.repaired
       + Cardinality({g \in Repaired(fm) : ~IsComplete(fm.groups[g])}),
     !.failed = failed]

FailedNow(fm) == Cardinality(Ready(fm) \ Repaired(fm))

\* cleanup_expired
CleanupExpired(fm) ==
  [fm EXCEPT !.groups = Restrict(fm.groups, Groups(fm) \ ExpiredGroups(fm)),
             !.expired = fm.expired + Cardinality(ExpiredGroups(fm))]

\* Indices of the blocks it restores.
RestoredIndices(fm) == UNION {Missing(fm.groups[g]) : g \in Repaired(fm)}

\* The blocks check_and_repair returns, as <<group, index>>: group by group in
\* id order.
Restored(fm) ==
  LET ids == Ascending(Repaired(fm))
      flat[p \in 0 .. Len(ids)] ==
        IF p = 0 THEN << >>
        ELSE flat[p - 1] \o [q \in 1 .. K |->
               <<ids[p], RepairOrder(fm.groups[ids[p]])[q]>>]
  IN  flat[Len(ids)]

\* One unit of time passes.
OlderGroup(group) ==
  [group EXCEPT !.age = IF group.age < MaxGroupAge THEN group.age + 1 ELSE MaxGroupAge]

AgeGroups(fm) ==
  [fm EXCEPT !.groups = [g \in Groups(fm) |-> OlderGroup(fm.groups[g])]]
=============================================================================
