-------------------------- MODULE FecReorderProofs --------------------------
(***************************************************************************)
(* Proofs about the two components of the QUIC+FEC TS adapter, each under  *)
(* its own specification: the FEC manager (FecRepairSpec) and the reorder  *)
(* buffer (ReorderBufferSpec), for every configuration, workload and       *)
(* bound.  The lemmas say what each operation does to a well-typed manager *)
(* or buffer, so they can be cited where one is a part of a larger state   *)
(* (QuicFecTsProofs); the theorems combine them into invariants of the two *)
(* specifications.                                                         *)
(***************************************************************************)
EXTENDS FecRepairSpec, ReorderBufferSpec, FiniteSetTheorems, WellFoundedInduction, TLAPS

\* Every non-empty set of numbers has a least element.
LEMMA LeastElement ==
  ASSUME NEW T \in SUBSET Nat, T # {}
  PROVE  \E x \in T : \A y \in T : x <= y
<1> DEFINE R == OpToRel(<, Nat)
<1>0. IsWellFoundedOn(R, Nat)
  BY NatLessThanWellFounded
<1>1. PICK x \in T : \A y \in T : ~ (<<y, x>> \in R)
  <2> HIDE DEF R
  <2> QED BY <1>0, WFMin
<1>2. R = {ss \in Nat \X Nat : ss[1] < ss[2]}
  BY DEF OpToRel
<1> HIDE DEF R
<1>3. ASSUME NEW y \in T, y < x PROVE FALSE
  <2>1. <<y, x>> \in {ss \in Nat \X Nat : ss[1] < ss[2]}
    BY <1>3
  <2> QED BY <2>1, <1>1, <1>2
<1> QED BY <1>3

-----------------------------------------------------------------------------
(* THE FEC MANAGER: a well-typed manager, field by field *)

IsGroup(x) ==
  /\ x \in [age : 0 .. MaxGroupAge, blocks : {x.blocks}]
  /\ DOMAIN x.blocks \subseteq 0 .. (N - 1)
  /\ x.blocks \in [DOMAIN x.blocks -> Block]

IsTable(groups) ==
  /\ DOMAIN groups \subseteq Nat
  /\ IsFiniteSet(DOMAIN groups)
  /\ \A g \in DOMAIN groups : IsGroup(groups[g])

LEMMA ManagerFields ==
  ASSUME NEW m, IsFecManager(m)
  PROVE  /\ m \in [groups : {m.groups}, total : Nat, complete : Nat, repaired : Nat,
                    expired : Nat, failed : Nat]
         /\ IsTable(m.groups)
         /\ m.total \in Nat /\ m.complete \in Nat /\ m.repaired \in Nat
         /\ m.expired \in Nat /\ m.failed \in Nat
         /\ Groups(m) \subseteq Nat /\ IsFiniteSet(Groups(m))
         /\ Cardinality(Groups(m)) \in Nat
<1>1. IsFiniteSet(Groups(m))
  BY DEF IsFecManager, Groups
<1>2. Cardinality(Groups(m)) \in Nat
  BY <1>1, FS_CardinalityType
<1> QED BY <1>1, <1>2 DEF IsFecManager, IsTable, IsGroup, Groups

\* What an update of the manager's members gives, for each update the code makes.
SetGroups(m, x) == [m EXCEPT !.groups = x]
SetTotal(m, x, t) == [m EXCEPT !.groups = x, !.total = t]
SetExpired(m, x, t) == [m EXCEPT !.groups = x, !.expired = t]
SetRepaired(m, x, t, c, r, f) ==
  [m EXCEPT !.groups = x, !.expired = t, !.complete = c, !.repaired = r, !.failed = f]

LEMMA ManagerIs ==
  ASSUME NEW m, IsTable(m.groups),
         m \in [groups : {m.groups}, total : Nat, complete : Nat, repaired : Nat,
                expired : Nat, failed : Nat]
  PROVE  IsFecManager(m)
BY DEF IsTable, IsGroup, IsFecManager

LEMMA GroupsUpdate ==
  ASSUME NEW m, IsFecManager(m), NEW x, IsTable(x), NEW e,
         e = SetGroups(m, x)
  PROVE  /\ IsFecManager(e) /\ e.groups = x /\ Groups(e) = DOMAIN x
         /\ e.total = m.total /\ e.complete = m.complete /\ e.repaired = m.repaired
         /\ e.expired = m.expired
<1>1. m \in [groups : {m.groups}, total : Nat, complete : Nat, repaired : Nat,
                expired : Nat, failed : Nat]
  BY ManagerFields
<1>2. /\ e.groups = x /\ e.total = m.total /\ e.complete = m.complete
      /\ e.repaired = m.repaired /\ e.expired = m.expired
  BY <1>1 DEF SetGroups
<1>3. e \in [groups : {x}, total : Nat, complete : Nat, repaired : Nat,
                expired : Nat, failed : Nat]
  BY <1>1 DEF SetGroups
<1>4. IsFecManager(e)
  BY <1>2, <1>3, ManagerIs
<1> QED BY <1>2, <1>4 DEF Groups

\* e is m with table x and t groups created so far.
IsWithTotal(e, m, x, t) ==
  /\ IsFecManager(e) /\ e.groups = x /\ Groups(e) = DOMAIN x
  /\ e.total = t /\ e.complete = m.complete /\ e.repaired = m.repaired
  /\ e.expired = m.expired

LEMMA TotalUpdate ==
  ASSUME NEW m, NEW x, NEW t, NEW e,
         IsFecManager(m), IsTable(x), t \in Nat, e = SetTotal(m, x, t)
  PROVE  IsWithTotal(e, m, x, t)
<1>1. m \in [groups : {m.groups}, total : Nat, complete : Nat, repaired : Nat,
                expired : Nat, failed : Nat]
  BY ManagerFields
<1>2. /\ e.groups = x /\ e.total = t /\ e.complete = m.complete
      /\ e.repaired = m.repaired /\ e.expired = m.expired
  BY <1>1 DEF SetTotal
<1>3. e \in [groups : {x}, total : Nat, complete : Nat, repaired : Nat,
                expired : Nat, failed : Nat]
  BY <1>1 DEF SetTotal
<1>4. IsFecManager(e)
  BY <1>2, <1>3, ManagerIs
<1> QED BY <1>2, <1>4 DEF Groups, IsWithTotal

LEMMA ExpiredUpdate ==
  ASSUME NEW m, IsFecManager(m), NEW x, IsTable(x), NEW t \in Nat, NEW e,
         e = SetExpired(m, x, t)
  PROVE  /\ IsFecManager(e) /\ e.groups = x /\ Groups(e) = DOMAIN x
         /\ e.total = m.total /\ e.complete = m.complete /\ e.repaired = m.repaired
         /\ e.expired = t
<1>1. m \in [groups : {m.groups}, total : Nat, complete : Nat, repaired : Nat,
                expired : Nat, failed : Nat]
  BY ManagerFields
<1>2. /\ e.groups = x /\ e.total = m.total /\ e.complete = m.complete
      /\ e.repaired = m.repaired /\ e.expired = t
  BY <1>1 DEF SetExpired
<1>3. e \in [groups : {x}, total : Nat, complete : Nat, repaired : Nat,
                expired : Nat, failed : Nat]
  BY <1>1 DEF SetExpired
<1>4. IsFecManager(e)
  BY <1>2, <1>3, ManagerIs
<1> QED BY <1>2, <1>4 DEF Groups

LEMMA RepairUpdate ==
  ASSUME NEW m, NEW x, NEW t, NEW c, NEW r, NEW f, NEW e,
         IsFecManager(m), IsTable(x), t \in Nat, c \in Nat, r \in Nat, f \in Nat,
         e = SetRepaired(m, x, t, c, r, f)
  PROVE  /\ IsFecManager(e) /\ e.groups = x /\ Groups(e) = DOMAIN x
         /\ e.total = m.total /\ e.complete = c /\ e.repaired = r
         /\ e.expired = t
<1>1. m \in [groups : {m.groups}, total : Nat, complete : Nat, repaired : Nat,
                expired : Nat, failed : Nat]
  BY ManagerFields
<1>2. /\ e.groups = x /\ e.total = m.total /\ e.complete = c
      /\ e.repaired = r /\ e.expired = t
  BY <1>1 DEF SetRepaired
<1>3. e \in [groups : {x}, total : Nat, complete : Nat, repaired : Nat,
                expired : Nat, failed : Nat]
  BY <1>1 DEF SetRepaired
<1>4. IsFecManager(e)
  BY <1>2, <1>3, ManagerIs
<1> QED BY <1>2, <1>4 DEF Groups

\* A table without some of its groups, and with one put in.
LEMMA SmallerTable ==
  ASSUME NEW groups, IsTable(groups), NEW S \in SUBSET DOMAIN groups
  PROVE  /\ IsTable(Restrict(groups, S))
         /\ DOMAIN Restrict(groups, S) = S
         /\ \A g \in S : Restrict(groups, S)[g] = groups[g]
<1>1. IsFiniteSet(S)
  BY FS_Subset DEF IsTable
<1> QED BY <1>1 DEF IsTable, Restrict

LEMMA TableWith ==
  ASSUME NEW groups, IsTable(groups), NEW g \in Nat, NEW x, IsGroup(x)
  PROVE  /\ IsTable(PutGroup(groups, g, x))
         /\ \A h : h \in DOMAIN PutGroup(groups, g, x) <=> h \in DOMAIN groups \/ h = g
         /\ PutGroup(groups, g, x)[g] = x
         /\ \A h \in DOMAIN groups \ {g} : PutGroup(groups, g, x)[h] = groups[h]
<1>1. IsFiniteSet(DOMAIN groups \cup {g})
  BY FS_AddElement DEF IsTable
<1>2. \A h \in DOMAIN groups \cup {g} :
        PutGroup(groups, g, x)[h] = IF h = g THEN x ELSE groups[h]
  BY DEF PutGroup
<1>3. DOMAIN PutGroup(groups, g, x) = DOMAIN groups \cup {g}
  BY DEF PutGroup
<1> QED BY <1>1, <1>2, <1>3 DEF IsTable

LEMMA NewGroupType == IsGroup(NewGroup) /\ DOMAIN NewGroup.blocks = {}
<1>1. /\ NewGroup.age = 0 /\ NewGroup.blocks = [i \in {} |-> 0]
      /\ DOMAIN NewGroup.blocks = {}
      /\ NewGroup = [age |-> 0, blocks |-> NewGroup.blocks]
  BY DEF NewGroup
<1>2. NewGroup.blocks \in [{} -> Block]
  BY <1>1
<1>3. 0 \in 0 .. MaxGroupAge
  BY FecConfigAssumption DEF MaxGroupAge
<1> QED BY <1>1, <1>2, <1>3 DEF IsGroup

-----------------------------------------------------------------------------
(* The operations of the manager *)

\* Every group of a manager is in its table or counted once as gone.
Balanced(m) ==
  m.total = Cardinality(Groups(m)) + m.complete + m.repaired + m.expired

\* m2 has the groups of m1 except those that went, all of them expired, and g.
Succeeds(m1, m2, g) ==
  /\ \A h \in Groups(m2) \ {g} : h \in Groups(m1) /\ m2.groups[h] = m1.groups[h]
  /\ \A h \in Groups(m1) \ Groups(m2) : GroupExpired(m1.groups[h])

LEMMA CreateResult ==
  ASSUME NEW m, IsFecManager(m), NEW g \in Nat, g \notin Groups(m), NEW e,
         e = Create(m, g)
  PROVE  /\ IsFecManager(e)
         /\ \A h : h \in Groups(e) <=> h \in Groups(m) \/ h = g
         /\ Cardinality(Groups(e)) = Cardinality(Groups(m)) + 1
         /\ Balanced(m) => Balanced(e)
         /\ \A h \in Groups(m) : e.groups[h] = m.groups[h]
         /\ e.groups[g] = NewGroup
<1> IsTable(m.groups) /\ IsGroup(NewGroup) 
  BY ManagerFields, NewGroupType
<1>1. /\ m.total + 1 \in Nat
      /\ m.total \in Nat /\ m.complete \in Nat /\ m.repaired \in Nat /\ m.expired \in Nat
      /\ Cardinality(Groups(m)) \in Nat
  BY ManagerFields
<1>2. PICK new : new = PutGroup(m.groups, g, NewGroup)
  OBVIOUS
<1>3. /\ IsTable(new) /\ new[g] = NewGroup
      /\ \A h : h \in DOMAIN new <=> h \in DOMAIN m.groups \/ h = g
      /\ \A h \in DOMAIN m.groups \ {g} : new[h] = m.groups[h]
  BY <1>2, TableWith
<1>4. PICK t \in Nat : t = m.total + 1 /\ e = SetTotal(m, new, t)
  BY <1>1, <1>2 DEF Create, SetTotal
<1>5. /\ IsFecManager(e) /\ e.groups = new /\ Groups(e) = DOMAIN new
      /\ e.total = t /\ e.complete = m.complete /\ e.repaired = m.repaired
      /\ e.expired = m.expired
  <2>1. IsTable(new) /\ t \in Nat /\ e = SetTotal(m, new, t)
    BY <1>3, <1>4
  <2>2. IsWithTotal(e, m, new, t)
    BY <2>1, TotalUpdate
  <2> QED BY <2>2 DEF IsWithTotal
<1>6. Cardinality(Groups(e)) = Cardinality(Groups(m)) + 1
  <2>1. Groups(e) = Groups(m) \cup {g}
    BY <1>3, <1>5 DEF Groups
  <2> QED BY <2>1, ManagerFields, FS_AddElement
<1>7. Balanced(m) => Balanced(e)
  BY <1>1, <1>3, <1>4, <1>5, <1>6 DEF Balanced
<1> QED BY <1>3, <1>5, <1>6, <1>7 DEF Groups

LEMMA EvictResult ==
  ASSUME NEW m, IsFecManager(m), NEW v \in Groups(m), NEW e, e = Evict(m, v)
  PROVE  /\ IsFecManager(e)
         /\ \A h : h \in Groups(e) <=> h \in Groups(m) /\ h # v
         /\ Cardinality(Groups(e)) = Cardinality(Groups(m)) - 1
         /\ Balanced(m) => Balanced(e)
         /\ \A h \in Groups(e) : e.groups[h] = m.groups[h]
<1>1. IsTable(m.groups) /\ m.expired + 1 \in Nat /\ Groups(m) \ {v} \in SUBSET DOMAIN m.groups
  BY ManagerFields DEF Groups
<1>2. PICK new : new = Restrict(m.groups, Groups(m) \ {v})
  OBVIOUS
<1>3. /\ IsTable(new) /\ DOMAIN new = Groups(m) \ {v}
      /\ \A h \in Groups(m) \ {v} : new[h] = m.groups[h]
  BY <1>1, <1>2, SmallerTable
<1>4. PICK t \in Nat : t = m.expired + 1 /\ e = SetExpired(m, new, t)
  BY <1>1, <1>2 DEF Evict, SetExpired
<1>5. /\ IsFecManager(e) /\ e.groups = new /\ Groups(e) = DOMAIN new
      /\ e.total = m.total /\ e.complete = m.complete /\ e.repaired = m.repaired
      /\ e.expired = t
  <2>1. IsTable(new) /\ e = SetExpired(m, new, t)
    BY <1>3, <1>4
  <2> QED BY <2>1, ExpiredUpdate
<1>6. Cardinality(Groups(m) \ {v}) = Cardinality(Groups(m)) - 1
  BY ManagerFields, FS_RemoveElement
<1>7. Balanced(m) => Balanced(e)
  BY <1>3, <1>4, <1>5, <1>6, ManagerFields DEF Balanced
<1> QED BY <1>3, <1>5, <1>6, <1>7

\* Eviction finds an expired group, or gives up.
LEMMA VictimExpired ==
  ASSUME NEW m, IsFecManager(m), Victim(m) # 0
  PROVE  Victim(m) \in Groups(m) /\ GroupExpired(m.groups[Victim(m)])
<1>1. ExpiredGroups(m) # {} /\ Victim(m) = Min(ExpiredGroups(m))
  BY DEF Victim
<1>2. ExpiredGroups(m) \in SUBSET Nat
  BY ManagerFields DEF ExpiredGroups
<1>3. \E x \in ExpiredGroups(m) : \A y \in ExpiredGroups(m) : x <= y
  BY <1>1, <1>2, LeastElement
<1>4. Min(ExpiredGroups(m)) \in ExpiredGroups(m)
  BY <1>3 DEF Min
<1> QED BY <1>1, <1>4 DEF ExpiredGroups

\* create_group_if_needed: the group is there afterwards, the limit and the
\* balance hold, and only an expired group had to go.
LEMMA EnsureResult ==
  ASSUME NEW m, IsFecManager(m), NEW g \in Nat, ~Refused(m, g),
         Cardinality(Groups(m)) <= MaxGroups, Balanced(m), NEW e, e = EnsureGroup(m, g)
  PROVE  /\ IsFecManager(e)
         /\ g \in Groups(e) /\ Groups(e) \subseteq Groups(m) \cup {g}
         /\ Cardinality(Groups(e)) <= MaxGroups
         /\ Balanced(e)
         /\ Succeeds(m, e, g)
         /\ e.groups[g] = IF g \in Groups(m) THEN m.groups[g] ELSE NewGroup
<1>1. Cardinality(Groups(m)) \in Nat /\ MaxGroups \in Nat
  BY ManagerFields, FecConfigAssumption
<1>2. CASE g \in Groups(m)
  BY <1>2 DEF EnsureGroup, Succeeds
<1>3. CASE g \notin Groups(m) /\ HasRoom(m)
  <2>1. e = Create(m, g)
    BY <1>3 DEF EnsureGroup
  <2> QED BY <1>1, <1>3, <2>1, CreateResult DEF HasRoom, Succeeds
<1>4. CASE g \notin Groups(m) /\ ~HasRoom(m)
  <2>1. PICK v, mid : v = Victim(m) /\ mid = Evict(m, v)
    OBVIOUS
  <2>2. v \in Groups(m) /\ GroupExpired(m.groups[v])
    BY <1>4, <2>1, VictimExpired DEF Refused
  <2>3. e = Create(mid, g)
    BY <1>4, <2>1 DEF EnsureGroup
  <2>4. /\ IsFecManager(mid) /\ \A h : h \in Groups(mid) <=> h \in Groups(m) /\ h # v
        /\ Cardinality(Groups(mid)) = Cardinality(Groups(m)) - 1
        /\ Balanced(mid)
        /\ \A h \in Groups(mid) : mid.groups[h] = m.groups[h]
    BY <2>1, <2>2, EvictResult
  <2>5. /\ IsFecManager(e)
        /\ \A h : h \in Groups(e) <=> h \in Groups(mid) \/ h = g
        /\ Cardinality(Groups(e)) = Cardinality(Groups(mid)) + 1
        /\ Balanced(e)
        /\ \A h \in Groups(mid) : e.groups[h] = mid.groups[h]
        /\ e.groups[g] = NewGroup
    <3>1. g \notin Groups(mid)
      BY <1>4, <2>4
    <3> QED BY <3>1, <2>3, <2>4, CreateResult
  <2>6. Succeeds(m, e, g)
    BY <2>2, <2>4, <2>5 DEF Succeeds
  <2> QED BY <1>1, <1>4, <2>4, <2>5, <2>6
<1> QED BY <1>2, <1>3, <1>4

\* add_block of a group: the blocks grow by the one that fits.
LEMMA WithBlockResult ==
  ASSUME NEW x, IsGroup(x), NEW slot \in 0 .. (N - 1), NEW b \in Block
  PROVE  /\ IsGroup(WithBlock(x, slot, b))
         /\ \A i : i \in DOMAIN WithBlock(x, slot, b).blocks
                     <=> i \in DOMAIN x.blocks \/ i = slot
<1>1. CASE slot \in DOMAIN x.blocks
  BY <1>1 DEF WithBlock
<1>2. CASE slot \notin DOMAIN x.blocks
  <2> DEFINE bs == [i \in DOMAIN x.blocks \cup {slot} |->
                      IF i = slot THEN b ELSE x.blocks[i]]
  <2>1. bs \in [DOMAIN x.blocks \cup {slot} -> Block] /\ DOMAIN bs = DOMAIN x.blocks \cup {slot}
    BY DEF IsGroup
  <2>2. WithBlock(x, slot, b) = [x EXCEPT !.blocks = bs]
    BY <1>2 DEF WithBlock
  <2> HIDE DEF bs
  <2>3. WithBlock(x, slot, b) = [age |-> x.age, blocks |-> bs] /\ x.age \in 0 .. MaxGroupAge
    BY <2>2 DEF IsGroup
  <2> QED BY <2>1, <2>3 DEF IsGroup
<1> QED BY <1>1, <1>2

\* The index that fits is a slot of its own range.
LEMMA SlotInRange ==
  ASSUME NEW parity \in BOOLEAN, NEW index \in Nat
  PROVE  /\ InRange(parity, index)
              <=> SlotOf(parity, index) \in (IF parity THEN ParityIndices ELSE DataIndices)
         /\ InRange(parity, index) => SlotOf(parity, index) \in 0 .. (N - 1)
BY FecConfigAssumption DEF InRange, SlotOf, ParityIndices, DataIndices

\* add_block: as create_group_if_needed, and the group has the block that fits.
LEMMA AddResult ==
  ASSUME NEW m, IsFecManager(m), NEW g \in Nat, NEW parity \in BOOLEAN,
         NEW index \in Nat, NEW b \in Block, ~Refused(m, g),
         Cardinality(Groups(m)) <= MaxGroups, Balanced(m),
         NEW e, e = AddBlock(m, g, parity, index, b)
  PROVE  /\ IsFecManager(e)
         /\ g \in Groups(e) /\ Groups(e) \subseteq Groups(m) \cup {g}
         /\ Cardinality(Groups(e)) <= MaxGroups
         /\ Balanced(e)
         /\ Succeeds(m, e, g)
         /\ \A i : i \in DOMAIN e.groups[g].blocks <=>
              \/ g \in Groups(m) /\ i \in DOMAIN m.groups[g].blocks
              \/ InRange(parity, index) /\ i = SlotOf(parity, index)
<1>1. PICK ready : ready = EnsureGroup(m, g)
  OBVIOUS
<1>2. /\ IsFecManager(ready)
      /\ g \in Groups(ready) /\ Groups(ready) \subseteq Groups(m) \cup {g}
      /\ Cardinality(Groups(ready)) <= MaxGroups
      /\ Balanced(ready)
      /\ Succeeds(m, ready, g)
      /\ ready.groups[g] = IF g \in Groups(m) THEN m.groups[g] ELSE NewGroup
  BY <1>1, EnsureResult
<1>3. \A i : i \in DOMAIN ready.groups[g].blocks <=>
              g \in Groups(m) /\ i \in DOMAIN m.groups[g].blocks
  BY <1>2, NewGroupType
<1>4. CASE ~InRange(parity, index)
  <2>1. e = ready
    BY <1>1, <1>4 DEF AddBlock
  <2> QED BY <1>2, <1>3, <1>4, <2>1
<1>5. CASE InRange(parity, index)
  <2>1. PICK slot \in 0 .. (N - 1) : slot = SlotOf(parity, index)
    BY <1>5, SlotInRange
  <2>2. IsGroup(ready.groups[g]) /\ IsTable(ready.groups)
    BY <1>2, ManagerFields DEF IsTable, Groups
  <2>3. PICK old : old = ready.groups[g]
    OBVIOUS
  <2>4. PICK x : x = WithBlock(old, slot, b)
    OBVIOUS
  <2>5. IsGroup(x) /\ \A i : i \in DOMAIN x.blocks <=> i \in DOMAIN old.blocks \/ i = slot
    <3>1. IsGroup(old)
      BY <2>2, <2>3
    <3> QED BY <3>1, <2>4, WithBlockResult
  <2>6. PICK new : new = PutGroup(ready.groups, g, x)
    OBVIOUS
  <2>7. /\ IsTable(new) /\ new[g] = x
        /\ \A h : h \in DOMAIN new <=> h \in DOMAIN ready.groups \/ h = g
        /\ \A h \in DOMAIN ready.groups \ {g} : new[h] = ready.groups[h]
    <3>1. IsTable(ready.groups) /\ IsGroup(x)
      BY <2>2, <2>5
    <3> QED BY <2>6, <3>1, TableWith
  <2>8. e = SetGroups(ready, new)
    BY <1>1, <1>5, <2>1, <2>3, <2>4, <2>6 DEF AddBlock, SetGroups
  <2>9. /\ IsFecManager(e) /\ e.groups = new /\ Groups(e) = DOMAIN new
        /\ e.total = ready.total /\ e.complete = ready.complete
        /\ e.repaired = ready.repaired /\ e.expired = ready.expired
    <3>1. IsFecManager(ready) /\ IsTable(new)
      BY <1>2, <2>7
    <3> QED BY <2>8, <3>1, GroupsUpdate
  <2>10. Groups(e) = Groups(ready)
    BY <1>2, <2>7, <2>9 DEF Groups
  <2>11. Balanced(e)
    BY <1>2, <2>9, <2>10 DEF Balanced
  <2>12. Succeeds(m, e, g)
    BY <1>2, <2>7, <2>9, <2>10 DEF Succeeds, Groups
  <2>13. \A i : i \in DOMAIN e.groups[g].blocks <=>
              \/ g \in Groups(m) /\ i \in DOMAIN m.groups[g].blocks
              \/ i = slot
    BY <1>3, <2>3, <2>5, <2>7, <2>9
  <2> QED BY <1>2, <1>5, <2>1, <2>9, <2>10, <2>11, <2>12, <2>13
<1> QED BY <1>4, <1>5

LEMMA SplitCardinality ==
  ASSUME NEW S, IsFiniteSet(S), NEW T \in SUBSET S
  PROVE  /\ IsFiniteSet(T) /\ Cardinality(T) \in Nat
         /\ IsFiniteSet(S \ T) /\ Cardinality(S \ T) \in Nat
         /\ Cardinality(S) = Cardinality(S \ T) + Cardinality(T)
<1>1. IsFiniteSet(T) /\ IsFiniteSet(S \ T)
  BY FS_Subset
<1>2. Cardinality(T) \in Nat /\ Cardinality(S \ T) \in Nat /\ Cardinality(S) \in Nat
  BY <1>1, FS_CardinalityType
<1>3. S \cap T = T
  OBVIOUS
<1>4. Cardinality(S \ T) = Cardinality(S) - Cardinality(S \cap T)
  BY FS_Difference
<1> QED BY <1>1, <1>2, <1>3, <1>4

\* A manager's table, with only some of its groups left.
LEMMA Leaving ==
  ASSUME NEW m, NEW left, NEW new, IsFecManager(m), left \subseteq Groups(m),
         new = Restrict(m.groups, left)
  PROVE  /\ IsTable(new) /\ DOMAIN new = left
         /\ \A h \in left : new[h] = m.groups[h]
<1>1. IsTable(m.groups) /\ left \in SUBSET DOMAIN m.groups
  BY ManagerFields DEF Groups
<1> QED BY <1>1, SmallerTable

LEMMA CleanupResult ==
  ASSUME NEW m, IsFecManager(m), NEW e, e = CleanupExpired(m)
  PROVE  /\ IsFecManager(e)
         /\ \A h : h \in Groups(e) <=> h \in Groups(m) /\ h \notin ExpiredGroups(m)
         /\ \A h \in Groups(e) : e.groups[h] = m.groups[h]
         /\ Cardinality(Groups(e)) <= Cardinality(Groups(m))
         /\ Balanced(m) => Balanced(e)
<1>1. PICK gone, left, new : /\ gone = ExpiredGroups(m) /\ left = Groups(m) \ gone
                            /\ new = Restrict(m.groups, left)
  OBVIOUS
<1>2. gone \in SUBSET Groups(m)
  BY <1>1 DEF ExpiredGroups
<1>3. /\ IsFiniteSet(Groups(m)) /\ Cardinality(gone) \in Nat
      /\ Cardinality(Groups(m) \ gone) \in Nat
      /\ Cardinality(Groups(m)) = Cardinality(Groups(m) \ gone) + Cardinality(gone)
  BY <1>2, ManagerFields, SplitCardinality
<1>4. IsTable(new) /\ DOMAIN new = left /\ \A h \in left : new[h] = m.groups[h]
  <2>1. new = Restrict(m.groups, left) /\ left \subseteq Groups(m)
    BY <1>1
  <2> QED BY <2>1, Leaving
<1>5. m.expired \in Nat /\ m.total \in Nat /\ m.complete \in Nat /\ m.repaired \in Nat
  BY ManagerFields
<1>6. PICK t \in Nat : t = m.expired + Cardinality(gone)
  BY <1>3, <1>5
<1>7. e = SetExpired(m, new, t)
  BY <1>1, <1>6 DEF CleanupExpired, SetExpired
<1>8. /\ IsFecManager(e) /\ e.groups = new /\ Groups(e) = DOMAIN new
      /\ e.total = m.total /\ e.complete = m.complete /\ e.repaired = m.repaired
      /\ e.expired = t
  <2>1. IsTable(new)
    BY <1>4
  <2> QED BY <2>1, <1>7, ExpiredUpdate
<1>9. Cardinality(Groups(e)) = Cardinality(Groups(m)) - Cardinality(gone)
  <2>1. Groups(e) = Groups(m) \ gone
    BY <1>1, <1>4, <1>8
  <2> QED BY <1>3, <2>1
<1>10. Balanced(m) => Balanced(e)
  BY <1>3, <1>5, <1>6, <1>8, <1>9 DEF Balanced
<1>11. Cardinality(Groups(e)) <= Cardinality(Groups(m))
  BY <1>3, <1>9
<1> QED BY <1>1, <1>4, <1>8, <1>10, <1>11

LEMMA CheckResult ==
  ASSUME NEW m, IsFecManager(m), NEW f \in Nat, NEW e, e = CheckAndRepair(m, f)
  PROVE  /\ IsFecManager(e)
         /\ \A h : h \in Groups(e) <=>
              h \in Groups(m) /\ h \notin ExpiredGroups(m) /\ h \notin Repaired(m)
         /\ \A h \in Groups(e) : e.groups[h] = m.groups[h]
         /\ Cardinality(Groups(e)) <= Cardinality(Groups(m))
         /\ Balanced(m) => Balanced(e)
<1>1. PICK X, R, C, D :
         /\ X = ExpiredGroups(m) /\ R = Repaired(m)
         /\ C = {g \in R : IsComplete(m.groups[g])}
         /\ D = {g \in R : ~IsComplete(m.groups[g])}
  OBVIOUS
<1>2. /\ X \in SUBSET Groups(m) /\ R \in SUBSET Groups(m) /\ X \cap R = {}
      /\ C \in SUBSET R /\ D = R \ C
  BY <1>1 DEF ExpiredGroups, Repaired, Ready
<1>3. PICK gone, left, new : /\ gone = X \cup R /\ left = Groups(m) \ gone
                            /\ new = Restrict(m.groups, left)
  OBVIOUS
<1>4. IsFiniteSet(Groups(m))
  BY ManagerFields
<1>5. /\ IsFiniteSet(gone) /\ Cardinality(gone) \in Nat
      /\ Cardinality(Groups(m) \ gone) \in Nat
      /\ Cardinality(Groups(m)) = Cardinality(Groups(m) \ gone) + Cardinality(gone)
  <2>1. gone \in SUBSET Groups(m)
    BY <1>2, <1>3
  <2> QED BY <2>1, <1>4, SplitCardinality
<1>6. /\ Cardinality(X) \in Nat /\ IsFiniteSet(R)
      /\ Cardinality(gone) = Cardinality(X) + Cardinality(R)
  <2>1. R \in SUBSET gone /\ gone \ R = X
    BY <1>2, <1>3
  <2>2. /\ IsFiniteSet(R) /\ Cardinality(gone \ R) \in Nat /\ Cardinality(R) \in Nat
        /\ Cardinality(gone) = Cardinality(gone \ R) + Cardinality(R)
    BY <2>1, <1>5, SplitCardinality
  <2> QED BY <2>1, <2>2
<1>7. /\ Cardinality(C) \in Nat /\ Cardinality(D) \in Nat
      /\ Cardinality(R) = Cardinality(D) + Cardinality(C)
  <2>1. C \in SUBSET R /\ R \ C = D
    BY <1>2
  <2>2. /\ Cardinality(R \ C) \in Nat /\ Cardinality(C) \in Nat
        /\ Cardinality(R) = Cardinality(R \ C) + Cardinality(C)
    BY <2>1, <1>6, SplitCardinality
  <2> QED BY <2>1, <2>2
<1>8. IsTable(new) /\ DOMAIN new = left /\ \A h \in left : new[h] = m.groups[h]
  <2>1. new = Restrict(m.groups, left) /\ left \subseteq Groups(m)
    BY <1>3
  <2> QED BY <2>1, Leaving
<1>9. m.expired \in Nat /\ m.total \in Nat /\ m.complete \in Nat /\ m.repaired \in Nat
  BY ManagerFields
<1>10. PICK t \in Nat, c \in Nat, r \in Nat :
         /\ t = m.expired + Cardinality(X)
         /\ c = m.complete + Cardinality(C)
         /\ r = m.repaired + Cardinality(D)
  BY <1>6, <1>7, <1>9
<1>11. e = SetRepaired(m, new, t, c, r, f)
  BY <1>1, <1>3, <1>10 DEF CheckAndRepair, SetRepaired
<1>12. /\ IsFecManager(e) /\ e.groups = new /\ Groups(e) = DOMAIN new
       /\ e.total = m.total /\ e.complete = c /\ e.repaired = r
       /\ e.expired = t
  <2>1. IsTable(new)
    BY <1>8
  <2> QED BY <2>1, <1>11, RepairUpdate
<1>13. Cardinality(Groups(e)) = Cardinality(Groups(m)) - Cardinality(gone)
  <2>1. Groups(e) = Groups(m) \ gone
    BY <1>3, <1>8, <1>12
  <2> QED BY <1>5, <2>1
<1>14. Balanced(m) => Balanced(e)
  <2>1. Cardinality(Groups(e)) + c + r + t
          = Cardinality(Groups(m)) + m.complete + m.repaired + m.expired
    <3>1. Cardinality(Groups(e)) + Cardinality(X) + Cardinality(D) + Cardinality(C)
            = Cardinality(Groups(m))
      BY <1>5, <1>6, <1>7, <1>13
    <3>2. Cardinality(Groups(e)) \in Nat /\ Cardinality(Groups(m)) \in Nat
      BY <1>5, <1>13
    <3> QED BY <1>6, <1>7, <1>9, <1>10, <3>1, <3>2
  <2>2. e.total = m.total /\ e.complete = c /\ e.repaired = r /\ e.expired = t
    BY <1>12
  <2> QED BY <2>1, <2>2 DEF Balanced
<1>15. Cardinality(Groups(e)) <= Cardinality(Groups(m))
  BY <1>5, <1>13
<1> QED BY <1>1, <1>3, <1>8, <1>12, <1>14, <1>15

LEMMA GroupsAgeResult ==
  ASSUME NEW m, IsFecManager(m), NEW e, e = AgeGroups(m)
  PROVE  /\ IsFecManager(e)
         /\ Groups(e) = Groups(m)
         /\ \A h \in Groups(e) : e.groups[h].blocks = m.groups[h].blocks
         /\ Balanced(m) => Balanced(e)
<1>1. IsTable(m.groups)
  BY ManagerFields
<1>2. PICK new : new = [g \in Groups(m) |-> OlderGroup(m.groups[g])]
  OBVIOUS
<1>3. ASSUME NEW x, IsGroup(x)
      PROVE  IsGroup(OlderGroup(x)) /\ OlderGroup(x).blocks = x.blocks
  <2>1. x = [age |-> x.age, blocks |-> x.blocks] /\ x.age \in 0 .. MaxGroupAge
    BY <1>3 DEF IsGroup
  <2>2. PICK a \in 0 .. MaxGroupAge : OlderGroup(x) = [x EXCEPT !.age = a]
    BY <2>1, FecConfigAssumption DEF OlderGroup, MaxGroupAge
  <2>3. OlderGroup(x) = [age |-> a, blocks |-> x.blocks]
    BY <2>1, <2>2
  <2> QED BY <1>3, <2>3 DEF IsGroup
<1>4. IsTable(new) /\ DOMAIN new = Groups(m)
  BY <1>1, <1>2, <1>3 DEF IsTable, Groups
<1>5. \A h \in Groups(m) : new[h].blocks = m.groups[h].blocks
  BY <1>1, <1>2, <1>3 DEF IsTable, Groups
<1>6. e = SetGroups(m, new)
  BY <1>2 DEF AgeGroups, SetGroups
<1>7. /\ IsFecManager(e) /\ e.groups = new /\ Groups(e) = DOMAIN new
      /\ e.total = m.total /\ e.complete = m.complete /\ e.repaired = m.repaired
      /\ e.expired = m.expired
  <2>1. IsTable(new)
    BY <1>4
  <2> QED BY <2>1, <1>6, GroupsUpdate
<1>8. Groups(e) = Groups(m)
  BY <1>4, <1>7
<1> QED BY <1>5, <1>7, <1>8 DEF Balanced

-----------------------------------------------------------------------------
(* The invariant of the specification *)

\* A group outside the table has no history: what a new group of that id holds
\* is what arrives from then on.
NoHistory ==
  /\ Groups(fm) \subseteq GroupIds
  /\ \A g \in GroupIds : g \notin Groups(fm) => seen[g] = {}

FecIInv == FecInv /\ NoHistory

LEMMA FecInvParts ==
  ASSUME FecIInv
  PROVE  /\ IsFecManager(fm) /\ Balanced(fm) /\ Cardinality(Groups(fm)) <= MaxGroups
         /\ seen \in [GroupIds -> SUBSET (0 .. (N - 1))]
         /\ BlocksAreSeen /\ NoHistory
BY DEF FecIInv, FecInv, FecTypeOK, GroupBound, GroupAccounting, Balanced

\* The invariant holds after a step when the manager is sound and its groups
\* hold what their history says.
LEMMA FecInvAfter ==
  ASSUME NEW H \in [GroupIds -> SUBSET (0 .. (N - 1))],
         IsFecManager(fm'), Balanced(fm'), Cardinality(Groups(fm')) <= MaxGroups,
         Groups(fm') \subseteq GroupIds, handed' \subseteq GroupIds,
         SeenNow(H),
         \A h \in Groups(fm') : \A i : i \in DOMAIN fm'.groups[h].blocks <=> i \in H[h]
  PROVE  FecIInv'
<1>1. /\ seen' \in [GroupIds -> SUBSET (0 .. (N - 1))]
      /\ \A h \in GroupIds : seen'[h] = IF h \in Groups(fm') THEN H[h] ELSE {}
  BY DEF SeenNow
<1>2. BlocksAreSeen'
  <2> SUFFICES ASSUME NEW h \in Groups(fm')
               PROVE  DOMAIN fm'.groups[h].blocks = seen'[h]
    BY DEF BlocksAreSeen
  <2>1. seen'[h] = H[h]
    BY <1>1
  <2>2. \A i : i \in DOMAIN fm'.groups[h].blocks <=> i \in H[h]
    OBVIOUS
  <2> QED BY <2>1, <2>2
<1>3. NoHistory'
  BY <1>1 DEF NoHistory
<1> QED BY <1>1, <1>2, <1>3
        DEF FecIInv, FecInv, FecTypeOK, GroupBound, GroupAccounting, Balanced

LEMMA FecInitInv == FecInit => FecIInv
<1> SUFFICES ASSUME FecInit PROVE FecIInv
  OBVIOUS
<1>1. /\ fm.groups = [g \in {} |-> 0] /\ fm.total = 0 /\ fm.complete = 0
      /\ fm.repaired = 0 /\ fm.expired = 0 /\ fm.failed = 0
      /\ fm \in [groups : {fm.groups}, total : Nat, complete : Nat, repaired : Nat,
                 expired : Nat, failed : Nat]
  BY DEF FecInit, NewFecManager
<1>2. DOMAIN fm.groups = {} /\ Groups(fm) = {}
  BY <1>1 DEF Groups
<1>3. IsFecManager(fm)
  BY <1>1, <1>2, FS_EmptySet, ManagerIs DEF IsTable
<1>4. GroupBound /\ GroupAccounting
  BY <1>1, <1>2, FS_EmptySet, FecConfigAssumption DEF GroupBound, GroupAccounting
<1>5. /\ seen \in [GroupIds -> SUBSET (0 .. (N - 1))] /\ handed \subseteq GroupIds
      /\ \A g \in GroupIds : seen[g] = {}
  BY DEF FecInit
<1> QED BY <1>2, <1>3, <1>4, <1>5
        DEF FecIInv, FecInv, FecTypeOK, BlocksAreSeen, NoHistory

\* What add_block may do to the table: put in the group of the block, take out
\* an expired one.
LEMMA FecAddStep ==
  ASSUME FecIInv, NEW g \in GroupIds, NEW parity \in BOOLEAN, NEW index \in Nat,
         NEW block \in Payloads, FecAdd(g, parity, index, block)
  PROVE  /\ FecIInv'
         /\ \A h \in Groups(fm) \ Groups(fm') : GroupExpired(fm.groups[h])
<1>1. /\ IsFecManager(fm) /\ Balanced(fm) /\ Cardinality(Groups(fm)) <= MaxGroups
      /\ seen \in [GroupIds -> SUBSET (0 .. (N - 1))]
      /\ BlocksAreSeen /\ NoHistory
  BY FecInvParts
<1>2. g \in Nat /\ block \in Block
  BY FecWorkloadAssumption
<1>3. handed' \subseteq GroupIds
  BY DEF FecAdd
<1>4. CASE Refused(fm, g)
  <2>1. fm' = fm
    BY <1>4 DEF FecAdd, AddBlock, EnsureGroup
  <2>2. SeenNow(seen)
    BY <1>4 DEF FecAdd
  <2>3. \A h \in Groups(fm) : \A i : i \in DOMAIN fm.groups[h].blocks <=> i \in seen[h]
    BY <1>1 DEF BlocksAreSeen
  <2>4. Groups(fm) \subseteq GroupIds
    BY <1>1 DEF NoHistory
  <2>5. FecIInv'
    BY <1>1, <1>3, <2>1, <2>2, <2>3, <2>4, FecInvAfter
  <2> QED BY <2>1, <2>5
<1>5. CASE ~Refused(fm, g)
  <2>1. PICK slots : slots = {SlotOf(parity, index)}
                       \cap (IF parity THEN ParityIndices ELSE DataIndices)
    OBVIOUS
  <2>2. /\ \A i : i \in slots <=> InRange(parity, index) /\ i = SlotOf(parity, index)
        /\ slots \subseteq 0 .. (N - 1)
    BY <2>1, SlotInRange
  <2>3. PICK H : H = [seen EXCEPT ![g] = @ \cup slots]
    OBVIOUS
  <2>4. /\ H \in [GroupIds -> SUBSET (0 .. (N - 1))]
        /\ H[g] = seen[g] \cup slots
        /\ \A h \in GroupIds \ {g} : H[h] = seen[h]
    BY <1>1, <2>2, <2>3
  <2>5. SeenNow(H)
    BY <1>5, <2>1, <2>3 DEF FecAdd
  <2>6. fm' = AddBlock(fm, g, parity, index, block)
    BY DEF FecAdd
  <2>7. /\ IsFecManager(fm')
        /\ g \in Groups(fm') /\ Groups(fm') \subseteq Groups(fm) \cup {g}
        /\ Cardinality(Groups(fm')) <= MaxGroups
        /\ Balanced(fm')
        /\ Succeeds(fm, fm', g)
        /\ \A i : i \in DOMAIN fm'.groups[g].blocks <=>
             \/ g \in Groups(fm) /\ i \in DOMAIN fm.groups[g].blocks
             \/ InRange(parity, index) /\ i = SlotOf(parity, index)
    BY <1>1, <1>2, <1>5, <2>6, AddResult
  <2>8. ASSUME NEW h \in Groups(fm')
        PROVE  \A i : i \in DOMAIN fm'.groups[h].blocks <=> i \in H[h]
    <3>1. CASE h = g
      <4>1. \A i : i \in seen[g] <=> g \in Groups(fm) /\ i \in DOMAIN fm.groups[g].blocks
        BY <1>1 DEF BlocksAreSeen, NoHistory
      <4> QED BY <3>1, <4>1, <2>2, <2>4, <2>7
    <3>2. CASE h # g
      <4>1. h \in Groups(fm) /\ h \in GroupIds /\ fm'.groups[h] = fm.groups[h]
        BY <1>1, <2>7, <3>2 DEF Succeeds, NoHistory
      <4>2. DOMAIN fm.groups[h].blocks = seen[h] /\ H[h] = seen[h]
        BY <1>1, <2>4, <3>2, <4>1 DEF BlocksAreSeen
      <4> QED BY <4>1, <4>2
    <3> QED BY <3>1, <3>2
  <2>9. Groups(fm') \subseteq GroupIds
    BY <1>1, <2>7 DEF NoHistory
  <2>10. H \in [GroupIds -> SUBSET (0 .. (N - 1))]
    BY <2>4
  <2>11. IsFecManager(fm') /\ Balanced(fm') /\ Cardinality(Groups(fm')) <= MaxGroups
    BY <2>7
  <2>12. FecIInv'
    BY <1>3, <2>5, <2>8, <2>9, <2>10, <2>11, FecInvAfter
  <2> QED BY <2>7, <2>12 DEF Succeeds
<1> QED BY <1>4, <1>5

\* A step that only takes groups out of the table keeps the invariant.
LEMMA ShrinkStep ==
  ASSUME FecIInv, IsFecManager(fm'), Balanced(fm) => Balanced(fm'),
         Cardinality(Groups(fm')) <= Cardinality(Groups(fm)),
         Groups(fm') \subseteq Groups(fm),
         \A h \in Groups(fm') : fm'.groups[h].blocks = fm.groups[h].blocks,
         SeenNow(seen), handed' \subseteq GroupIds
  PROVE  FecIInv'
<1>1. /\ IsFecManager(fm) /\ Balanced(fm) /\ Cardinality(Groups(fm)) <= MaxGroups
      /\ seen \in [GroupIds -> SUBSET (0 .. (N - 1))]
      /\ BlocksAreSeen /\ NoHistory
  BY FecInvParts
<1>2. Cardinality(Groups(fm')) <= MaxGroups
  <2>1. /\ Cardinality(Groups(fm')) \in Nat /\ Cardinality(Groups(fm)) \in Nat
        /\ MaxGroups \in Nat
    BY <1>1, ManagerFields, FecConfigAssumption
  <2> QED BY <1>1, <2>1
<1>3. \A h \in Groups(fm') : \A i : i \in DOMAIN fm'.groups[h].blocks <=> i \in seen[h]
  BY <1>1 DEF BlocksAreSeen
<1>4. Groups(fm') \subseteq GroupIds
  BY <1>1 DEF NoHistory
<1>5. seen \in [GroupIds -> SUBSET (0 .. (N - 1))] /\ Balanced(fm')
  BY <1>1
<1> QED BY <1>2, <1>3, <1>4, <1>5, FecInvAfter

LEMMA CheckStep ==
  ASSUME FecIInv, Check
  PROVE  /\ FecIInv'
         /\ \A h \in Groups(fm) \ Groups(fm') :
              h \in handed' \/ GroupExpired(fm.groups[h])
         /\ handed' = Repaired(fm)
<1>1. IsFecManager(fm) /\ NoHistory
  BY FecInvParts
<1>2. PICK f \in Nat : fm' = CheckAndRepair(fm, f)
  <2>1. PICK R : R = Ready(fm) \ Repaired(fm)
    OBVIOUS
  <2>2. R \subseteq Groups(fm)
    BY <2>1 DEF Ready
  <2>3. IsFiniteSet(R)
    BY <1>1, <2>2, ManagerFields, FS_Subset
  <2>4. FailedNow(fm) \in Nat
    BY <2>1, <2>3, FS_CardinalityType DEF FailedNow
  <2>5. fm.failed \in Nat /\ MaxFailed \in Nat
    BY <1>1, ManagerFields, FecWorkloadAssumption
  <2> QED BY <2>4, <2>5 DEF Check
<1>3. /\ IsFecManager(fm')
      /\ \A h : h \in Groups(fm') <=>
           h \in Groups(fm) /\ h \notin ExpiredGroups(fm) /\ h \notin Repaired(fm)
      /\ \A h \in Groups(fm') : fm'.groups[h] = fm.groups[h]
      /\ Cardinality(Groups(fm')) <= Cardinality(Groups(fm))
      /\ Balanced(fm) => Balanced(fm')
  BY <1>1, <1>2, CheckResult
<1>4. SeenNow(seen) /\ handed' = Repaired(fm)
  BY DEF Check
<1>5. handed' \subseteq GroupIds
  BY <1>1, <1>4 DEF NoHistory, Repaired, Ready
<1>6. /\ \A h \in Groups(fm') : fm'.groups[h].blocks = fm.groups[h].blocks
      /\ Groups(fm') \subseteq Groups(fm)
  BY <1>3
<1>7. FecIInv'
  BY <1>3, <1>4, <1>5, <1>6, ShrinkStep
<1> QED BY <1>3, <1>4, <1>7 DEF ExpiredGroups

LEMMA CleanupStep ==
  ASSUME FecIInv, Cleanup
  PROVE  /\ FecIInv'
         /\ \A h \in Groups(fm) \ Groups(fm') : GroupExpired(fm.groups[h])
<1>1. IsFecManager(fm) /\ fm' = CleanupExpired(fm) /\ SeenNow(seen) /\ handed' = {}
  BY FecInvParts DEF Cleanup
<1>2. /\ IsFecManager(fm')
      /\ \A h : h \in Groups(fm') <=> h \in Groups(fm) /\ h \notin ExpiredGroups(fm)
      /\ \A h \in Groups(fm') : fm'.groups[h] = fm.groups[h]
      /\ Cardinality(Groups(fm')) <= Cardinality(Groups(fm))
      /\ Balanced(fm) => Balanced(fm')
  BY <1>1, CleanupResult
<1>3. /\ \A h \in Groups(fm') : fm'.groups[h].blocks = fm.groups[h].blocks
      /\ Groups(fm') \subseteq Groups(fm) /\ handed' \subseteq GroupIds
  BY <1>1, <1>2
<1>4. FecIInv'
  BY <1>1, <1>2, <1>3, ShrinkStep
<1> QED BY <1>2, <1>4 DEF ExpiredGroups

LEMMA FecTickStep ==
  ASSUME FecIInv, FecTick
  PROVE  FecIInv' /\ Groups(fm') = Groups(fm)
<1>1. IsFecManager(fm) /\ fm' = AgeGroups(fm) /\ SeenNow(seen) /\ handed' = {}
  BY FecInvParts DEF FecTick
<1>2. /\ IsFecManager(fm') /\ Groups(fm') = Groups(fm)
      /\ \A h \in Groups(fm') : fm'.groups[h].blocks = fm.groups[h].blocks
      /\ Balanced(fm) => Balanced(fm')
  BY <1>1, GroupsAgeResult
<1>3. Cardinality(Groups(fm')) <= Cardinality(Groups(fm))
  <2>1. Cardinality(Groups(fm)) \in Nat
    BY <1>1, ManagerFields
  <2> QED BY <1>2, <2>1
<1>4. Groups(fm') \subseteq Groups(fm) /\ handed' \subseteq GroupIds
  BY <1>1, <1>2
<1>5. FecIInv'
  BY <1>1, <1>2, <1>3, <1>4, ShrinkStep
<1> QED BY <1>2, <1>5

\* One step: the invariant, the groups that may leave and the groups handed out.
LEMMA FecNextStep ==
  ASSUME FecIInv, [FecNext]_fecVars
  PROVE  /\ FecIInv'
         /\ \A h \in Groups(fm) \ Groups(fm') :
              h \in handed' \/ GroupExpired(fm.groups[h])
         /\ fecVars' = fecVars \/ handed' \subseteq Repaired(fm)
<1>1. ASSUME NEW g \in GroupIds, NEW block \in Payloads, NEW index \in 0 .. K,
             FecAdd(g, FALSE, index, block)
      PROVE  /\ FecIInv' /\ handed' = {}
             /\ \A h \in Groups(fm) \ Groups(fm') : GroupExpired(fm.groups[h])
  <2>1. FALSE \in BOOLEAN /\ index \in Nat
    BY FecConfigAssumption
  <2>2. handed' = {}
    BY <1>1 DEF FecAdd
  <2> QED BY <1>1, <2>1, <2>2, FecAddStep
<1>2. ASSUME NEW g \in GroupIds, NEW block \in Payloads, NEW index \in 0 .. (N - K),
             FecAdd(g, TRUE, index, block)
      PROVE  /\ FecIInv' /\ handed' = {}
             /\ \A h \in Groups(fm) \ Groups(fm') : GroupExpired(fm.groups[h])
  <2>1. TRUE \in BOOLEAN /\ index \in Nat
    BY FecConfigAssumption
  <2>2. handed' = {}
    BY <1>2 DEF FecAdd
  <2> QED BY <1>2, <2>1, <2>2, FecAddStep
<1>3. CASE Check
  BY <1>3, CheckStep
<1>4. CASE Cleanup
  BY <1>4, CleanupStep DEF Cleanup
<1>5. CASE FecTick
  BY <1>5, FecTickStep DEF FecTick
<1>6. CASE UNCHANGED fecVars
  <2>1. fm' = fm /\ seen' = seen /\ handed' = handed
    BY <1>6 DEF fecVars
  <2>2. FecIInv'
    BY <2>1 DEF FecIInv, FecInv, FecTypeOK, GroupBound, GroupAccounting, BlocksAreSeen,
                NoHistory
  <2> QED BY <1>6, <2>1, <2>2
<1> QED BY <1>1, <1>2, <1>3, <1>4, <1>5, <1>6 DEF FecNext

LEMMA FecSpecInv == FecSpec => []FecIInv
<1>1. FecIInv /\ [FecNext]_fecVars => FecIInv'
  BY FecNextStep
<1> QED BY <1>1, FecInitInv, PTL DEF FecSpec

\* FecInv: the types of the manager, the limit of its table, every group
\* accounted for, and in each group exactly the blocks that arrived for it
\* (add_block, create_group_if_needed, check_and_repair, cleanup_expired).
THEOREM FecCorrect == FecSpec => []FecInv
<1>1. FecIInv => FecInv
  BY DEF FecIInv
<1> QED BY <1>1, FecSpecInv, PTL

\* NoLiveGroupLost: neither eviction nor clean-up costs a group that is not
\* past repair_deadline_ms (create_group_if_needed, cleanup_expired).
THEOREM LiveGroupsStay == FecSpec => NoLiveGroupLost
<1>1. FecIInv /\ [FecNext]_fecVars =>
        [\A g \in Groups(fm) \ Groups(fm') :
           g \in handed' \/ GroupExpired(fm.groups[g])]_fecVars
  BY FecNextStep
<1> QED BY <1>1, FecSpecInv, PTL DEF FecSpec, NoLiveGroupLost

\* A group check_and_repair can repair has at least k blocks.
LEMMA RepairedHasK ==
  ASSUME FecIInv, NEW g \in Repaired(fm)
  PROVE  Cardinality(seen[g]) >= K
<1>1. g \in Groups(fm) /\ CanRepair(fm.groups[g])
  BY DEF Repaired, Ready
<1>2. PICK S : S = DOMAIN fm.groups[g].blocks
  OBVIOUS
<1>3. S \subseteq 0 .. (N - 1) /\ seen[g] = S
  BY <1>1, <1>2, FecInvParts DEF IsFecManager, Groups, BlocksAreSeen
<1>4. IsFiniteSet(S)
  <2>1. IsFiniteSet(0 .. (N - 1))
    BY FecConfigAssumption, FS_Interval
  <2> QED BY <1>3, <2>1, FS_Subset
<1>5. Cardinality(S) \in Nat /\ Cardinality(S \cap DataIndices) \in Nat
      /\ Cardinality(S \cap DataIndices) <= Cardinality(S)
  <2>1. S \cap DataIndices \in SUBSET S
    OBVIOUS
  <2>2. /\ IsFiniteSet(S \cap DataIndices)
        /\ Cardinality(S \cap DataIndices) <= Cardinality(S)
    BY <1>4, <2>1, FS_Subset
  <2> QED BY <1>4, <2>2, FS_CardinalityType
<1>6. Cardinality(S \cap DataIndices) >= K \/ Cardinality(S) >= K
  BY <1>1, <1>2 DEF CanRepair, IsComplete, DataBlocks
<1> QED BY <1>3, <1>5, <1>6, FecConfigAssumption

\* DeliveryBacked: check_and_repair hands out a group only when at least k of
\* its n blocks have arrived since it was created.
THEOREM DeliveriesBacked == FecSpec => DeliveryBacked
<1>1. FecIInv /\ [FecNext]_fecVars => [\A g \in handed' : Cardinality(seen[g]) >= K]_fecVars
  BY FecNextStep, RepairedHasK
<1> QED BY <1>1, FecSpecInv, PTL DEF FecSpec, DeliveryBacked

-----------------------------------------------------------------------------
(* THE REORDER BUFFER: a well-typed buffer, field by field *)

\* A well-typed buffer, field by field.
LEMMA BufferFields ==
  ASSUME NEW b, IsReorderBuffer(b)
  PROVE  /\ b = [buffer |-> b.buffer, expected |-> b.expected,
                 total |-> b.total, duplicate |-> b.duplicate,
                 dropped |-> b.dropped, outOfOrder |-> b.outOfOrder]
         /\ b.expected \in Nat /\ b.total \in Nat /\ b.duplicate \in Nat
         /\ b.dropped \in Nat /\ b.outOfOrder \in Nat
         /\ b.buffer \in [Buffered(b) -> Fragment]
         /\ Buffered(b) \subseteq Nat
         /\ IsFiniteSet(Buffered(b))
         /\ Cardinality(Buffered(b)) \in Nat
<1>1. IsFiniteSet(Buffered(b))
  BY DEF IsReorderBuffer, Buffered
<1>2. Cardinality(Buffered(b)) \in Nat
  BY <1>1, FS_CardinalityType
<1>3. QED BY <1>1, <1>2 DEF IsReorderBuffer, Buffered

\* Conversely, a record with well-typed fields is a buffer.
LEMMA BufferRecord ==
  ASSUME NEW S \in SUBSET Nat, IsFiniteSet(S), NEW f \in [S -> Fragment],
         NEW x \in Nat, NEW t \in Nat, NEW d \in Nat, NEW r \in Nat, NEW o \in Nat
  PROVE  IsReorderBuffer([buffer |-> f, expected |-> x, total |-> t,
                          duplicate |-> d, dropped |-> r, outOfOrder |-> o])
<1>1. DOMAIN f = S
  OBVIOUS
<1>2. QED BY <1>1 DEF IsReorderBuffer

\* What a call of add_packet returns: one counter moves, or the packet is
\* stored under its number, which is not behind the cursor.
LEMMA AddPacketCases ==
  ASSUME NEW b, IsReorderBuffer(b), NEW seq \in Nat, NEW frag \in Fragment
  PROVE  LET a == AddPacket(b, seq, frag) IN
         \/ a = [b EXCEPT !.total = @ + 1, !.duplicate = @ + 1]
         \/ a = [b EXCEPT !.total = @ + 1, !.dropped = @ + 1]
         \/ a = [b EXCEPT !.total = @ + 1, !.outOfOrder = @ + 1]
         \/ /\ seq \notin Buffered(b)
            /\ seq >= Anchor(b, seq)
            /\ a = [b EXCEPT !.total = @ + 1,
                             !.expected = Anchor(b, seq),
                             !.buffer = Put(b.buffer, seq, frag)]
<1> DEFINE dup == IsDuplicate(b, seq)
           full == IsFull(b, frag)
           old == IsOld(b, seq)
<1>1. Anchor(b, seq) \in Nat
  BY DEF Anchor, IsReorderBuffer
<1>2. CASE dup
  BY <1>2 DEF AddPacket
<1>3. CASE ~dup /\ full
  BY <1>3 DEF AddPacket
<1>4. CASE ~dup /\ ~full /\ old
  BY <1>4 DEF AddPacket
<1>5. CASE ~dup /\ ~full /\ ~old
  <2>1. seq \notin Buffered(b) /\ seq >= Anchor(b, seq)
    BY <1>1, <1>5 DEF IsDuplicate, IsOld
  <2>2. AddPacket(b, seq, frag) = [b EXCEPT !.total = @ + 1,
                                           !.expected = Anchor(b, seq),
                                           !.buffer = Put(b.buffer, seq, frag)]
    BY <1>5 DEF AddPacket
  <2>3. QED BY <2>1, <2>2
<1>6. QED BY <1>2, <1>3, <1>4, <1>5

\* Storing a fragment extends the map by one number.
LEMMA PutMap ==
  ASSUME NEW f, NEW S \in SUBSET Nat, f \in [S -> Fragment], IsFiniteSet(S),
         NEW seq \in Nat, NEW frag \in Fragment
  PROVE  /\ Put(f, seq, frag) \in [S \cup {seq} -> Fragment]
         /\ DOMAIN Put(f, seq, frag) = S \cup {seq}
         /\ S \cup {seq} \in SUBSET Nat
         /\ IsFiniteSet(S \cup {seq})
<1>1. DOMAIN f = S
  OBVIOUS
<1>2. IsFiniteSet(S \cup {seq})
  BY FS_AddElement
<1>3. QED BY <1>1, <1>2 DEF Put

\* add_packet keeps the buffer well typed.
LEMMA AddPacketType ==
  ASSUME NEW b, IsReorderBuffer(b), NEW seq \in Nat, NEW frag \in Fragment
  PROVE  IsReorderBuffer(AddPacket(b, seq, frag))
<1> DEFINE a == AddPacket(b, seq, frag)
           Rec(f, x, t, d, r, o) ==
             [buffer |-> f, expected |-> x, total |-> t,
              duplicate |-> d, dropped |-> r, outOfOrder |-> o]
<1>1. /\ b = Rec(b.buffer, b.expected, b.total, b.duplicate, b.dropped, b.outOfOrder)
      /\ b.buffer \in [Buffered(b) -> Fragment]
      /\ Buffered(b) \in SUBSET Nat /\ IsFiniteSet(Buffered(b))
  BY BufferFields
<1>2. /\ b.expected \in Nat /\ b.total + 1 \in Nat /\ b.duplicate \in Nat
      /\ b.dropped \in Nat /\ b.outOfOrder \in Nat
      /\ b.duplicate + 1 \in Nat /\ b.dropped + 1 \in Nat /\ b.outOfOrder + 1 \in Nat
  BY BufferFields
<1>3. CASE a = [b EXCEPT !.total = @ + 1, !.duplicate = @ + 1]
  <2>1. a = Rec(b.buffer, b.expected, b.total + 1, b.duplicate + 1, b.dropped, b.outOfOrder)
    BY <1>1, <1>3
  <2>2. QED BY <1>1, <1>2, <2>1, BufferRecord
<1>4. CASE a = [b EXCEPT !.total = @ + 1, !.dropped = @ + 1]
  <2>1. a = Rec(b.buffer, b.expected, b.total + 1, b.duplicate, b.dropped + 1, b.outOfOrder)
    BY <1>1, <1>4
  <2>2. QED BY <1>1, <1>2, <2>1, BufferRecord
<1>5. CASE a = [b EXCEPT !.total = @ + 1, !.outOfOrder = @ + 1]
  <2>1. a = Rec(b.buffer, b.expected, b.total + 1, b.duplicate, b.dropped, b.outOfOrder + 1)
    BY <1>1, <1>5
  <2>2. QED BY <1>1, <1>2, <2>1, BufferRecord
<1>6. CASE a = [b EXCEPT !.total = @ + 1, !.expected = Anchor(b, seq),
                         !.buffer = Put(b.buffer, seq, frag)]
  <2>1. Anchor(b, seq) \in Nat
    BY <1>2 DEF Anchor
  <2>2. /\ Put(b.buffer, seq, frag) \in [Buffered(b) \cup {seq} -> Fragment]
        /\ Buffered(b) \cup {seq} \in SUBSET Nat
        /\ IsFiniteSet(Buffered(b) \cup {seq})
    BY <1>1, PutMap
  <2>3. a = Rec(Put(b.buffer, seq, frag), Anchor(b, seq), b.total + 1,
                b.duplicate, b.dropped, b.outOfOrder)
    BY <1>1, <1>6
  <2>4. QED BY <1>2, <2>1, <2>2, <2>3, BufferRecord
<1>7. QED BY <1>3, <1>4, <1>5, <1>6, AddPacketCases

\* What the drain loop leaves behind: the numbers before e are gone, the rest
\* is untouched, and e - expected fragments were removed.
LEMMA DrainResult ==
  ASSUME NEW b, IsReorderBuffer(b), NEW e \in DrainEnds(b), StopsAt(b, e)
  PROVE  /\ e \in Nat /\ e >= b.expected
         /\ IsReorderBuffer(Drain(b, e))
         /\ Drain(b, e).expected = e
         /\ Buffered(Drain(b, e)) = Buffered(b) \ (b.expected .. (e - 1))
         /\ Cardinality(Buffered(Drain(b, e)))
              = Cardinality(Buffered(b)) - (e - b.expected)
         /\ Cardinality(Overdue(b, e)) \in 0 .. (e - b.expected)
         /\ Drain(b, e).dropped = b.dropped + Cardinality(Overdue(b, e))
         /\ Drain(b, e).total = b.total
         /\ Drain(b, e).duplicate = b.duplicate
         /\ Drain(b, e).outOfOrder = b.outOfOrder
<1> DEFINE run == b.expected .. (e - 1)
           rest == Buffered(b) \ run
<1>1. IsFiniteSet(Buffered(b)) /\ Cardinality(Buffered(b)) \in Nat
  BY BufferFields
<1>2. b.expected \in Nat /\ e \in Nat /\ e >= b.expected
  <2>1. b.expected \in Nat
    BY BufferFields
  <2>2. e \in b.expected .. (b.expected + Cardinality(Buffered(b)))
    BY DEF DrainEnds
  <2>3. QED BY <1>1, <2>1, <2>2
<1>3. IsFiniteSet(run) /\ Cardinality(run) = e - b.expected
  <2>1. b.expected \in Int /\ e - 1 \in Int
    BY <1>2
  <2>2. /\ IsFiniteSet(run)
        /\ Cardinality(run) = IF b.expected > e - 1 THEN 0 ELSE (e - 1) - b.expected + 1
    BY <2>1, FS_Interval
  <2>3. QED BY <1>2, <2>2
<1>4. IsFiniteSet(Overdue(b, e)) /\ Cardinality(Overdue(b, e)) \in 0 .. (e - b.expected)
  <2>1. Overdue(b, e) \subseteq run
    BY DEF Overdue
  <2>2. IsFiniteSet(Overdue(b, e)) /\ Cardinality(Overdue(b, e)) <= Cardinality(run)
    BY <1>3, <2>1, FS_Subset
  <2>3. Cardinality(Overdue(b, e)) \in Nat
    BY <2>2, FS_CardinalityType
  <2>4. QED BY <1>2, <1>3, <2>2, <2>3
<1>5. run \subseteq Buffered(b)
  BY DEF StopsAt
<1>6. IsFiniteSet(rest) /\ Cardinality(rest) = Cardinality(Buffered(b)) - (e - b.expected)
  <2>1. Buffered(b) \cap run = run
    BY <1>5
  <2>2. /\ IsFiniteSet(rest)
        /\ Cardinality(rest) = Cardinality(Buffered(b)) - Cardinality(Buffered(b) \cap run)
    BY <1>1, FS_Difference
  <2>3. QED BY <1>3, <2>1, <2>2
<1>7. /\ Restrict(b.buffer, rest) \in [rest -> Fragment]
      /\ DOMAIN Restrict(b.buffer, rest) = rest
      /\ rest \subseteq Nat
  BY BufferFields DEF Restrict
<1>8. Drain(b, e) = [buffer |-> Restrict(b.buffer, rest), expected |-> e,
                     total |-> b.total, duplicate |-> b.duplicate,
                     dropped |-> b.dropped + Cardinality(Overdue(b, e)),
                     outOfOrder |-> b.outOfOrder]
  <2>1. b = [buffer |-> b.buffer, expected |-> b.expected,
             total |-> b.total, duplicate |-> b.duplicate,
             dropped |-> b.dropped, outOfOrder |-> b.outOfOrder]
    BY BufferFields
  <2>2. ASSUME NEW a, a = Drain(b, e)
        PROVE  a = [buffer |-> Restrict(b.buffer, rest), expected |-> e,
                    total |-> b.total, duplicate |-> b.duplicate,
                    dropped |-> b.dropped + Cardinality(Overdue(b, e)),
                    outOfOrder |-> b.outOfOrder]
    BY <2>1, <2>2 DEF Drain
  <2>3. QED BY <2>2
<1> HIDE DEF rest, run
<1>9. IsReorderBuffer(Drain(b, e))
  <2>1. b.dropped + Cardinality(Overdue(b, e)) \in Nat
    BY <1>2, <1>4, BufferFields
  <2>2. b.total \in Nat /\ b.duplicate \in Nat /\ b.outOfOrder \in Nat
    BY BufferFields
  <2> DEFINE f == Restrict(b.buffer, rest)
             r == b.dropped + Cardinality(Overdue(b, e))
  <2>3. /\ rest \in SUBSET Nat /\ IsFiniteSet(rest) /\ f \in [rest -> Fragment]
        /\ e \in Nat /\ r \in Nat
    BY <1>2, <1>6, <1>7, <2>1
  <2>4. Drain(b, e) = [buffer |-> f, expected |-> e, total |-> b.total,
                       duplicate |-> b.duplicate, dropped |-> r,
                       outOfOrder |-> b.outOfOrder]
    BY <1>8
  <2> HIDE DEF f, r
  <2>5. IsReorderBuffer([buffer |-> f, expected |-> e, total |-> b.total,
                         duplicate |-> b.duplicate, dropped |-> r,
                         outOfOrder |-> b.outOfOrder])
    BY <2>2, <2>3, BufferRecord
  <2>6. QED BY <2>4, <2>5
<1>10. Buffered(Drain(b, e)) = rest
  BY <1>7, <1>8 DEF Buffered
<1>11. Buffered(Drain(b, e)) = Buffered(b) \ (b.expected .. (e - 1))
  BY <1>10 DEF rest, run
<1>12. /\ Drain(b, e).expected = e
       /\ Drain(b, e).dropped = b.dropped + Cardinality(Overdue(b, e))
       /\ Drain(b, e).total = b.total
       /\ Drain(b, e).duplicate = b.duplicate
       /\ Drain(b, e).outOfOrder = b.outOfOrder
  BY <1>8
<1>13. Cardinality(Buffered(Drain(b, e))) = Cardinality(Buffered(b)) - (e - b.expected)
  BY <1>6, <1>10
<1>14. QED BY <1>2, <1>4, <1>9, <1>11, <1>12, <1>13

\* Time changes ages only.
LEMMA BufferAgeResult ==
  ASSUME NEW b, IsReorderBuffer(b)
  PROVE  /\ IsReorderBuffer(AgeBuffer(b))
         /\ Buffered(AgeBuffer(b)) = Buffered(b)
         /\ AgeBuffer(b).expected = b.expected
         /\ AgeBuffer(b).total = b.total
         /\ AgeBuffer(b).duplicate = b.duplicate
         /\ AgeBuffer(b).dropped = b.dropped
         /\ AgeBuffer(b).outOfOrder = b.outOfOrder
<1> DEFINE older == [s \in Buffered(b) |-> Older(b.buffer[s])]
<1>1. /\ b = [buffer |-> b.buffer, expected |-> b.expected,
              total |-> b.total, duplicate |-> b.duplicate,
              dropped |-> b.dropped, outOfOrder |-> b.outOfOrder]
      /\ b.buffer \in [Buffered(b) -> Fragment]
      /\ Buffered(b) \in SUBSET Nat /\ IsFiniteSet(Buffered(b))
  BY BufferFields
<1>2. /\ b.expected \in Nat /\ b.total \in Nat /\ b.duplicate \in Nat
      /\ b.dropped \in Nat /\ b.outOfOrder \in Nat
  BY BufferFields
<1>3. \A f \in Fragment : Older(f) \in Fragment
  <2>1. MaxAge \in Nat
    BY ReorderConfigAssumption DEF MaxAge
  <2>2. QED BY <2>1 DEF Older, Fragment
<1>4. older \in [Buffered(b) -> Fragment] /\ DOMAIN older = Buffered(b)
  BY <1>1, <1>3
<1>5. AgeBuffer(b) = [buffer |-> older, expected |-> b.expected,
                      total |-> b.total, duplicate |-> b.duplicate,
                      dropped |-> b.dropped, outOfOrder |-> b.outOfOrder]
  BY <1>1 DEF AgeBuffer
<1>6. IsReorderBuffer(AgeBuffer(b))
  BY <1>1, <1>2, <1>4, <1>5, BufferRecord
<1>7. QED BY <1>4, <1>5, <1>6 DEF Buffered

\* A packet that is not stored leaves map and cursor alone; a stored one adds
\* its own number, which was free and is not behind the new cursor.
LEMMA AddPacketEffect ==
  ASSUME NEW b, IsReorderBuffer(b), NEW seq \in Nat, NEW frag \in Fragment
  PROVE  LET a == AddPacket(b, seq, frag) IN
         /\ a.total = b.total + 1
         /\ \/ /\ Buffered(a) = Buffered(b)
               /\ a.expected = b.expected
               /\ a.duplicate + a.dropped + a.outOfOrder
                    = b.duplicate + b.dropped + b.outOfOrder + 1
            \/ /\ seq \notin Buffered(b)
               /\ Buffered(a) = Buffered(b) \cup {seq}
               /\ a.expected = Anchor(b, seq)
               /\ seq >= Anchor(b, seq)
               /\ a.duplicate = b.duplicate
               /\ a.dropped = b.dropped
               /\ a.outOfOrder = b.outOfOrder
<1> DEFINE a == AddPacket(b, seq, frag)
<1>1. b = [buffer |-> b.buffer, expected |-> b.expected,
           total |-> b.total, duplicate |-> b.duplicate,
           dropped |-> b.dropped, outOfOrder |-> b.outOfOrder]
  BY BufferFields
<1>2. b.duplicate \in Nat /\ b.dropped \in Nat /\ b.outOfOrder \in Nat
  BY BufferFields
<1>3. CASE a = [b EXCEPT !.total = @ + 1, !.duplicate = @ + 1]
  <2>1. /\ a.buffer = b.buffer /\ a.expected = b.expected /\ a.total = b.total + 1
        /\ a.duplicate = b.duplicate + 1 /\ a.dropped = b.dropped
        /\ a.outOfOrder = b.outOfOrder
    BY <1>1, <1>3
  <2>2. QED BY <1>2, <2>1 DEF Buffered
<1>4. CASE a = [b EXCEPT !.total = @ + 1, !.dropped = @ + 1]
  <2>1. /\ a.buffer = b.buffer /\ a.expected = b.expected /\ a.total = b.total + 1
        /\ a.duplicate = b.duplicate /\ a.dropped = b.dropped + 1
        /\ a.outOfOrder = b.outOfOrder
    BY <1>1, <1>4
  <2>2. QED BY <1>2, <2>1 DEF Buffered
<1>5. CASE a = [b EXCEPT !.total = @ + 1, !.outOfOrder = @ + 1]
  <2>1. /\ a.buffer = b.buffer /\ a.expected = b.expected /\ a.total = b.total + 1
        /\ a.duplicate = b.duplicate /\ a.dropped = b.dropped
        /\ a.outOfOrder = b.outOfOrder + 1
    BY <1>1, <1>5
  <2>2. QED BY <1>2, <2>1 DEF Buffered
<1>6. CASE /\ seq \notin Buffered(b)
           /\ seq >= Anchor(b, seq)
           /\ a = [b EXCEPT !.total = @ + 1, !.expected = Anchor(b, seq),
                            !.buffer = Put(b.buffer, seq, frag)]
  <2>1. /\ a.buffer = Put(b.buffer, seq, frag) /\ a.expected = Anchor(b, seq)
        /\ a.total = b.total + 1 /\ a.duplicate = b.duplicate
        /\ a.dropped = b.dropped /\ a.outOfOrder = b.outOfOrder
    BY <1>1, <1>6
  <2>2. DOMAIN Put(b.buffer, seq, frag) = Buffered(b) \cup {seq}
    BY DEF Put, Buffered
  <2>3. QED BY <1>6, <2>1, <2>2 DEF Buffered
<1>7. QED BY <1>3, <1>4, <1>5, <1>6, AddPacketCases

\* clear() empties the map and keeps the counters.
LEMMA ClearResult ==
  ASSUME NEW b, IsReorderBuffer(b)
  PROVE  /\ IsReorderBuffer(ClearBuffer(b))
         /\ Buffered(ClearBuffer(b)) = {}
         /\ ClearBuffer(b).expected = 0
         /\ ClearBuffer(b).total = b.total
         /\ ClearBuffer(b).duplicate = b.duplicate
         /\ ClearBuffer(b).dropped = b.dropped
         /\ ClearBuffer(b).outOfOrder = b.outOfOrder
<1> DEFINE none == [s \in {} |-> 0]
<1>1. b = [buffer |-> b.buffer, expected |-> b.expected,
           total |-> b.total, duplicate |-> b.duplicate,
           dropped |-> b.dropped, outOfOrder |-> b.outOfOrder]
  BY BufferFields
<1>2. /\ b.total \in Nat /\ b.duplicate \in Nat
      /\ b.dropped \in Nat /\ b.outOfOrder \in Nat
  BY BufferFields
<1>3. none \in [{} -> Fragment] /\ DOMAIN none = {} /\ IsFiniteSet({})
  BY FS_EmptySet
<1>4. ASSUME NEW a, a = ClearBuffer(b)
      PROVE  a = [buffer |-> none, expected |-> 0, total |-> b.total,
                  duplicate |-> b.duplicate, dropped |-> b.dropped,
                  outOfOrder |-> b.outOfOrder]
  BY <1>1, <1>4 DEF ClearBuffer
<1>5. ClearBuffer(b) = [buffer |-> none, expected |-> 0, total |-> b.total,
                        duplicate |-> b.duplicate, dropped |-> b.dropped,
                        outOfOrder |-> b.outOfOrder]
  BY <1>4
<1> HIDE DEF none
<1>6. IsReorderBuffer(ClearBuffer(b))
  <2>1. \A t, d, r, o \in Nat :
          IsReorderBuffer([buffer |-> none, expected |-> 0, total |-> t,
                           duplicate |-> d, dropped |-> r, outOfOrder |-> o])
    BY <1>3, BufferRecord
  <2>2. QED BY <1>2, <1>5, <2>1
<1>7. QED BY <1>3, <1>5, <1>6 DEF Buffered

-----------------------------------------------------------------------------
\* The inductive invariant: well typed, nothing stranded behind the cursor,
\* everything delivered behind it, and every packet accounted for.
ReorderIInv == ReorderTypeOK /\ NoStranded /\ DeliveredBehind /\ Accounting

\* The invariant holds of a freshly constructed buffer.
LEMMA ReorderInitIInv == ReorderInit => ReorderIInv
<1> SUFFICES ASSUME ReorderInit PROVE ReorderIInv
  OBVIOUS
<1> DEFINE none == [s \in {} |-> 0]
<1>1. rb = [buffer |-> none, expected |-> 0, total |-> 0, duplicate |-> 0,
            dropped |-> 0, outOfOrder |-> 0]
  BY DEF ReorderInit, NewReorderBuffer
<1>2. none \in [{} -> Fragment] /\ DOMAIN none = {} /\ IsFiniteSet({})
  BY FS_EmptySet
<1> HIDE DEF none
<1>3. IsReorderBuffer(rb)
  BY <1>1, <1>2, BufferRecord
<1>4. Buffered(rb) = {} /\ Cardinality(Buffered(rb)) = 0
  BY <1>1, <1>2, FS_EmptySet DEF Buffered
<1>5. delivered = {} /\ uncounted = 0
  BY DEF ReorderInit
<1>6. ReorderTypeOK
  BY <1>3, <1>5 DEF ReorderTypeOK
<1>7. NoStranded /\ DeliveredBehind
  BY <1>4, <1>5 DEF NoStranded, DeliveredBehind
<1>8. Accounting
  BY <1>1, <1>4, <1>5 DEF Accounting
<1>9. QED BY <1>6, <1>7, <1>8 DEF ReorderIInv

\* add_packet preserves the invariant.
LEMMA ReorderAddIInv ==
  ASSUME ReorderIInv, NEW seq \in SeqNums, NEW shape \in Shapes, NEW key \in BOOLEAN,
         ReorderAdd(seq, shape, key)
  PROVE  ReorderIInv'
<1> DEFINE frag == [size |-> shape.size, sync |-> shape.sync, key |-> key, age |-> 0]
<1>1. seq \in Nat /\ frag \in Fragment
  <2>1. MaxAge \in Nat
    BY ReorderConfigAssumption DEF MaxAge
  <2>2. shape \in [size : Nat, sync : Nat] /\ seq \in Nat
    BY WorkloadAssumption
  <2>3. QED BY <2>1, <2>2 DEF Fragment
<1>2. rb' = AddPacket(rb, seq, frag) /\ UNCHANGED <<delivered, uncounted>>
  BY DEF ReorderAdd
<1> HIDE DEF frag
<1>3. IsReorderBuffer(rb)
  BY DEF ReorderIInv, ReorderTypeOK
<1>4. IsReorderBuffer(rb')
  BY <1>1, <1>2, <1>3, AddPacketType
<1>5. ReorderTypeOK'
  BY <1>2, <1>4 DEF ReorderIInv, ReorderTypeOK
<1>6. /\ rb'.total = rb.total + 1
      /\ \/ /\ Buffered(rb') = Buffered(rb)
            /\ rb'.expected = rb.expected
            /\ rb'.duplicate + rb'.dropped + rb'.outOfOrder
                 = rb.duplicate + rb.dropped + rb.outOfOrder + 1
         \/ /\ seq \notin Buffered(rb)
            /\ Buffered(rb') = Buffered(rb) \cup {seq}
            /\ rb'.expected = Anchor(rb, seq)
            /\ seq >= Anchor(rb, seq)
            /\ rb'.duplicate = rb.duplicate
            /\ rb'.dropped = rb.dropped
            /\ rb'.outOfOrder = rb.outOfOrder
  BY <1>1, <1>2, <1>3, AddPacketEffect
<1>7. /\ rb.expected \in Nat /\ rb.total \in Nat /\ rb.duplicate \in Nat
      /\ rb.dropped \in Nat /\ rb.outOfOrder \in Nat
      /\ IsFiniteSet(Buffered(rb)) /\ Cardinality(Buffered(rb)) \in Nat
      /\ Buffered(rb) \subseteq Nat
      /\ rb'.duplicate \in Nat /\ rb'.dropped \in Nat /\ rb'.outOfOrder \in Nat
  BY <1>3, <1>4, BufferFields
<1>8. delivered \subseteq Nat /\ uncounted \in Nat
  BY DEF ReorderIInv, ReorderTypeOK
<1>9. NoStranded'
  BY <1>1, <1>6, <1>7 DEF ReorderIInv, NoStranded, Anchor
<1>10. DeliveredBehind'
  BY <1>1, <1>2, <1>6, <1>7, <1>8 DEF ReorderIInv, DeliveredBehind, Anchor
<1>11. Accounting'
  <2>1. rb.total = rb.duplicate + rb.dropped + rb.outOfOrder + uncounted
                     + Cardinality(Buffered(rb))
    BY DEF ReorderIInv, Accounting
  <2>2. seq \notin Buffered(rb) =>
          Cardinality(Buffered(rb) \cup {seq}) = Cardinality(Buffered(rb)) + 1
    BY <1>7, FS_AddElement
  <2>3. rb'.total = rb'.duplicate + rb'.dropped + rb'.outOfOrder + uncounted'
                      + Cardinality(Buffered(rb'))
    <3>1. CASE /\ Buffered(rb') = Buffered(rb)
               /\ rb'.duplicate + rb'.dropped + rb'.outOfOrder
                    = rb.duplicate + rb.dropped + rb.outOfOrder + 1
      BY <1>2, <1>6, <1>7, <1>8, <2>1, <3>1
    <3>2. CASE /\ seq \notin Buffered(rb)
               /\ Buffered(rb') = Buffered(rb) \cup {seq}
               /\ rb'.duplicate = rb.duplicate
               /\ rb'.dropped = rb.dropped
               /\ rb'.outOfOrder = rb.outOfOrder
      BY <1>2, <1>6, <1>7, <1>8, <2>1, <2>2, <3>2
    <3>3. QED BY <1>6, <3>1, <3>2
  <2>4. QED BY <2>3 DEF Accounting, Buffered
<1>12. QED BY <1>5, <1>9, <1>10, <1>11 DEF ReorderIInv

\* get_ordered_packets preserves the invariant: what it hands out lies between
\* the old cursor and the new one.
LEMMA GetOrderedIInv ==
  ASSUME ReorderIInv, GetOrdered
  PROVE  ReorderIInv'
<1>1. PICK e \in DrainEnds(rb) :
        /\ StopsAt(rb, e)
        /\ rb' = Drain(rb, e)
        /\ delivered' = delivered \cup Handed(rb, e)
        /\ uncounted' = uncounted + (e - rb.expected) - Cardinality(Overdue(rb, e))
  BY DEF GetOrdered
<1>2. IsReorderBuffer(rb) /\ delivered \subseteq Nat /\ uncounted \in Nat
  BY DEF ReorderIInv, ReorderTypeOK
<1>3. /\ rb.expected \in Nat /\ rb.total \in Nat /\ rb.duplicate \in Nat
      /\ rb.dropped \in Nat /\ rb.outOfOrder \in Nat
      /\ Buffered(rb) \subseteq Nat
      /\ Cardinality(Buffered(rb)) \in Nat
  BY <1>2, BufferFields
<1>4. /\ e \in Nat /\ e >= rb.expected
      /\ IsReorderBuffer(rb')
      /\ rb'.expected = e
      /\ Buffered(rb') = Buffered(rb) \ (rb.expected .. (e - 1))
      /\ Cardinality(Buffered(rb')) = Cardinality(Buffered(rb)) - (e - rb.expected)
      /\ Cardinality(Overdue(rb, e)) \in 0 .. (e - rb.expected)
      /\ rb'.dropped = rb.dropped + Cardinality(Overdue(rb, e))
      /\ rb'.total = rb.total
      /\ rb'.duplicate = rb.duplicate
      /\ rb'.outOfOrder = rb.outOfOrder
  BY <1>1, <1>2, DrainResult
<1>5. Handed(rb, e) \subseteq rb.expected .. (e - 1)
  BY DEF Handed
<1>6. delivered' \subseteq Nat /\ uncounted' \in Nat
  <2>1. Handed(rb, e) \subseteq Nat
    BY <1>3, <1>4, <1>5
  <2>2. delivered' \subseteq Nat
    BY <1>1, <1>2, <2>1
  <2>3. Cardinality(Overdue(rb, e)) \in Nat /\ Cardinality(Overdue(rb, e)) <= e - rb.expected
    BY <1>3, <1>4
  <2>4. uncounted' \in Nat
    BY <1>1, <1>2, <1>3, <1>4, <2>3
  <2>5. QED BY <2>2, <2>4
<1>7. ReorderTypeOK'
  BY <1>4, <1>6 DEF ReorderTypeOK
<1>8. NoStranded'
  <2>1. \A s \in Buffered(rb) : s \in Nat /\ s >= rb.expected
    BY <1>3 DEF ReorderIInv, NoStranded
  <2>2. \A s \in Buffered(rb') : s >= rb'.expected
    BY <1>3, <1>4, <2>1
  <2>3. QED BY <2>2 DEF NoStranded, Buffered
<1>9. DeliveredBehind'
  <2>1. \A s \in delivered : s \in Nat /\ s < rb.expected
    BY <1>2 DEF ReorderIInv, DeliveredBehind
  <2>2. \A s \in Handed(rb, e) : s < e
    BY <1>3, <1>4, <1>5
  <2>3. \A s \in delivered' : s < rb'.expected
    BY <1>1, <1>3, <1>4, <2>1, <2>2
  <2>4. QED BY <2>3 DEF DeliveredBehind
<1>10. Accounting'
  <2>1. rb.total = rb.duplicate + rb.dropped + rb.outOfOrder + uncounted
                     + Cardinality(Buffered(rb))
    BY DEF ReorderIInv, Accounting
  <2>2. Cardinality(Overdue(rb, e)) \in Nat
    BY <1>3, <1>4
  <2>3. rb'.total = rb'.duplicate + rb'.dropped + rb'.outOfOrder + uncounted'
                      + Cardinality(Buffered(rb'))
    BY <1>1, <1>2, <1>3, <1>4, <2>1, <2>2
  <2>4. QED BY <2>3 DEF Accounting, Buffered
<1>11. QED BY <1>7, <1>8, <1>9, <1>10 DEF ReorderIInv

\* clear() preserves the invariant.
LEMMA ClearIInv ==
  ASSUME ReorderIInv, Clear
  PROVE  ReorderIInv'
<1>1. /\ rb' = ClearBuffer(rb) /\ delivered' = {}
      /\ uncounted' = uncounted + Cardinality(Buffered(rb))
  BY DEF Clear
<1>2. IsReorderBuffer(rb) /\ uncounted \in Nat
  BY DEF ReorderIInv, ReorderTypeOK
<1>3. /\ Cardinality(Buffered(rb)) \in Nat /\ rb.duplicate \in Nat
      /\ rb.dropped \in Nat /\ rb.outOfOrder \in Nat /\ rb.total \in Nat
  BY <1>2, BufferFields
<1>4. /\ IsReorderBuffer(rb') /\ Buffered(rb') = {} /\ rb'.expected = 0
      /\ rb'.total = rb.total /\ rb'.duplicate = rb.duplicate
      /\ rb'.dropped = rb.dropped /\ rb'.outOfOrder = rb.outOfOrder
  BY <1>1, <1>2, ClearResult
<1>5. ReorderTypeOK'
  BY <1>1, <1>2, <1>3, <1>4 DEF ReorderTypeOK
<1>6. NoStranded' /\ DeliveredBehind'
  BY <1>1, <1>4 DEF NoStranded, DeliveredBehind, Buffered
<1>7. Accounting'
  <2>1. rb.total = rb.duplicate + rb.dropped + rb.outOfOrder + uncounted
                     + Cardinality(Buffered(rb))
    BY DEF ReorderIInv, Accounting
  <2>2. Cardinality(Buffered(rb')) = 0
    BY <1>4, FS_EmptySet
  <2>3. rb'.total = rb'.duplicate + rb'.dropped + rb'.outOfOrder + uncounted'
                      + Cardinality(Buffered(rb'))
    BY <1>1, <1>2, <1>3, <1>4, <2>1, <2>2
  <2>4. QED BY <2>3 DEF Accounting, Buffered
<1>8. QED BY <1>5, <1>6, <1>7 DEF ReorderIInv

\* Time passing preserves the invariant.
LEMMA ReorderTickIInv ==
  ASSUME ReorderIInv, ReorderTick
  PROVE  ReorderIInv'
<1>1. rb' = AgeBuffer(rb) /\ UNCHANGED <<delivered, uncounted>>
  BY DEF ReorderTick
<1>2. IsReorderBuffer(rb)
  BY DEF ReorderIInv, ReorderTypeOK
<1>3. /\ IsReorderBuffer(rb') /\ Buffered(rb') = Buffered(rb)
      /\ rb'.expected = rb.expected /\ rb'.total = rb.total
      /\ rb'.duplicate = rb.duplicate /\ rb'.dropped = rb.dropped
      /\ rb'.outOfOrder = rb.outOfOrder
  BY <1>1, <1>2, BufferAgeResult
<1>4. ReorderTypeOK'
  BY <1>1, <1>3 DEF ReorderIInv, ReorderTypeOK
<1>5. NoStranded' /\ DeliveredBehind'
  BY <1>1, <1>3 DEF ReorderIInv, NoStranded, DeliveredBehind
<1>6. Accounting'
  BY <1>1, <1>3 DEF ReorderIInv, Accounting
<1>7. QED BY <1>4, <1>5, <1>6 DEF ReorderIInv

\* Every step of the specification preserves the invariant.
LEMMA ReorderNextIInv == ReorderIInv /\ [ReorderNext]_reorderVars => ReorderIInv'
<1> SUFFICES ASSUME ReorderIInv, [ReorderNext]_reorderVars PROVE ReorderIInv'
  OBVIOUS
<1>1. ASSUME NEW seq \in SeqNums, NEW shape \in Shapes, NEW key \in BOOLEAN,
             ReorderAdd(seq, shape, key)
      PROVE  ReorderIInv'
  BY <1>1, ReorderAddIInv
<1>2. CASE GetOrdered
  BY <1>2, GetOrderedIInv
<1>3. CASE Clear
  BY <1>3, ClearIInv
<1>4. CASE ReorderTick
  BY <1>4, ReorderTickIInv
<1>5. CASE UNCHANGED reorderVars
  BY <1>5 DEF reorderVars, ReorderIInv, ReorderTypeOK, NoStranded, DeliveredBehind, Accounting
<1>6. QED BY <1>1, <1>2, <1>3, <1>4, <1>5 DEF ReorderNext

\* The inductive invariant is an invariant of the specification.
LEMMA ReorderSpecIInv == ReorderSpec => []ReorderIInv
<1>1. QED BY ReorderInitIInv, ReorderNextIInv, PTL DEF ReorderSpec

\* The members of the reorder buffer keep their types in every behaviour.
THEOREM ReorderTypeCorrect == ReorderSpec => []ReorderTypeOK
<1>1. ReorderIInv => ReorderTypeOK
  BY DEF ReorderIInv
<1>2. QED BY <1>1, ReorderSpecIInv, PTL

\* get_ordered_packets never leaves a fragment behind expected_sequence_, for
\* any window, limit and arrival order.
THEOREM NothingStranded == ReorderSpec => []NoStranded
<1>1. ReorderIInv => NoStranded
  BY DEF ReorderIInv
<1>2. QED BY <1>1, ReorderSpecIInv, PTL

\* Every packet given to add_packet is accounted for exactly once.
THEOREM PacketsAccounted == ReorderSpec => []Accounting
<1>1. ReorderIInv => Accounting
  BY DEF ReorderIInv
<1>2. QED BY <1>1, ReorderSpecIInv, PTL

\* get_ordered_packets hands numbers out in ascending order across calls.
THEOREM DeliversInOrder == ReorderSpec => InOrder
<1> DEFINE Ascends == \A s \in delivered' \ delivered : \A t \in delivered : t < s
<1>1. ASSUME ReorderIInv, ReorderNext
      PROVE  Ascends
  <2>1. ASSUME NEW seq \in SeqNums, NEW shape \in Shapes, NEW key \in BOOLEAN,
               ReorderAdd(seq, shape, key)
        PROVE  Ascends
    BY <2>1 DEF ReorderAdd
  <2>2. CASE GetOrdered
    <3>1. PICK e \in DrainEnds(rb) : delivered' = delivered \cup Handed(rb, e)
      BY <2>2 DEF GetOrdered
    <3>2. IsReorderBuffer(rb) /\ delivered \subseteq Nat
      BY <1>1 DEF ReorderIInv, ReorderTypeOK
    <3>3. rb.expected \in Nat /\ Cardinality(Buffered(rb)) \in Nat
      BY <3>2, BufferFields
    <3>4. e \in Nat
      BY <3>3 DEF DrainEnds
    <3>5. \A s \in Handed(rb, e) : s \in Nat /\ s >= rb.expected
      BY <3>3, <3>4 DEF Handed
    <3>6. \A t \in delivered : t \in Nat /\ t < rb.expected
      BY <1>1, <3>2 DEF ReorderIInv, DeliveredBehind
    <3>7. QED BY <3>1, <3>3, <3>5, <3>6
  <2>3. CASE Clear
    BY <2>3 DEF Clear
  <2>4. CASE ReorderTick
    BY <2>4 DEF ReorderTick
  <2>5. QED BY <1>1, <2>1, <2>2, <2>3, <2>4 DEF ReorderNext
<1>2. ReorderIInv /\ [ReorderNext]_reorderVars => [Ascends]_reorderVars
  BY <1>1
<1>3. QED BY <1>2, ReorderSpecIInv, PTL DEF ReorderSpec, InOrder

\* The reorder buffer implements OrderedDelivery: its initial state is the
\* abstract one, add_packet moves the cursor only by anchoring a fresh one,
\* get_ordered_packets advances it over what it hands out, clear() resets.
THEOREM ReorderImplements == ReorderSpec => ImplementsOrderedDelivery
<1>1. ReorderInit => Abstract!Init
  BY DEF ReorderInit, Abstract!Init, NewReorderBuffer
<1>2. ASSUME ReorderIInv, [ReorderNext]_reorderVars
      PROVE  [Abstract!Next]_(Abstract!absVars)
  <2>1. IsReorderBuffer(rb) /\ delivered \subseteq Nat
    BY <1>2 DEF ReorderIInv, ReorderTypeOK
  <2>2. rb.expected \in Nat /\ Cardinality(Buffered(rb)) \in Nat
    BY <2>1, BufferFields
  <2>3. ASSUME NEW seq \in SeqNums, NEW shape \in Shapes, NEW key \in BOOLEAN,
               ReorderAdd(seq, shape, key)
        PROVE  [Abstract!Next]_(Abstract!absVars)
    <3> DEFINE frag == [size |-> shape.size, sync |-> shape.sync, key |-> key, age |-> 0]
    <3>1. seq \in Nat /\ frag \in Fragment
      <4>1. MaxAge \in Nat
        BY ReorderConfigAssumption DEF MaxAge
      <4>2. shape \in [size : Nat, sync : Nat] /\ seq \in Nat
        BY WorkloadAssumption
      <4>3. QED BY <4>1, <4>2 DEF Fragment
    <3>2. rb' = AddPacket(rb, seq, frag) /\ UNCHANGED delivered
      BY <2>3 DEF ReorderAdd
    <3> HIDE DEF frag
    <3>3. rb'.expected = rb.expected \/ rb'.expected = Anchor(rb, seq)
      BY <2>1, <3>1, <3>2, AddPacketEffect
    <3>4. rb'.expected = rb.expected \/ (rb.expected = 0 /\ rb'.expected \in Nat)
      BY <3>1, <3>3 DEF Anchor
    <3>5. QED BY <3>2, <3>4 DEF Abstract!Next, Abstract!Start, Abstract!absVars
  <2>4. CASE GetOrdered
    <3>1. PICK e \in DrainEnds(rb) :
            /\ StopsAt(rb, e)
            /\ rb' = Drain(rb, e)
            /\ delivered' = delivered \cup Handed(rb, e)
      BY <2>4 DEF GetOrdered
    <3>2. e \in Nat /\ e >= rb.expected /\ rb'.expected = e
      BY <2>1, <3>1, DrainResult
    <3>3. Handed(rb, e) \subseteq rb.expected .. (e - 1)
      BY DEF Handed
    <3>4. CASE e = rb.expected
      <4>1. Handed(rb, e) = {}
        BY <2>2, <3>3, <3>4
      <4>2. QED BY <3>1, <3>2, <3>4, <4>1 DEF Abstract!absVars
    <3>5. CASE e > rb.expected
      BY <3>1, <3>2, <3>3, <3>5 DEF Abstract!Next, Abstract!Advance
    <3>6. QED BY <2>2, <3>2, <3>4, <3>5
  <2>5. CASE Clear
    <3>1. rb'.expected = 0 /\ delivered' = {}
      BY <2>1, <2>5, ClearResult DEF Clear
    <3>2. QED BY <3>1 DEF Abstract!Next, Abstract!Reset
  <2>6. CASE ReorderTick
    <3>1. rb'.expected = rb.expected /\ delivered' = delivered
      BY <2>1, <2>6, BufferAgeResult DEF ReorderTick
    <3>2. QED BY <3>1 DEF Abstract!absVars
  <2>7. CASE UNCHANGED reorderVars
    BY <2>7 DEF reorderVars, Abstract!absVars
  <2>8. QED BY <1>2, <2>3, <2>4, <2>5, <2>6, <2>7 DEF ReorderNext
<1>3. QED
  BY <1>1, <1>2, ReorderSpecIInv, PTL DEF ReorderSpec, ImplementsOrderedDelivery, Abstract!Spec

-----------------------------------------------------------------------------
(* The bytes buffered.  get_buffer_size is a fold over the map's keys, a
   recursive function on sets; what it computes is shown by induction over the
   subsets of a finite set, from the least element of a set of numbers.      *)

\* The subset of a finite set with an element less.
LEMMA OneLess ==
  ASSUME NEW S, NEW s, NEW x, IsFiniteSet(S), s \subseteq S, x \in s
  PROVE  /\ s \ {x} \subseteq S
         /\ Cardinality(s) \in Nat /\ Cardinality(s \ {x}) \in Nat
         /\ Cardinality(s \ {x}) = Cardinality(s) - 1
<1>1. IsFiniteSet(s)
  BY FS_Subset
<1>2. IsFiniteSet(s \ {x}) /\ Cardinality(s \ {x}) = Cardinality(s) - 1
  BY <1>1, FS_RemoveElement
<1> QED BY <1>1, <1>2, FS_CardinalityType

\* Induction over the subsets of a finite set: of the bad ones, one has no bad
\* subset with an element less.
LEMMA SmallestBad ==
  ASSUME NEW S, NEW Bad, IsFiniteSet(S), Bad \subseteq SUBSET S, Bad # {}
  PROVE  \E s \in Bad : \A x \in s : s \ {x} \notin Bad
<1> DEFINE T == {Cardinality(s) : s \in Bad}
<1>1. T \subseteq Nat /\ T # {}
  <2>1. ASSUME NEW s \in Bad PROVE Cardinality(s) \in Nat
    BY FS_Subset, FS_CardinalityType
  <2> QED BY <2>1
<1>2. PICK n \in T : \A m \in T : n <= m
  BY <1>1, LeastElement
<1>3. PICK s \in Bad : n = Cardinality(s)
  BY <1>2
<1>4. ASSUME NEW x \in s, s \ {x} \in Bad PROVE FALSE
  <2>1. Cardinality(s \ {x}) \in T
    BY <1>4
  <2>2. Cardinality(s) <= Cardinality(s \ {x})
    BY <1>2, <1>3, <2>1
  <2>3. s \subseteq S
    OBVIOUS
  <2>4. Cardinality(s) \in Nat /\ Cardinality(s \ {x}) = Cardinality(s) - 1
    BY <1>4, <2>3, OneLess
  <2> QED BY <2>2, <2>4
<1> QED BY <1>4

Some(s) == CHOOSE x \in s : TRUE

\* g holds the sums of f over the subsets of S, as the fold defines them.
IsSum(g, S, f) ==
  g = [s \in SUBSET S |-> IF s = {} THEN 0 ELSE f[Some(s)] + g[s \ {Some(s)}]]

\* The same for the subsets with at most k elements.
UpTo(S, k) == {s \in SUBSET S : Cardinality(s) <= k}
PartSum(g, S, f, k) ==
  /\ g \in [UpTo(S, k) -> Nat]
  /\ \A s \in UpTo(S, k) : g[s] = IF s = {} THEN 0 ELSE f[Some(s)] + g[s \ {Some(s)}]

LEMMA SumExists ==
  ASSUME NEW S, NEW f, IsFiniteSet(S), \A x \in S : f[x] \in Nat
  PROVE  \E g : IsSum(g, S, f)
<1>1. PICK n : n = Cardinality(S)
  OBVIOUS
<1>2. n \in Nat
  BY <1>1, FS_CardinalityType
<1> DEFINE T == {k \in 0 .. n : \A g : ~PartSum(g, S, f, k)}
<1>3. ASSUME T # {} PROVE FALSE
  <2>1. PICK k \in T : \A y \in T : k <= y
    <3>1. T \in SUBSET Nat
      OBVIOUS
    <3> HIDE DEF T
    <3> QED BY <1>3, <3>1, LeastElement
  <2>2. k # 0
    <3>1. ASSUME NEW s \in UpTo(S, 0) PROVE s = {}
      <4>1. IsFiniteSet(s) /\ Cardinality(s) <= 0
        BY FS_Subset DEF UpTo
      <4>2. Cardinality(s) = 0
        BY <4>1, FS_CardinalityType
      <4> QED BY <4>1, <4>2, FS_EmptySet
    <3>2. PartSum([s \in UpTo(S, 0) |-> 0], S, f, 0)
      BY <3>1 DEF PartSum
    <3> QED BY <3>2
  <2>3. k \in 1 .. n /\ k - 1 \in 0 .. n
    BY <1>2, <2>2
  <2>4. PICK g : PartSum(g, S, f, k - 1)
    <3>1. k - 1 \notin T
      <4> HIDE DEF T
      <4> QED BY <2>1, <2>3
    <3> QED BY <2>3, <3>1
  <2>5. PICK h : h = [s \in UpTo(S, k) |-> IF s = {} THEN 0 ELSE f[Some(s)] + g[s \ {Some(s)}]]
    OBVIOUS
  <2>6. ASSUME NEW s \in UpTo(S, k), s # {}
        PROVE  f[Some(s)] \in Nat /\ s \ {Some(s)} \in UpTo(S, k - 1)
    <3>1. Some(s) \in s /\ s \subseteq S /\ Cardinality(s) <= k
      BY <2>6 DEF Some, UpTo
    <3>2. PICK x : x = Some(s)
      OBVIOUS
    <3>3. x \in s
      BY <3>1, <3>2
    <3>4. /\ s \ {x} \subseteq S /\ Cardinality(s) \in Nat
          /\ Cardinality(s \ {x}) = Cardinality(s) - 1
      BY <3>1, <3>3, OneLess
    <3>5. s \ {x} \in UpTo(S, k - 1)
      BY <2>3, <3>1, <3>4 DEF UpTo
    <3> QED BY <3>1, <3>2, <3>5
  <2>7. \A s \in UpTo(S, k - 1) :
          g[s] \in Nat /\ g[s] = IF s = {} THEN 0 ELSE f[Some(s)] + g[s \ {Some(s)}]
    BY <2>4 DEF PartSum
  <2>8. UpTo(S, k - 1) \subseteq UpTo(S, k)
    <3> SUFFICES ASSUME NEW s \in UpTo(S, k - 1) PROVE s \in UpTo(S, k)
      OBVIOUS
    <3>1. s \subseteq S /\ Cardinality(s) <= k - 1
      BY DEF UpTo
    <3>2. Cardinality(s) \in Nat
      BY <3>1, FS_Subset, FS_CardinalityType
    <3> QED BY <2>3, <3>1, <3>2 DEF UpTo
  <2>9. \A s \in UpTo(S, k - 1) : h[s] = g[s]
    BY <2>5, <2>7, <2>8
  <2>10. h \in [UpTo(S, k) -> Nat]
    <3>1. \A s \in UpTo(S, k) : (IF s = {} THEN 0 ELSE f[Some(s)] + g[s \ {Some(s)}]) \in Nat
      <4> SUFFICES ASSUME NEW s \in UpTo(S, k), s # {}
                   PROVE  f[Some(s)] + g[s \ {Some(s)}] \in Nat
        OBVIOUS
      <4>1. f[Some(s)] \in Nat /\ s \ {Some(s)} \in UpTo(S, k - 1)
        BY <2>6
      <4>2. g[s \ {Some(s)}] \in Nat
        BY <2>7, <4>1
      <4> QED BY <4>1, <4>2
    <3> QED BY <2>5, <3>1
  <2>11. ASSUME NEW s \in UpTo(S, k)
         PROVE  h[s] = IF s = {} THEN 0 ELSE f[Some(s)] + h[s \ {Some(s)}]
    <3>1. CASE s = {}
      BY <2>5, <3>1
    <3>2. CASE s # {}
      <4>1. h[s \ {Some(s)}] = g[s \ {Some(s)}]
        BY <2>6, <2>9, <3>2
      <4> QED BY <2>5, <3>2, <4>1
    <3> QED BY <3>1, <3>2
  <2>12. PartSum(h, S, f, k)
    BY <2>10, <2>11 DEF PartSum
  <2> QED BY <2>12
<1>4. PICK g : PartSum(g, S, f, n)
  <2>1. n \in 0 .. n /\ n \notin T
    <3> HIDE DEF T
    <3> QED BY <1>2, <1>3
  <2> QED BY <2>1
<1>5. UpTo(S, n) = SUBSET S
  <2> SUFFICES ASSUME NEW s \in SUBSET S PROVE Cardinality(s) <= n
    BY DEF UpTo
  <2> QED BY <1>1, FS_Subset
<1>6. g \in [SUBSET S -> Nat]
  BY <1>4, <1>5 DEF PartSum
<1>7. \A s \in SUBSET S : g[s] = IF s = {} THEN 0 ELSE f[Some(s)] + g[s \ {Some(s)}]
  BY <1>4, <1>5 DEF PartSum
<1>8. g = [s \in SUBSET S |-> IF s = {} THEN 0 ELSE f[Some(s)] + g[s \ {Some(s)}]]
  BY <1>6, <1>7
<1> QED BY <1>8 DEF IsSum

\* The value of a sum, unfolded once.
LEMMA SumOnce ==
  ASSUME NEW g, NEW S, NEW f, NEW s, IsSum(g, S, f), s \subseteq S
  PROVE  /\ s = {} => g[s] = 0
         /\ s # {} => /\ g[s] = f[Some(s)] + g[s \ {Some(s)}]
                      /\ Some(s) \in s /\ s \ {Some(s)} \subseteq S
<1>1. g[s] = IF s = {} THEN 0 ELSE f[Some(s)] + g[s \ {Some(s)}]
  BY DEF IsSum
<1>2. s # {} => Some(s) \in s
  BY DEF Some
<1> QED BY <1>1, <1>2

LEMMA SumType ==
  ASSUME NEW g, NEW S, NEW f, IsFiniteSet(S), \A x \in S : f[x] \in Nat, IsSum(g, S, f)
  PROVE  \A s \in SUBSET S : g[s] \in Nat
<1> DEFINE Bad == {s \in SUBSET S : g[s] \notin Nat}
<1> SUFFICES ASSUME Bad # {} PROVE FALSE
  OBVIOUS
<1>1. PICK s \in Bad : \A x \in s : s \ {x} \notin Bad
  <2>1. Bad \subseteq SUBSET S
    OBVIOUS
  <2> HIDE DEF Bad
  <2> QED BY <2>1, SmallestBad
<1>2. s \subseteq S /\ g[s] \notin Nat
  OBVIOUS
<1>3. s # {} /\ g[s] = f[Some(s)] + g[s \ {Some(s)}] /\ Some(s) \in s /\ s \ {Some(s)} \subseteq S
  BY <1>2, SumOnce
<1>4. s \ {Some(s)} \notin Bad
  <2> HIDE DEF Bad
  <2> QED BY <1>1, <1>3
<1>5. g[s \ {Some(s)}] \in Nat
  BY <1>3, <1>4
<1> QED BY <1>2, <1>3, <1>5

\* A sum is one of its terms and the sum of the others.
Splits(g, f, p, z) == g[p] = f[z] + g[p \ {z}]

\* It does not matter which term that is.
LEMMA SumWithout ==
  ASSUME NEW g, NEW S, NEW f, NEW p, NEW z,
         IsFiniteSet(S), \A x \in S : f[x] \in Nat, IsSum(g, S, f), p \subseteq S, z \in p
  PROVE  Splits(g, f, p, z)
<1> DEFINE Bad == {s \in SUBSET S : \E x \in s : g[s] # f[x] + g[s \ {x}]}
<1>0. ASSUME Bad # {} PROVE FALSE
  <2>1. PICK s \in Bad : \A x \in s : s \ {x} \notin Bad
    <3>1. Bad \subseteq SUBSET S
      OBVIOUS
    <3> HIDE DEF Bad
    <3> QED BY <1>0, <3>1, SmallestBad
  <2>2. PICK x \in s : g[s] # f[x] + g[s \ {x}]
    OBVIOUS
  <2>3. s \subseteq S
    OBVIOUS
  <2>4. PICK y : y = Some(s)
    OBVIOUS
  <2>5. s # {} /\ g[s] = f[y] + g[s \ {y}] /\ y \in s
    <3>1. s # {}
      BY <2>2
    <3>2. g[s] = f[Some(s)] + g[s \ {Some(s)}] /\ Some(s) \in s
      BY <2>3, <3>1, SumOnce
    <3> QED BY <2>4, <3>1, <3>2
  <2>6. x # y
    BY <2>2, <2>5
  <2>7. PICK a, b, c : a = s \ {y} /\ b = s \ {x} /\ c = s \ {x, y}
    OBVIOUS
  <2>8. a \notin Bad /\ b \notin Bad
    <3> HIDE DEF Bad
    <3> QED BY <2>1, <2>2, <2>5, <2>7
  <2>9. /\ a \subseteq S /\ b \subseteq S /\ x \in a /\ y \in b
        /\ a \ {x} = c /\ b \ {y} = c /\ c \subseteq S
    BY <2>2, <2>3, <2>5, <2>6, <2>7
  <2>10. g[a] = f[x] + g[c] /\ g[b] = f[y] + g[c]
    BY <2>8, <2>9
  <2>11. g[c] \in Nat /\ f[x] \in Nat /\ f[y] \in Nat
    <3>1. g[c] \in Nat
      BY <2>9, SumType
    <3> QED BY <2>2, <2>3, <2>5, <3>1
  <2>12. g[s] = f[y] + (f[x] + g[c]) /\ g[s] # f[x] + (f[y] + g[c])
    BY <2>2, <2>5, <2>7, <2>10
  <2> QED BY <2>11, <2>12
<1>1. p \notin Bad
  <2> HIDE DEF Bad
  <2> QED BY <1>0
<1> QED BY <1>1 DEF Splits

\* A sum over a part is at most the sum over all.
LEMMA SumBelow ==
  ASSUME NEW g, NEW S, NEW f, NEW h, NEW P, NEW e, NEW u, NEW v,
         IsFiniteSet(S), \A x \in S : f[x] \in Nat, IsSum(g, S, f),
         IsFiniteSet(P), \A x \in P : e[x] \in Nat, IsSum(h, P, e),
         u \subseteq P, v \subseteq S, u \subseteq v, \A x \in u : e[x] = f[x]
  PROVE  h[u] <= g[v]
<1> DEFINE Bad == {p \in SUBSET P :
                     p \subseteq u /\ \E s \in SUBSET S : p \subseteq s /\ ~(h[p] <= g[s])}
<1>2. ASSUME Bad # {} PROVE FALSE
  <2>1. PICK p \in Bad : \A x \in p : p \ {x} \notin Bad
    <3>1. Bad \subseteq SUBSET P
      OBVIOUS
    <3> HIDE DEF Bad
    <3> QED BY <1>2, <3>1, SmallestBad
  <2>2. PICK s \in SUBSET S : p \subseteq s /\ ~(h[p] <= g[s])
    OBVIOUS
  <2>3. p \subseteq P /\ p \subseteq u /\ g[s] \in Nat
    <3>1. g[s] \in Nat
      BY SumType
    <3> QED BY <3>1
  <2>4. p # {}
    <3>1. p = {} => h[p] = 0
      BY <2>3, SumOnce
    <3> QED BY <2>2, <2>3, <3>1
  <2>5. PICK x \in p : TRUE
    BY <2>4
  <2>6. PICK q, t : q = p \ {x} /\ t = s \ {x}
    OBVIOUS
  <2>7. q \notin Bad
    <3> HIDE DEF Bad
    <3> QED BY <2>1, <2>6
  <2>8. q \subseteq P /\ q \subseteq u /\ t \subseteq S /\ q \subseteq t
    BY <2>2, <2>3, <2>6
  <2>9. h[q] <= g[t]
    BY <2>7, <2>8
  <2>10. h[p] = e[x] + h[q]
    <3>1. Splits(h, e, p, x)
      BY <2>3, SumWithout
    <3> QED BY <2>6, <3>1 DEF Splits
  <2>11. g[s] = f[x] + g[t]
    <3>1. s \subseteq S /\ x \in s
      BY <2>2
    <3>2. Splits(g, f, s, x)
      BY <3>1, SumWithout
    <3> QED BY <2>6, <3>2 DEF Splits
  <2>12. h[q] \in Nat /\ g[t] \in Nat /\ f[x] \in Nat /\ e[x] = f[x]
    <3>1. h[q] \in Nat
      BY <2>8, SumType
    <3>2. g[t] \in Nat
      BY <2>8, SumType
    <3> QED BY <2>3, <3>1, <3>2
  <2> QED BY <2>2, <2>9, <2>10, <2>11, <2>12
<1>3. u \notin Bad
  <2> HIDE DEF Bad
  <2> QED BY <1>2
<1> QED BY <1>3

\* The sizes of the fragments of a buffer.
Sizes(b) == [s \in Buffered(b) |-> b.buffer[s].size]

LEMMA SizesType ==
  ASSUME NEW b, IsReorderBuffer(b)
  PROVE  IsFiniteSet(Buffered(b)) /\ \A x \in Buffered(b) : Sizes(b)[x] \in Nat
BY DEF IsReorderBuffer, Buffered, Sizes, Fragment

\* get_buffer_size adds up the sizes.
LEMMA BufferSizeIsSum ==
  ASSUME NEW b, IsReorderBuffer(b)
  PROVE  \E g : IsSum(g, Buffered(b), Sizes(b)) /\ BufferSize(b) = g[Buffered(b)]
<1> DEFINE Body(g) == [s \in SUBSET Buffered(b) |->
                         IF s = {} THEN 0 ELSE b.buffer[Some(s)].size + g[s \ {Some(s)}]]
<1>1. BufferSize(b) = (CHOOSE g : g = Body(g))[Buffered(b)]
  BY DEF BufferSize, MapThenSumSet, MapThenFoldSet, Some
<1>2. ASSUME NEW g PROVE (g = Body(g)) <=> IsSum(g, Buffered(b), Sizes(b))
  <2>1. ASSUME NEW s \in SUBSET Buffered(b), s # {}
        PROVE  Sizes(b)[Some(s)] = b.buffer[Some(s)].size
    <3>1. Some(s) \in s
      BY <2>1 DEF Some
    <3> QED BY <3>1 DEF Sizes
  <2>2. Body(g) = [s \in SUBSET Buffered(b) |->
                     IF s = {} THEN 0 ELSE Sizes(b)[Some(s)] + g[s \ {Some(s)}]]
    BY <2>1
  <2> QED BY <2>2 DEF IsSum
<1>3. PICK g : IsSum(g, Buffered(b), Sizes(b))
  BY SizesType, SumExists
<1>4. g = Body(g)
  BY <1>2, <1>3
<1>5. PICK c : c = CHOOSE k : k = Body(k)
  OBVIOUS
<1>6. c = Body(c)
  BY <1>4, <1>5
<1>7. IsSum(c, Buffered(b), Sizes(b))
  BY <1>2, <1>6
<1>8. BufferSize(b) = c[Buffered(b)]
  BY <1>1, <1>5
<1> QED BY <1>7, <1>8

LEMMA BufferSizeType ==
  ASSUME NEW b, IsReorderBuffer(b)
  PROVE  BufferSize(b) \in Nat
<1>1. PICK g : IsSum(g, Buffered(b), Sizes(b)) /\ BufferSize(b) = g[Buffered(b)]
  BY BufferSizeIsSum
<1>2. \A s \in SUBSET Buffered(b) : g[s] \in Nat
  BY <1>1, SizesType, SumType
<1> QED BY <1>1, <1>2

\* A buffer that holds a part of what another holds is not larger.
LEMMA SizeOfPart ==
  ASSUME NEW a, NEW b, IsReorderBuffer(a), IsReorderBuffer(b),
         Buffered(a) \subseteq Buffered(b),
         \A s \in Buffered(a) : a.buffer[s].size = b.buffer[s].size
  PROVE  BufferSize(a) <= BufferSize(b)
<1>1. PICK g : IsSum(g, Buffered(b), Sizes(b)) /\ BufferSize(b) = g[Buffered(b)]
  BY BufferSizeIsSum
<1>2. PICK h : IsSum(h, Buffered(a), Sizes(a)) /\ BufferSize(a) = h[Buffered(a)]
  BY BufferSizeIsSum
<1>3. \A x \in Buffered(a) : Sizes(a)[x] = Sizes(b)[x]
  BY DEF Sizes
<1>4. h[Buffered(a)] <= g[Buffered(b)]
  BY <1>1, <1>2, <1>3, SizesType, SumBelow
<1> QED BY <1>1, <1>2, <1>4

\* A fragment more adds its own size.
LEMMA SizeOfMore ==
  ASSUME NEW a, NEW b, NEW seq, IsReorderBuffer(a), IsReorderBuffer(b),
         seq \in Buffered(a), Buffered(a) \ {seq} \subseteq Buffered(b),
         \A s \in Buffered(a) \ {seq} : a.buffer[s].size = b.buffer[s].size
  PROVE  BufferSize(a) <= BufferSize(b) + a.buffer[seq].size
<1>1. PICK g : IsSum(g, Buffered(b), Sizes(b)) /\ BufferSize(b) = g[Buffered(b)]
  BY BufferSizeIsSum
<1>2. PICK h : IsSum(h, Buffered(a), Sizes(a)) /\ BufferSize(a) = h[Buffered(a)]
  BY BufferSizeIsSum
<1>3. PICK u : u = Buffered(a) \ {seq}
  OBVIOUS
<1>4. u \subseteq Buffered(a) /\ u \subseteq Buffered(b) /\ \A x \in u : Sizes(a)[x] = Sizes(b)[x]
  BY <1>3 DEF Sizes
<1>5. h[u] <= g[Buffered(b)]
  <2>1. IsSum(g, Buffered(b), Sizes(b)) /\ IsSum(h, Buffered(a), Sizes(a))
    BY <1>1, <1>2
  <2>2. /\ IsFiniteSet(Buffered(b)) /\ \A x \in Buffered(b) : Sizes(b)[x] \in Nat
        /\ IsFiniteSet(Buffered(a)) /\ \A x \in Buffered(a) : Sizes(a)[x] \in Nat
    BY SizesType
  <2>3. PICK v : v = Buffered(b)
    OBVIOUS
  <2>4. v \subseteq Buffered(b) /\ u \subseteq v
    BY <1>4, <2>3
  <2>5. h[u] <= g[v]
    BY <1>4, <2>1, <2>2, <2>4, SumBelow
  <2> QED BY <2>3, <2>5
<1>6. Splits(h, Sizes(a), Buffered(a), seq)
  BY <1>2, SizesType, SumWithout
<1>7. h[Buffered(a)] = Sizes(a)[seq] + h[u]
  BY <1>3, <1>6 DEF Splits
<1>8. h[u] \in Nat
  <2>1. \A s \in SUBSET Buffered(a) : h[s] \in Nat
    BY <1>2, SizesType, SumType
  <2> QED BY <1>4, <2>1
<1>9. Sizes(a)[seq] \in Nat /\ Sizes(a)[seq] = a.buffer[seq].size
  BY SizesType DEF Sizes
<1>10. g[Buffered(b)] \in Nat
  BY <1>1, BufferSizeType
<1> QED BY <1>1, <1>2, <1>5, <1>7, <1>8, <1>9, <1>10

\* What add_packet stores had room.
LEMMA StoredFits ==
  ASSUME NEW b, NEW seq, NEW frag, IsReorderBuffer(b), seq \in Nat, frag \in Fragment
  PROVE  \/ AddPacket(b, seq, frag).buffer = b.buffer
         \/ /\ AddPacket(b, seq, frag).buffer = Put(b.buffer, seq, frag)
            /\ ~IsFull(b, frag)
<1> DEFINE a == AddPacket(b, seq, frag)
           dup == IsDuplicate(b, seq)
           full == IsFull(b, frag)
           old == IsOld(b, seq)
<1>1. b = [buffer |-> b.buffer, expected |-> b.expected,
           total |-> b.total, duplicate |-> b.duplicate,
           dropped |-> b.dropped, outOfOrder |-> b.outOfOrder]
  BY BufferFields
<1>2. CASE dup
  <2>1. a = [b EXCEPT !.total = @ + 1, !.duplicate = @ + 1]
    BY <1>2 DEF AddPacket
  <2> HIDE DEF a
  <2>2. a.buffer = b.buffer
    BY <1>1, <2>1
  <2> QED BY <2>2 DEF a
<1>3. CASE ~dup /\ full
  <2>1. a = [b EXCEPT !.total = @ + 1, !.dropped = @ + 1]
    BY <1>3 DEF AddPacket
  <2> HIDE DEF a
  <2>2. a.buffer = b.buffer
    BY <1>1, <2>1
  <2> QED BY <2>2 DEF a
<1>4. CASE ~dup /\ ~full /\ old
  <2>1. a = [b EXCEPT !.total = @ + 1, !.outOfOrder = @ + 1]
    BY <1>4 DEF AddPacket
  <2> HIDE DEF a
  <2>2. a.buffer = b.buffer
    BY <1>1, <2>1
  <2> QED BY <2>2 DEF a
<1>5. CASE ~dup /\ ~full /\ ~old
  <2>1. a = [b EXCEPT !.total = @ + 1, !.expected = Anchor(b, seq),
                      !.buffer = Put(b.buffer, seq, frag)]
    BY <1>5 DEF AddPacket
  <2> HIDE DEF a
  <2>2. a.buffer = Put(b.buffer, seq, frag)
    BY <1>1, <2>1
  <2> QED BY <1>5, <2>2 DEF a
<1> QED BY <1>2, <1>3, <1>4, <1>5

\* The size of the buffer is within the limit.
Fits(b) == BufferSize(b) <= MaxBufferSize

\* A part of what fits, fits.
LEMMA PartFits ==
  ASSUME NEW a, NEW b, IsReorderBuffer(a), IsReorderBuffer(b), Fits(b),
         Buffered(a) \subseteq Buffered(b),
         \A s \in Buffered(a) : a.buffer[s].size = b.buffer[s].size
  PROVE  Fits(a)
<1>1. BufferSize(a) <= BufferSize(b)
  BY SizeOfPart
<1>2. BufferSize(a) \in Nat
  BY BufferSizeType
<1>3. BufferSize(b) \in Nat
  BY BufferSizeType
<1> QED BY <1>1, <1>2, <1>3, ReorderConfigAssumption DEF Fits

\* add_packet keeps the bytes within the limit.
LEMMA AddFits ==
  ASSUME NEW b, NEW seq, NEW frag, IsReorderBuffer(b), Fits(b), seq \in Nat, frag \in Fragment
  PROVE  Fits(AddPacket(b, seq, frag))
<1>1. PICK a : a = AddPacket(b, seq, frag)
  OBVIOUS
<1>2. IsReorderBuffer(a)
  BY <1>1, AddPacketType
<1>3. a.buffer = b.buffer \/ (a.buffer = Put(b.buffer, seq, frag) /\ ~IsFull(b, frag))
  BY <1>1, StoredFits
<1>4. CASE a.buffer = b.buffer
  <2>1. Buffered(a) = Buffered(b) /\ \A s \in Buffered(a) : a.buffer[s].size = b.buffer[s].size
    BY <1>4 DEF Buffered
  <2>2. Fits(a)
    BY <1>2, <2>1, PartFits
  <2> QED BY <1>1, <2>2
<1>5. CASE a.buffer = Put(b.buffer, seq, frag) /\ ~IsFull(b, frag)
  <2>1. /\ seq \in Buffered(a) /\ Buffered(a) \ {seq} \subseteq Buffered(b)
        /\ \A s \in Buffered(a) \ {seq} : a.buffer[s].size = b.buffer[s].size
        /\ a.buffer[seq].size = frag.size
    BY <1>5 DEF Buffered, Put
  <2>2. BufferSize(a) <= BufferSize(b) + a.buffer[seq].size
    BY <1>2, <2>1, SizeOfMore
  <2>3. BufferSize(a) \in Nat
    BY <1>2, BufferSizeType
  <2>4. BufferSize(b) \in Nat /\ frag.size \in Nat
    <3>1. BufferSize(b) \in Nat
      BY BufferSizeType
    <3> QED BY <3>1 DEF Fragment
  <2>5. ~(BufferSize(b) + frag.size > MaxBufferSize)
    BY <1>5 DEF IsFull
  <2>6. BufferSize(a) <= MaxBufferSize
    BY <2>1, <2>2, <2>3, <2>4, <2>5, ReorderConfigAssumption
  <2> QED BY <1>1, <2>6 DEF Fits
<1> QED BY <1>3, <1>4, <1>5

\* Every step keeps the bytes within the limit.
LEMMA NextFits ==
  ASSUME NEW b, NEW a, Fits(b), ReorderIInv, ReorderIInv', [ReorderNext]_reorderVars,
         b = rb, a = rb'
  PROVE  Fits(a)
<1>1. IsReorderBuffer(b) /\ IsReorderBuffer(a)
  BY DEF ReorderIInv, ReorderTypeOK
<1>2. ASSUME NEW seq \in SeqNums, NEW shape \in Shapes, NEW key \in BOOLEAN,
             ReorderAdd(seq, shape, key)
      PROVE  Fits(a)
  <2>1. PICK frag : frag = [size |-> shape.size, sync |-> shape.sync, key |-> key, age |-> 0]
    OBVIOUS
  <2>2. seq \in Nat /\ frag \in Fragment
    <3>1. MaxAge \in Nat
      BY ReorderConfigAssumption DEF MaxAge
    <3>2. shape \in [size : Nat, sync : Nat] /\ seq \in Nat
      BY WorkloadAssumption
    <3> QED BY <2>1, <3>1, <3>2 DEF Fragment
  <2>3. a = AddPacket(b, seq, frag)
    BY <1>2, <2>1 DEF ReorderAdd
  <2>4. Fits(AddPacket(b, seq, frag))
    BY <1>1, <2>2, AddFits
  <2> QED BY <2>3, <2>4
<1>3. CASE GetOrdered
  <2>1. PICK e \in DrainEnds(b) : StopsAt(b, e) /\ a = Drain(b, e)
    BY <1>3 DEF GetOrdered
  <2>2. a.buffer = Restrict(b.buffer, Buffered(b) \ (b.expected .. (e - 1)))
    <3>1. b = [buffer |-> b.buffer, expected |-> b.expected,
               total |-> b.total, duplicate |-> b.duplicate,
               dropped |-> b.dropped, outOfOrder |-> b.outOfOrder]
      BY <1>1, BufferFields
    <3> QED BY <2>1, <3>1 DEF Drain
  <2>3. /\ Buffered(a) \subseteq Buffered(b)
        /\ \A s \in Buffered(a) : a.buffer[s].size = b.buffer[s].size
    BY <2>2 DEF Buffered, Restrict
  <2> QED BY <1>1, <2>3, PartFits
<1>4. CASE Clear
  <2>1. Buffered(a) = {}
    BY <1>1, <1>4, ClearResult DEF Clear
  <2> QED BY <1>1, <2>1, PartFits
<1>5. CASE ReorderTick
  <2>1. a = AgeBuffer(b)
    BY <1>5 DEF ReorderTick
  <2>2. a.buffer = [s \in Buffered(b) |-> Older(b.buffer[s])]
    <3>1. b = [buffer |-> b.buffer, expected |-> b.expected,
               total |-> b.total, duplicate |-> b.duplicate,
               dropped |-> b.dropped, outOfOrder |-> b.outOfOrder]
      BY <1>1, BufferFields
    <3> QED BY <2>1, <3>1 DEF AgeBuffer
  <2>3. \A s \in Buffered(b) : Older(b.buffer[s]).size = b.buffer[s].size
    <3>1. \A f \in Fragment : Older(f).size = f.size
      BY DEF Older, Fragment
    <3>2. \A s \in Buffered(b) : b.buffer[s] \in Fragment
      BY <1>1 DEF IsReorderBuffer, Buffered
    <3> QED BY <3>1, <3>2
  <2>4. Buffered(a) = Buffered(b) /\ \A s \in Buffered(a) : a.buffer[s].size = b.buffer[s].size
    <3>1. Buffered(a) = Buffered(b)
      BY <2>2 DEF Buffered
    <3> QED BY <2>2, <2>3, <3>1
  <2> QED BY <1>1, <2>4, PartFits
<1>6. CASE UNCHANGED reorderVars
  BY <1>6 DEF reorderVars
<1> QED BY <1>2, <1>3, <1>4, <1>5, <1>6 DEF ReorderNext

\* The bytes in the reorder buffer never exceed max_buffer_size, whatever the
\* sender's sizes, numbers and order, and however the drains interleave.
THEOREM BytesBounded == ReorderSpec => []SizeBound
<1>1. ReorderInit => SizeBound
  <2> SUFFICES ASSUME ReorderInit PROVE SizeBound
    OBVIOUS
  <2>1. PICK b : b = rb
    OBVIOUS
  <2>2. IsReorderBuffer(b) /\ Buffered(b) = {}
    BY <2>1, ReorderInitIInv DEF ReorderIInv, ReorderTypeOK, ReorderInit, NewReorderBuffer, Buffered
  <2>3. PICK g : IsSum(g, Buffered(b), Sizes(b)) /\ BufferSize(b) = g[Buffered(b)]
    BY <2>2, BufferSizeIsSum
  <2>4. g[{}] = 0
    BY <2>2, <2>3, SumOnce
  <2>5. BufferSize(b) <= MaxBufferSize
    BY <2>2, <2>3, <2>4, ReorderConfigAssumption
  <2> QED BY <2>1, <2>5 DEF SizeBound
<1>2. SizeBound /\ ReorderIInv /\ ReorderIInv' /\ [ReorderNext]_reorderVars => SizeBound'
  <2> SUFFICES ASSUME SizeBound, ReorderIInv, ReorderIInv', [ReorderNext]_reorderVars
               PROVE  SizeBound'
    OBVIOUS
  <2>1. PICK b, a : b = rb /\ a = rb'
    OBVIOUS
  <2>2. Fits(b)
    BY <2>1 DEF SizeBound, Fits
  <2>3. Fits(a)
    BY <2>1, <2>2, NextFits
  <2>4. BufferSize(rb') <= MaxBufferSize
    BY <2>1, <2>3 DEF Fits
  <2> QED BY <2>4 DEF SizeBound, BufferSize, Buffered, MapThenSumSet, MapThenFoldSet
<1> QED BY <1>1, <1>2, ReorderSpecIInv, PTL DEF ReorderSpec
=============================================================================
