------------------------ MODULE QuicUdpHandlerProofs ------------------------
(***************************************************************************)
(* Proofs about QuicUdpHandler for any set of clients, any timeout, any    *)
(* clean-up period and any outcome of the QUIC library.  None of the       *)
(* safety properties is inductive alone: what a clean-up removes from one  *)
(* table is described by the domain of another, so they are proved         *)
(* together as HandlerInv.                                                 *)
(***************************************************************************)
EXTENDS QuicUdpHandler, FiniteSetTheorems, TLAPS

HandlerInv == TypeOK /\ NoDanglingSession /\ TablesAgree /\ ActiveLeak

\* Erasing a set of keys from a map.
LEMMA WithoutMap ==
  ASSUME NEW f, NEW S
  PROVE  /\ DOMAIN Without(f, S) = DOMAIN f \ S
         /\ \A d \in DOMAIN f \ S : Without(f, S)[d] = f[d]
BY DEF Without, Restrict

\* The second and third removal of a connection change nothing.
LEMMA UnregisteredResult ==
  ASSUME NEW st, NEW C, IsFiniteSet(st.entries), st.active \in Int
  PROVE  Unregistered(st, C) =
           [entries |-> st.entries \ C, total |-> st.total,
            active |-> st.active - Cardinality(st.entries \cap C)]
<1> DEFINE one == RemoveConnections(st, C)
           two == RemoveConnections(one, C)
           three == RemoveConnections(two, C)
           left == st.entries \ C
           n == Cardinality(st.entries \cap C)
<1>1. left \cap C = {} /\ left \ C = left /\ Cardinality({}) = 0
  BY FS_EmptySet
<1>2. n \in Nat
  BY FS_Intersection, FS_CardinalityType
<1>3. one = [entries |-> left, total |-> st.total, active |-> st.active - n]
  BY DEF RemoveConnections
<1> HIDE DEF one
<1>4. /\ one.entries = left /\ one.total = st.total
      /\ one.active = st.active - n /\ one.active - 0 = one.active
  BY <1>2, <1>3
<1>5. two = one
  <2>1. two = [entries |-> one.entries \ C, total |-> one.total,
               active |-> one.active - Cardinality(one.entries \cap C)]
    BY DEF RemoveConnections
  <2>2. one.entries \ C = left /\ Cardinality(one.entries \cap C) = 0
    BY <1>1, <1>4
  <2>3. two = [entries |-> left, total |-> st.total, active |-> st.active - n]
    BY <1>4, <2>1, <2>2
  <2>4. QED BY <1>3, <2>3
<1>6. three = one
  <2>1. three = RemoveConnections(one, C)
    BY <1>5
  <2>2. QED BY <1>5, <2>1
<1>7. Unregistered(st, C) = three
  BY DEF Unregistered, one
<1>8. QED BY <1>3, <1>6, <1>7

\* What registering a new connection does to the statistics.
LEMMA RegisteredResult ==
  ASSUME NEW st \in [entries : SUBSET Conns, total : Nat, active : Nat], NEW c
  PROVE  Registered(st, c) =
           [entries |-> st.entries \cup {c}, total |-> st.total + 2,
            active |-> st.active + 2]
<1> DEFINE one == AddConnection(st, c)
<1>1. one = [entries |-> st.entries \cup {c}, total |-> st.total + 1,
             active |-> st.active + 1]
  BY DEF AddConnection
<1>2. Registered(st, c) = AddConnection(one, c)
  BY DEF Registered
<1> HIDE DEF one
<1>3. /\ one.entries = st.entries \cup {c} /\ one.total = st.total + 1
      /\ one.active = st.active + 1
  BY <1>1
<1>4. st.total \in Nat /\ st.active \in Nat
  OBVIOUS
<1>5. AddConnection(one, c) =
        [entries |-> one.entries \cup {c}, total |-> one.total + 1,
         active |-> one.active + 1]
  BY DEF AddConnection
<1>6. /\ one.entries \cup {c} = st.entries \cup {c}
      /\ one.total + 1 = st.total + 2 /\ one.active + 1 = st.active + 2
  BY <1>3, <1>4
<1>7. QED BY <1>2, <1>5, <1>6

\* A subset of the clients is finite.
LEMMA FewConns ==
  ASSUME NEW S \in SUBSET Conns
  PROVE  IsFiniteSet(S) /\ Cardinality(S) \in Nat
BY HandlerAssumption, FS_Subset, FS_CardinalityType DEF HandlerAssumption

\* One packet keeps the invariant, and reclaims idle adapters only.
LEMMA PacketStep ==
  ASSUME HandlerInv, NEW c \in Conns, NEW initOk \in BOOLEAN,
         NEW packetOk \in BOOLEAN, OnUdpPacket(c, initOk, packetOk)
  PROVE  /\ HandlerInv'
         /\ SparesActive
<1> DEFINE isNew == c \notin DOMAIN adapters
           live == IF isNew THEN Bind(adapters, c, created + 1) ELSE adapters
           open == IF c \in DOMAIN sessions \/ ~initOk
                     THEN sessions ELSE Bind(sessions, c, live[c])
           known == IF isNew THEN Registered(stats, c) ELSE stats
           last == Touched(c)
           dead == IF packetOk /\ CleanupDue THEN Stale(Touched(c)) ELSE {}
           S == DOMAIN adapters
           more == IF isNew THEN created + 1 ELSE created
<1>1. /\ adapters' = Without(live, dead)
      /\ idle' = Without(last, dead)
      /\ sessions' = SessionsAfter(open, dead)
      /\ created' = more
      /\ stats' = Unregistered(known, dead)
      /\ packets' = IF packetOk THEN (packets + 1) % CleanupEvery ELSE packets
  BY DEF OnUdpPacket
<1>2. /\ S \subseteq Conns /\ created \in Nat
      /\ \A d \in S : adapters[d] \in 1 .. created
      /\ stats \in [entries : SUBSET Conns, total : Nat, active : Nat]
  BY DEF HandlerInv, TypeOK
<1>3. DOMAIN idle = S /\ stats.entries = S
  BY DEF HandlerInv, TablesAgree
<1>4. AdapterTimeout \in Nat /\ CleanupEvery \in Nat \ {0}
  BY HandlerAssumption DEF HandlerAssumption
\* The tables after the packet and before the clean-up.
<1>5. /\ DOMAIN live = S \cup {c} /\ more \in Nat
      /\ \A d \in DOMAIN live : live[d] \in 1 .. more
  <2>1. CASE isNew
    BY <1>2, <2>1 DEF Bind
  <2>2. CASE ~isNew
    BY <1>2, <2>2
  <2>3. QED BY <2>1, <2>2
<1>6. /\ DOMAIN last = S \cup {c} /\ last[c] = 0
      /\ \A d \in S : d # c => last[d] = idle[d]
  BY <1>3 DEF Touched, Bind
<1>7. /\ DOMAIN open \subseteq DOMAIN live
      /\ \A d \in DOMAIN open : open[d] = live[d]
  <2>1. /\ DOMAIN sessions \subseteq S
        /\ \A d \in DOMAIN sessions : sessions[d] = adapters[d]
    BY DEF HandlerInv, NoDanglingSession
  <2>2. \A d \in S : live[d] = adapters[d]
    BY DEF Bind
  <2>3. CASE c \in DOMAIN sessions \/ ~initOk
    BY <1>5, <2>1, <2>2, <2>3
  <2>4. CASE ~(c \in DOMAIN sessions \/ ~initOk)
    <3>1. open = Bind(sessions, c, live[c])
      BY <2>4
    <3>2. /\ DOMAIN open = DOMAIN sessions \cup {c} /\ open[c] = live[c]
          /\ \A d \in DOMAIN sessions : d # c => open[d] = sessions[d]
      BY <3>1 DEF Bind
    <3>3. QED BY <1>5, <2>1, <2>2, <3>2
  <2>5. QED BY <2>3, <2>4
<1>8. /\ IsFiniteSet(S \cup {c}) /\ IsFiniteSet(S)
      /\ Cardinality(S) \in Nat /\ Cardinality(S \cup {c}) \in Nat
      /\ Cardinality(S \cup {c}) = IF isNew THEN Cardinality(S) + 1 ELSE Cardinality(S)
  BY <1>2, FewConns, FS_AddElement
<1>9. /\ known = [entries |-> S \cup {c}, total |-> known.total, active |-> known.active]
      /\ known.total \in Nat
      /\ known.active = Cardinality(S \cup {c}) + more
  <2>1. stats.active = Cardinality(S) + created
    BY DEF HandlerInv, ActiveLeak
  <2>2. CASE isNew
    <3>1. known = [entries |-> S \cup {c}, total |-> stats.total + 2,
                   active |-> stats.active + 2]
      BY <1>2, <1>3, <2>2, RegisteredResult
    <3>2. Cardinality(S \cup {c}) = Cardinality(S) + 1 /\ more = created + 1
      BY <1>8, <2>2
    <3> HIDE DEF known, more
    <3>3. QED BY <1>2, <1>8, <2>1, <3>1, <3>2
  <2>3. CASE ~isNew
    <3>1. known = stats /\ S \cup {c} = S /\ more = created
      BY <2>3
    <3> HIDE DEF known, more
    <3>2. QED BY <1>2, <1>3, <2>1, <3>1
  <2>4. QED BY <2>2, <2>3
\* The clean-up.
<1>10. /\ dead \subseteq S \cup {c} /\ c \notin dead
       /\ \A d \in dead : idle[d] > AdapterTimeout
  BY <1>4, <1>6 DEF Stale
<1> HIDE DEF live, open, known, last, dead, more
<1>11. /\ DOMAIN adapters' = (S \cup {c}) \ dead
       /\ \A d \in (S \cup {c}) \ dead : adapters'[d] = live[d]
  <2>1. /\ DOMAIN Without(live, dead) = DOMAIN live \ dead
        /\ \A d \in DOMAIN live \ dead : Without(live, dead)[d] = live[d]
    BY WithoutMap
  <2>2. QED BY <1>1, <1>5, <2>1
<1>12. /\ DOMAIN idle' = (S \cup {c}) \ dead
       /\ \A d \in (S \cup {c}) \ dead : idle'[d] = last[d]
  <2>1. /\ DOMAIN Without(last, dead) = DOMAIN last \ dead
        /\ \A d \in DOMAIN last \ dead : Without(last, dead)[d] = last[d]
    BY WithoutMap
  <2>2. QED BY <1>1, <1>6, <2>1
<1>13. /\ DOMAIN sessions' = DOMAIN open \ dead
       /\ \A d \in DOMAIN open \ dead : sessions'[d] = open[d]
  <2>1. sessions' = Without(open, dead)
    BY <1>1 DEF SessionsAfter
  <2>2. QED BY <2>1, WithoutMap
<1> DEFINE m == Cardinality((S \cup {c}) \cap dead)
           rest == (S \cup {c}) \ dead
<1>14. /\ m \in Nat /\ Cardinality(rest) \in Nat
       /\ Cardinality(rest) = Cardinality(S \cup {c}) - m
  <2>1. (S \cup {c}) \cap dead \in SUBSET Conns /\ rest \in SUBSET Conns
    BY <1>2
  <2>2. QED BY <1>8, <2>1, FewConns, FS_Difference
<1>15. stats' = [entries |-> rest, total |-> known.total, active |-> known.active - m]
  <2>1. known.entries = S \cup {c} /\ known.active \in Int
    BY <1>5, <1>8, <1>9
  <2>2. IsFiniteSet(known.entries)
    BY <1>8, <2>1
  <2>3. QED BY <1>1, <2>1, <2>2, UnregisteredResult
<1>16. stats'.active = Cardinality(rest) + more /\ stats'.active \in Nat
  <2>1. known.active - m = Cardinality(rest) + more
    BY <1>5, <1>8, <1>9, <1>14
  <2>2. QED BY <1>5, <1>14, <1>15, <2>1
<1>17. TypeOK'
  <2>1. rest \subseteq Conns
    BY <1>2
  <2>2. \A d \in DOMAIN adapters' : adapters'[d] \in 1 .. created'
    BY <1>1, <1>5, <1>11
  <2>3. \A d \in DOMAIN idle' : idle'[d] \in 0 .. MaxIdle
    <3>1. \A d \in S : idle[d] \in 0 .. MaxIdle
      BY <1>3 DEF HandlerInv, TypeOK
    <3>2. 0 \in 0 .. MaxIdle
      BY <1>4 DEF MaxIdle
    <3>3. QED BY <1>6, <1>12, <3>1, <3>2
  <2>4. DOMAIN sessions' \subseteq Conns
    BY <1>2, <1>5, <1>7, <1>13
  <2>5. packets' \in 0 .. (CleanupEvery - 1)
    <3>1. packets \in 0 .. (CleanupEvery - 1)
      BY DEF HandlerInv, TypeOK
    <3>2. (packets + 1) % CleanupEvery \in 0 .. (CleanupEvery - 1)
      BY <1>4, <3>1
    <3>3. QED BY <1>1, <3>1, <3>2
  <2>6. created' \in Nat
    BY <1>1, <1>5
  <2>7. stats' \in [entries : SUBSET Conns, total : Nat, active : Nat]
    <3>1. stats'.active = known.active - m
      BY <1>15
    <3>2. known.active - m \in Nat
      BY <1>16, <3>1
    <3>3. QED BY <1>9, <1>15, <2>1, <3>2
  <2>8. QED BY <1>11, <1>12, <2>1, <2>2, <2>3, <2>4, <2>5, <2>6, <2>7 DEF TypeOK
<1>18. NoDanglingSession'
  BY <1>5, <1>7, <1>11, <1>13 DEF NoDanglingSession
<1>19. TablesAgree'
  BY <1>11, <1>12, <1>15 DEF TablesAgree
<1>20. ActiveLeak'
  BY <1>1, <1>11, <1>16 DEF ActiveLeak
<1>21. SparesActive
  BY <1>10, <1>11 DEF SparesActive
<1>22. QED BY <1>17, <1>18, <1>19, <1>20, <1>21 DEF HandlerInv

\* Time changes the ages only.
LEMMA TickStep ==
  ASSUME HandlerInv, Tick
  PROVE  HandlerInv' /\ DOMAIN adapters' = DOMAIN adapters
<1>1. MaxIdle \in Nat
  BY HandlerAssumption DEF HandlerAssumption, MaxIdle
<1>2. TypeOK'
  BY <1>1 DEF HandlerInv, TypeOK, Tick
<1>3. NoDanglingSession'
  BY DEF HandlerInv, NoDanglingSession, Tick
<1>4. TablesAgree'
  BY DEF HandlerInv, TablesAgree, Tick
<1>5. ActiveLeak'
  BY DEF HandlerInv, ActiveLeak, Tick
<1>6. QED BY <1>2, <1>3, <1>4, <1>5 DEF HandlerInv, Tick

\* Every step keeps the invariant and reclaims idle adapters only.
LEMMA HandlerStep ==
  ASSUME HandlerInv, [Next]_vars
  PROVE  /\ HandlerInv'
         /\ SparesActive
<1>1. InitOutcomes \subseteq BOOLEAN /\ PacketOutcomes \subseteq BOOLEAN
  BY HandlerAssumption DEF HandlerAssumption
<1>2. CASE SomePacket
  BY <1>1, <1>2, PacketStep DEF SomePacket
<1>3. CASE Tick
  BY <1>3, TickStep DEF SparesActive
<1>4. CASE UNCHANGED vars
  BY <1>4 DEF vars, HandlerInv, TypeOK, NoDanglingSession, TablesAgree, ActiveLeak,
              SparesActive
<1>5. QED BY <1>2, <1>3, <1>4 DEF Next

\* The initial state, with no client at all.
LEMMA HandlerInit ==
  ASSUME Init
  PROVE  HandlerInv
<1>1. CleanupEvery \in Nat \ {0}
  BY HandlerAssumption DEF HandlerAssumption
<1>2. TypeOK
  BY <1>1 DEF Init, TypeOK
<1>3. NoDanglingSession /\ TablesAgree
  BY DEF Init, NoDanglingSession, TablesAgree
<1>4. ActiveLeak
  <2>1. DOMAIN adapters = {}
    BY DEF Init
  <2>2. QED BY <2>1, FS_EmptySet DEF Init, ActiveLeak
<1>5. QED BY <1>2, <1>3, <1>4 DEF HandlerInv

\* The invariant of the handler, in every reachable state.
THEOREM HandlerInvariant == Spec => []HandlerInv
<1>1. Init => HandlerInv
  BY HandlerInit
<1>2. HandlerInv /\ [Next]_vars => HandlerInv'
  BY HandlerStep
<1>3. QED BY <1>1, <1>2, PTL DEF Spec

\* The members of the handler always have their types (quic_udp_handler.hpp).
THEOREM HandlerTypeCorrect == Spec => []TypeOK
<1>1. HandlerInv => TypeOK
  BY DEF HandlerInv
<1>2. QED BY <1>1, HandlerInvariant, PTL

\* The adapter pointer held by a QUIC session's callback is always the live
\* adapter of its connection (on_udp_packet, cleanup_expired_adapters).
THEOREM SessionsNeverDangle == Spec => []NoDanglingSession
<1>1. HandlerInv => NoDanglingSession
  BY DEF HandlerInv
<1>2. QED BY <1>1, HandlerInvariant, PTL

\* adapters_, adapter_last_activity_ and the statistics' connections_ always
\* name the same clients, although each is written in a different place.
THEOREM TablesAlwaysAgree == Spec => []TablesAgree
<1>1. HandlerInv => TablesAgree
  BY DEF HandlerInv
<1>2. QED BY <1>1, HandlerInvariant, PTL

\* The gauge of active connections drifts by exactly one per adapter created:
\* it is never too low, and only too high (update_global_active_connections).
THEOREM ActiveDrift == Spec => []ActiveLeak
<1>1. HandlerInv => ActiveLeak
  BY DEF HandlerInv
<1>2. QED BY <1>1, HandlerInvariant, PTL

\* cleanup_expired_adapters never reclaims a client that was heard within the
\* timeout.
THEOREM ReclaimsIdleOnly == Spec => OnlyIdleReclaimed
<1>1. HandlerInv /\ [Next]_vars => [SparesActive]_vars
  BY HandlerStep
<1>2. QED BY <1>1, HandlerInvariant, PTL DEF Spec, OnlyIdleReclaimed
=============================================================================
