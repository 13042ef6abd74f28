-------------------------- MODULE QuicUdpHandler ---------------------------
(***************************************************************************)
(* The UDP handler in front of the QUIC+FEC adapters (class QuicUdpHandler,*)
(* components/quic/quic_udp_handler.cpp): one adapter and one QUIC session *)
(* per client address, created by its first packet and reclaimed after a   *)
(* silence, with the connection table of AdapterStatsManager that both the *)
(* handler and the adapter write.  What an adapter does with a packet is   *)
(* the subject of QuicFecTsPipeline; here an adapter is the number of its  *)
(* creation, so that a session's raw pointer to a dead one can be told     *)
(* from a pointer to its successor.                                        *)
(***************************************************************************)
EXTENDS Integers, FiniteSets, Functions

CONSTANTS
  Conns,            \* client addresses (get_connection_id)
  AdapterTimeout,   \* adapter_timeout_ms_
  CleanupEvery,     \* packets between two clean-ups (100)
  InitOutcomes,     \* results of init_server: {TRUE} without the QUIC library
  PacketOutcomes,   \* results of handling a packet: {TRUE} without the library,
                    \* whose placeholder swallows the adapter's errors
  MaxCreated        \* bound: adapters created in a behaviour

ASSUME HandlerAssumption ==
  /\ IsFiniteSet(Conns)
  /\ AdapterTimeout \in Nat
  /\ CleanupEvery \in Nat \ {0}
  /\ InitOutcomes \subseteq BOOLEAN
  /\ PacketOutcomes \subseteq BOOLEAN
  /\ MaxCreated \in Nat

VARIABLES
  adapters,   \* adapters_: connection -> creation number of its adapter
  idle,       \* adapter_last_activity_, as an age saturating past the timeout
  sessions,   \* quic_sessions_: connection -> adapter its callback points to
  packets,    \* packet_count modulo CleanupEvery
  created,    \* adapters created so far
  stats       \* AdapterStatsManager: connections_ and two of global_stats_

vars == <<adapters, idle, sessions, packets, created, stats>>

MaxIdle == AdapterTimeout + 1

Init ==
  /\ adapters = [c \in {} |-> 0]
  /\ idle = [c \in {} |-> 0]
  /\ sessions = [c \in {} |-> 0]
  /\ packets = 0
  /\ created = 0
  /\ stats = [entries |-> {}, total |-> 0, active |-> 0]

Bind(f, c, v) == [d \in DOMAIN f \cup {c} |-> IF d = c THEN v ELSE f[d]]
Without(f, S) == Restrict(f, DOMAIN f \ S)

-----------------------------------------------------------------------------
(* AdapterStatsManager *)

AddConnection(st, c) ==
  [entries |-> st.entries \cup {c}, total |-> st.total + 1, active |-> st.active + 1]

\* Mutated forms: the table entry outlives the connection; a connection without
\* an entry is counted down too.
RemoveConnections_KeepsEntry(st, C) ==
  [entries |-> st.entries, total |-> st.total,
   active |-> st.active - Cardinality(st.entries \cap C)]

RemoveConnections_Unguarded(st, C) ==
  [entries |-> st.entries \ C, total |-> st.total,
   active |-> st.active - Cardinality(C)]

\* remove_connection for each of C: one without an entry is left alone.
RemoveConnections(st, C) ==
  [entries |-> st.entries \ C, total |-> st.total,
   active |-> st.active - Cardinality(st.entries \cap C)]

\* A new adapter is registered by its own start and again by the handler.
Registered(st, c) == AddConnection(AddConnection(st, c), c)

\* A dying adapter is removed by close, by the destructor's close and by the
\* handler.
Unregistered(st, C) ==
  RemoveConnections(RemoveConnections(RemoveConnections(st, C), C), C)

-----------------------------------------------------------------------------
(* on_udp_packet *)

\* get_or_create_adapter: every packet counts as activity.
Touched(c) == Bind(idle, c, 0)

\* cleanup_expired_adapters, given the activity after this packet.
Stale(last) == {c \in DOMAIN last : last[c] > AdapterTimeout}

\* Mutated form: the sessions of the reclaimed adapters stay.
SessionsAfter_Kept(live, dead) == live

SessionsAfter(live, dead) == Without(live, dead)

\* Mutated form: the clean-up is never due.
CleanupDue_Never == FALSE

CleanupDue == packets + 1 = CleanupEvery

\* One packet of c.  initOk is the result of init_server when c has no session
\* yet (without one the packet goes straight to the adapter); packetOk that of
\* handling the packet, whose failure returns before the packet is counted.
OnUdpPacket(c, initOk, packetOk) ==
  LET isNew == c \notin DOMAIN adapters
      live == IF isNew THEN Bind(adapters, c, created + 1) ELSE adapters
      open == IF c \in DOMAIN sessions \/ ~initOk
                THEN sessions ELSE Bind(sessions, c, live[c])
      known == IF isNew THEN Registered(stats, c) ELSE stats
      dead == IF packetOk /\ CleanupDue THEN Stale(Touched(c)) ELSE {}
  IN  /\ isNew => created < MaxCreated
      /\ adapters' = Without(live, dead)
      /\ idle' = Without(Touched(c), dead)
      /\ sessions' = SessionsAfter(open, dead)
      /\ created' = IF isNew THEN created + 1 ELSE created
      /\ stats' = Unregistered(known, dead)
      /\ packets' = IF packetOk THEN (packets + 1) % CleanupEvery ELSE packets

Tick ==
  /\ idle' = [c \in DOMAIN idle |-> IF idle[c] < MaxIdle THEN idle[c] + 1 ELSE MaxIdle]
  /\ UNCHANGED <<adapters, sessions, packets, created, stats>>

SomePacket ==
  \E c \in Conns, initOk \in InitOutcomes, packetOk \in PacketOutcomes :
    OnUdpPacket(c, initOk, packetOk)

Next == SomePacket \/ Tick

Spec == Init /\ [][Next]_vars

\* Known clients keep sending packets that are handled, and time passes.
KnownPacket ==
  \E c \in DOMAIN adapters, initOk \in InitOutcomes : OnUdpPacket(c, initOk, TRUE)

FairSpec == Spec /\ WF_vars(KnownPacket) /\ WF_vars(Tick)

-----------------------------------------------------------------------------
\* The members have the types of quic_udp_handler.hpp (lines 58-64).
TypeOK ==
  /\ DOMAIN adapters \subseteq Conns
  /\ \A c \in DOMAIN adapters : adapters[c] \in 1 .. created
  /\ DOMAIN idle \subseteq Conns
  /\ \A c \in DOMAIN idle : idle[c] \in 0 .. MaxIdle
  /\ DOMAIN sessions \subseteq Conns
  /\ packets \in 0 .. (CleanupEvery - 1)
  /\ created \in Nat
  /\ stats \in [entries : SUBSET Conns, total : Nat, active : Nat]

\* The raw adapter pointer a QUIC session passes to on_quic_datagram_received
\* is always the live adapter of its connection: clean-up never leaves a
\* session behind, and a later adapter never inherits an older session.
NoDanglingSession ==
  \A c \in DOMAIN sessions :
    c \in DOMAIN adapters /\ sessions[c] = adapters[c]

\* The three tables written in different places agree on who is connected:
\* adapters_, adapter_last_activity_ and connections_ of the statistics.
TablesAgree ==
  DOMAIN adapters = DOMAIN idle /\ DOMAIN adapters = stats.entries

\* Each adapter is counted as active twice and removed once, so the gauge
\* exceeds the live connections by one for every adapter ever created.
ActiveLeak == stats.active = Cardinality(DOMAIN adapters) + created

\* cleanup_expired_adapters reclaims an adapter only after a silence longer than
\* adapter_timeout_ms_, whatever other clients do meanwhile.
SparesActive ==
  \A c \in DOMAIN adapters \ DOMAIN adapters' : idle[c] > AdapterTimeout
OnlyIdleReclaimed == [][SparesActive]_vars

\* A silent connection is reclaimed as long as packets keep being handled,
\* whoever sends them.
IdleReclaimed ==
  \A c \in Conns :
    (c \in DOMAIN idle /\ idle[c] > AdapterTimeout)
      ~> (c \notin DOMAIN idle \/ idle[c] = 0)
=============================================================================
