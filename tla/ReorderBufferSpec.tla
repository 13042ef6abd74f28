------------------------- MODULE ReorderBufferSpec -------------------------
(***************************************************************************)
(* One ReorderBuffer driven through its interface: packets arrive in any   *)
(* order, twice or never; the owner drains it; time passes; it is cleared. *)
(***************************************************************************)
EXTENDS ReorderBuffer

CONSTANTS
  SeqNums,      \* sequence numbers the sender uses
  Shapes,       \* [size, sync] of the payloads it sends
  MaxPackets    \* bound: add_packet calls in a behaviour

ASSUME WorkloadAssumption ==
  /\ SeqNums \subseteq Nat
  /\ Shapes \subseteq [size : Nat, sync : Nat]
  /\ MaxPackets \in Nat

VARIABLES
  rb,           \* the buffer
  delivered,    \* numbers handed out since construction or clear()
  uncounted     \* packets that left for good without a counter of stats_:
                \* handed out, cut into no TS packet, or cleared

reorderVars == <<rb, delivered, uncounted>>

ReorderInit ==
  /\ rb = NewReorderBuffer
  /\ delivered = {}
  /\ uncounted = 0

ReorderAdd(seq, shape, key) ==
  /\ rb.total < MaxPackets
  /\ rb' = AddPacket(rb, seq,
             [size |-> shape.size, sync |-> shape.sync, key |-> key, age |-> 0])
  /\ UNCHANGED <<delivered, uncounted>>

GetOrdered ==
  \E e \in DrainEnds(rb) :
    /\ StopsAt(rb, e)
    /\ rb' = Drain(rb, e)
    /\ delivered' = delivered \cup Handed(rb, e)
    /\ uncounted' = uncounted + (e - rb.expected) - Cardinality(Overdue(rb, e))

Clear ==
  /\ rb' = ClearBuffer(rb)
  /\ delivered' = {}
  /\ uncounted' = uncounted + Cardinality(Buffered(rb))

ReorderTick ==
  /\ rb' = AgeBuffer(rb)
  /\ UNCHANGED <<delivered, uncounted>>

ReorderNext ==
  \/ \E seq \in SeqNums, shape \in Shapes, key \in BOOLEAN : ReorderAdd(seq, shape, key)
  \/ GetOrdered
  \/ Clear
  \/ ReorderTick

ReorderSpec == ReorderInit /\ [][ReorderNext]_reorderVars

\* process_reorder_buffer drains after every datagram, and time passes.
ReorderFairSpec == ReorderSpec /\ WF_reorderVars(GetOrdered) /\ WF_reorderVars(ReorderTick)

-----------------------------------------------------------------------------
\* The members have the types reorder_buffer.hpp declares (lines 76-79).
ReorderTypeOK ==
  /\ IsReorderBuffer(rb)
  /\ delivered \in SUBSET Nat
  /\ uncounted \in Nat

\* No fragment is stranded behind expected_sequence_, where the drain loop of
\* get_ordered_packets would never look for it and its memory would stay.
NoStranded == \A s \in Buffered(rb) : s >= rb.expected

\* Everything handed out lies behind expected_sequence_, so no late copy of it
\* can be accepted and handed out again by get_ordered_packets.
DeliveredBehind == \A s \in delivered : s < rb.expected

\* add_packet refuses what would exceed max_buffer_size, so the buffered bytes
\* stay within it whatever the sender does.
SizeBound == BufferSize(rb) <= MaxBufferSize

\* Every packet given to add_packet is buffered, or in exactly one counter of
\* stats_, or left through get_ordered_packets or clear: none vanishes and
\* none is counted twice.
Accounting ==
  rb.total = rb.duplicate + rb.dropped + rb.outOfOrder + uncounted
               + Cardinality(Buffered(rb))

\* get_ordered_packets hands out ascending numbers across calls: what a call
\* hands out comes after everything handed out before it.
InOrder ==
  [][\A s \in delivered' \ delivered : \A t \in delivered : t < s]_reorderVars

\* The buffer implements in-order delivery with expected_sequence_ as cursor.
Abstract == INSTANCE OrderedDelivery WITH cursor <- rb.expected
ImplementsOrderedDelivery == Abstract!Spec

\* When everything up to s has arrived, s leaves the buffer: an expired or
\* unalignable fragment in front of it does not block get_ordered_packets.
ReadyLeaves ==
  \A s \in SeqNums :
    (s \in Buffered(rb) /\ rb.expected .. s \subseteq Buffered(rb))
      ~> s \notin Buffered(rb)
=============================================================================
