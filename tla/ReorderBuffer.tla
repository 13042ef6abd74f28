--------------------------- MODULE ReorderBuffer ---------------------------
(***************************************************************************)
(* The reorder buffer of the QUIC+FEC TS adapter (class ReorderBuffer,     *)
(* components/reorder/reorder_buffer.cpp) as operators on a record, so     *)
(* that a stand-alone specification (ReorderBufferSpec) and the adapter    *)
(* (QuicFecTsPipeline) run the same definitions.                           *)
(*                                                                         *)
(* A fragment's bytes are abstracted to what align_ts_packets looks at:    *)
(* how many there are and where the first 0x47 is.  Its timestamp is kept  *)
(* as an age, saturating one past the longest deadline, because the code   *)
(* only ever compares current_time - timestamp with a deadline.            *)
(***************************************************************************)
EXTENDS Integers, FiniteSets, FiniteSetsExt, Functions

CONSTANTS
  TsPacketSize,       \* SRS_TS_PACKET_SIZE (188)
  ReorderWindow,      \* reorder_window_ms
  KeyframeRelax,      \* keyframe_relax_ms
  EnableRelax,        \* enable_keyframe_relax
  MaxBufferSize       \* max_buffer_size

ASSUME ReorderConfigAssumption ==
  /\ TsPacketSize \in Nat \ {0}
  /\ ReorderWindow \in Nat
  /\ KeyframeRelax \in Nat
  /\ EnableRelax \in BOOLEAN
  /\ MaxBufferSize \in Nat

\* The age at which every fragment is past its deadline.
MaxAge == ReorderWindow + KeyframeRelax + 1

\* TsPacketFragment; sync is the offset of the first 0x47, or any number not
\* below size when there is none.
Fragment == [size : Nat, sync : Nat, key : BOOLEAN, age : 0..MaxAge]

\* The members of a ReorderBuffer have their types: buffer_ is a finite map
\* from sequence numbers to fragments, the rest are unsigned.
IsReorderBuffer(rb) ==
  /\ rb \in [buffer : {rb.buffer}, expected : Nat, total : Nat,
             duplicate : Nat, dropped : Nat, outOfOrder : Nat]
  /\ rb.buffer \in [DOMAIN rb.buffer -> Fragment]
  /\ DOMAIN rb.buffer \subseteq Nat
  /\ IsFiniteSet(DOMAIN rb.buffer)

\* A freshly constructed buffer.
NewReorderBuffer ==
  [buffer |-> [s \in {} |-> 0], expected |-> 0,
   total |-> 0, duplicate |-> 0, dropped |-> 0, outOfOrder |-> 0]

Buffered(rb) == DOMAIN rb.buffer

\* get_buffer_size
BufferSize(rb) == MapThenSumSet(LAMBDA s : rb.buffer[s].size, Buffered(rb))

\* is_packet_expired
Expired(frag) ==
  frag.age > ReorderWindow + (IF EnableRelax /\ frag.key THEN KeyframeRelax ELSE 0)

\* align_ts_packets: how many whole TS packets a fragment is cut into.  The
\* search for 0x47 covers the first packet's length; without a hit the cut
\* starts at 0; the tail that does not fill a packet is dropped.
StartPos(frag) ==
  IF frag.sync < frag.size /\ frag.sync < TsPacketSize THEN frag.sync ELSE 0

AlignedCount(frag) == (frag.size - StartPos(frag)) \div TsPacketSize

-----------------------------------------------------------------------------
(* add_packet *)

IsDuplicate(rb, seq) == seq \in Buffered(rb)

\* Mutated form: the new packet's own size is left out of the limit check.
IsFull_IgnoresNew(rb, frag) == BufferSize(rb) > MaxBufferSize

IsFull(rb, frag) == BufferSize(rb) + frag.size > MaxBufferSize

\* Mutated form: any empty buffer re-anchors.
Anchor_WheneverEmpty(rb, seq) ==
  IF Buffered(rb) = {} THEN seq ELSE rb.expected

\* The expected number after the "first packet" rule.
Anchor(rb, seq) ==
  IF Buffered(rb) = {} /\ rb.expected = 0 THEN seq ELSE rb.expected

\* Mutated form: the check for an old packet is missing.
IsOld_Unchecked(rb, seq) == FALSE

IsOld(rb, seq) == seq < Anchor(rb, seq)

Put(buffer, seq, frag) ==
  [s \in DOMAIN buffer \cup {seq} |-> IF s = seq THEN frag ELSE buffer[s]]

AddPacket(rb, seq, frag) ==
  CASE IsDuplicate(rb, seq) ->
         [rb EXCEPT !.total = @ + 1, !.duplicate = @ + 1]
    [] ~IsDuplicate(rb, seq) /\ IsFull(rb, frag) ->
         [rb EXCEPT !.total = @ + 1, !.dropped = @ + 1]
    [] ~IsDuplicate(rb, seq) /\ ~IsFull(rb, frag) /\ IsOld(rb, seq) ->
         [rb EXCEPT !.total = @ + 1, !.outOfOrder = @ + 1]
    [] OTHER ->
         [rb EXCEPT !.total = @ + 1,
                    !.expected = Anchor(rb, seq),
                    !.buffer = Put(rb.buffer, seq, frag)]

-----------------------------------------------------------------------------
(* get_ordered_packets *)

\* The loop started at expected_sequence_ stops at e: the first number that is
\* not buffered.
DrainEnds(rb) == rb.expected .. (rb.expected + Cardinality(Buffered(rb)))

\* Mutated form: an expired fragment ends the loop ("break" for "continue").
StopsAt_BreakOnExpired(rb, e) ==
  /\ e \notin {s \in Buffered(rb) : ~Expired(rb.buffer[s])}
  /\ rb.expected .. (e - 1) \subseteq Buffered(rb)
  /\ \A s \in rb.expected .. (e - 1) : ~Expired(rb.buffer[s])

StopsAt(rb, e) ==
  /\ e \notin Buffered(rb)
  /\ rb.expected .. (e - 1) \subseteq Buffered(rb)

\* Every fragment before e leaves the buffer; the expired ones are counted as
\* dropped.
Overdue(rb, e) == {s \in rb.expected .. (e - 1) : Expired(rb.buffer[s])}

\* Mutated forms: the last increment is missing; expiry is not counted.
Drain_LastNotPassed(rb, e) ==
  [rb EXCEPT !.buffer = Restrict(rb.buffer, Buffered(rb) \ (rb.expected .. (e - 1))),
             !.expected = IF e > rb.expected THEN e - 1 ELSE e,
             !.dropped = @ + Cardinality(Overdue(rb, e))]

Drain_ExpiryNotCounted(rb, e) ==
  [rb EXCEPT !.buffer = Restrict(rb.buffer, Buffered(rb) \ (rb.expected .. (e - 1))),
             !.expected = e]

Drain(rb, e) ==
  [rb EXCEPT !.buffer = Restrict(rb.buffer, Buffered(rb) \ (rb.expected .. (e - 1))),
             !.expected = e,
             !.dropped = @ + Cardinality(Overdue(rb, e))]

\* The fragments whose TS packets are handed out, in ascending order.
Handed(rb, e) ==
  {s \in rb.expected .. (e - 1) :
     ~Expired(rb.buffer[s]) /\ AlignedCount(rb.buffer[s]) > 0}

\* clear
ClearBuffer(rb) == [rb EXCEPT !.buffer = [s \in {} |-> 0], !.expected = 0]

\* One unit of time passes for everything buffered.
Older(frag) == [frag EXCEPT !.age = IF frag.age < MaxAge THEN frag.age + 1 ELSE MaxAge]

AgeBuffer(rb) ==
  [rb EXCEPT !.buffer = [s \in Buffered(rb) |-> Older(rb.buffer[s])]]
=============================================================================
