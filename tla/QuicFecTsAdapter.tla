------------------------- MODULE QuicFecTsAdapter --------------------------
(***************************************************************************)
(* The QUIC+FEC TS adapter (class QuicFecTsAdapter,                        *)
(* adapters/quic_fec_ts_adapter.cpp) as operators on a record that holds   *)
(* one FecRepair manager and one ReorderBuffer.  A datagram is abstracted  *)
(* to what detect_protocol and feed look at: its length class, its first   *)
(* byte, how plausible its header is, and the block it carries; in bare TS *)
(* mode it is the sequence of its bytes, each one 0x47 or not.             *)
(*                                                                         *)
(* Left out: the adapter's own counters, cleanup_expired_sessions (its     *)
(* sessions_ is never filled, so it does nothing), and the TS demuxer.     *)
(***************************************************************************)
EXTENDS FecRepair, ReorderBuffer

CONSTANTS
  EnableDetection,    \* enable_protocol_detection
  DefaultMode         \* the default_mode parameter

Modes == {"unknown", "bare_ts", "quic_fec"}

ASSUME DetectionAssumption ==
  EnableDetection \in BOOLEAN /\ DefaultMode \in {"bare_ts", "quic_fec"}

\* len: below 4 bytes, below the 16 of the header, or the rest.  first: the
\* first byte is 0x47 with nothing against it, has its top bit set, or neither.
\* head: seq and group are zero, within the expected range, or neither.
Datagram ==
  [len : {"tiny", "short", "full"}, first : {"ts", "high", "other"},
   head : {"zero", "plausible", "odd"},
   group : Nat, parity : BOOLEAN, index : Nat, block : Block,
   bytes : Seq(BOOLEAN)]

NewAdapter ==
  [mode |-> "unknown", fm |-> NewFecManager, rb |-> NewReorderBuffer,
   input |-> << >>, started |-> FALSE]

IsAdapter(ad) ==
  /\ ad \in [mode : Modes, fm : {ad.fm}, rb : {ad.rb}, input : Seq(BOOLEAN),
             started : BOOLEAN]
  /\ IsFecManager(ad.fm)
  /\ IsReorderBuffer(ad.rb)

-----------------------------------------------------------------------------
(* detect_protocol *)

Detect(d) ==
  IF d.len = "tiny" THEN "unknown"
  ELSE IF d.first = "ts" THEN "bare_ts"
  ELSE IF d.first = "high" \/ (d.len = "full" /\ d.head = "plausible") THEN "quic_fec"
  ELSE IF EnableDetection THEN "unknown" ELSE DefaultMode

\* feed asks only while the mode is unknown and detection is enabled.
ModeAfter(ad, d) ==
  IF ad.mode = "unknown" /\ EnableDetection THEN Detect(d) ELSE ad.mode

-----------------------------------------------------------------------------
(* handle_bare_ts_data *)

SyncPositions(buf) == {i \in DOMAIN buf : buf[i]}

\* Bytes before the first 0x47 go; without one the buffer stays as it is.
Synced(buf) ==
  IF SyncPositions(buf) = {} THEN buf
  ELSE SubSeq(buf, Min(SyncPositions(buf)), Len(buf))

WholePackets(buf) == Len(buf) \div TsPacketSize

Rest(buf) == SubSeq(buf, WholePackets(buf) * TsPacketSize + 1, Len(buf))

BareTs(ad, d) ==
  LET buf == Synced(ad.input \o d.bytes) IN
  [ad EXCEPT !.input = Rest(buf),
             !.started = ad.started \/ WholePackets(buf) > 0]

-----------------------------------------------------------------------------
(* handle_quic_data *)

\* feed returns before the header is used.
Ignored(d) == d.len # "full" \/ d.head = "zero" \/ d.block.size = 0

\* add_block fails, and feed returns its error without processing groups.
Rejected(ad, d) == Refused(ad.fm, d.group) \/ ~InRange(d.parity, d.index)

TakeBlock(ad, d) ==
  [ad EXCEPT !.fm = AddBlock(ad.fm, d.group, d.parity, d.index, d.block)]

-----------------------------------------------------------------------------
(* process_fec_groups and process_reorder_buffer *)

\* A <<group, index>> check_and_repair_with_metadata returned, as the fragment
\* added to the reorder buffer now.
FragmentOf(fm, at, sync) ==
  LET b == BlockOut(fm.groups[at[1]], at[2], sync) IN
  [size |-> b.size, sync |-> b.sync, key |-> b.key, age |-> 0]

\* Restored blocks get consecutive numbers from the process-wide counter, full
\* buffer or not.
\* Mutated form: the counter is local to the call ("static" is missing).
Number_NotStatic(counter, p) == p

Number(counter, p) == counter + p

Numbered(ad, counter, sync) ==
  LET list == Restored(ad.fm)
      fill[p \in 0 .. Len(list)] ==
        IF p = 0 THEN ad.rb
        ELSE AddPacket(fill[p - 1], Number(counter, p), FragmentOf(ad.fm, list[p], sync))
  IN  fill[Len(list)]

ProcessFecGroups(ad, counter, sync) ==
  [ad EXCEPT !.rb = Numbered(ad, counter, sync),
             !.fm = CheckAndRepair(ad.fm, ad.fm.failed + FailedNow(ad.fm))]

\* The number the drain of the buffer stops at.
StopOf(rb) == CHOOSE e \in DrainEnds(rb) : StopsAt(rb, e)

ProcessReorder(ad) ==
  LET e == StopOf(ad.rb) IN
  [ad EXCEPT !.rb = Drain(ad.rb, e),
             !.started = ad.started \/ Handed(ad.rb, e) # {}]
=============================================================================
