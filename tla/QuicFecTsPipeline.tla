------------------------- MODULE QuicFecTsPipeline -------------------------
(***************************************************************************)
(* Several QUIC+FEC TS adapters fed by their connections: FEC groups, the  *)
(* process-wide number counter of process_fec_groups, and one reorder      *)
(* buffer per connection.  feed is one action, split by the way it takes;  *)
(* an adapter is created by the first datagram of its connection and       *)
(* reclaimed by QuicUdpHandler.                                            *)
(***************************************************************************)
EXTENDS QuicFecTsAdapter, SequencesExt

CONSTANTS
  Conns,        \* connections
  Datagrams,    \* what clients send
  SyncChoices,  \* where the first sync byte of a restored block may be
  MaxFed        \* bound: feed and flush calls in a behaviour

ASSUME PipelineAssumption ==
  /\ Datagrams \subseteq Datagram
  /\ SyncChoices \subseteq Nat
  /\ MaxFed \in Nat

VARIABLES
  adapters,     \* connection -> its adapter
  counter,      \* global_seq_counter
  origin,       \* what got each number: block index, restored or received, TS packets
  emitted,      \* numbers whose TS packets a connection's adapter put out
  fed           \* feed and flush calls so far

vars == <<adapters, counter, origin, emitted, fed>>

Init ==
  /\ adapters = [c \in {} |-> 0]
  /\ counter = 0
  /\ origin = << >>
  /\ emitted = {}
  /\ fed = 0

Live == DOMAIN adapters
AdapterOf(c) == IF c \in Live THEN adapters[c] ELSE NewAdapter
SetAdapter(c, ad) ==
  adapters' = [x \in Live \cup {c} |-> IF x = c THEN ad ELSE adapters[x]]

\* process_fec_groups, then process_reorder_buffer, on adapter ad of c.
Process(c, ad) ==
  \E sync \in [RestoredIndices(ad.fm) -> SyncChoices] :
    LET list == Restored(ad.fm)
        mid == ProcessFecGroups(ad, counter, sync)
    IN  /\ SetAdapter(c, ProcessReorder(mid))
        /\ counter' = counter + Len(list)
        /\ origin' = origin \o [p \in 1 .. Len(list) |->
             [index |-> list[p][2],
              restored |-> list[p][2] \notin DOMAIN ad.fm.groups[list[p][1]].blocks,
              packets |-> AlignedCount(FragmentOf(ad.fm, list[p], sync))]]
        /\ emitted' = emitted \cup Handed(mid.rb, StopOf(mid.rb))

Detected(c, d) == [AdapterOf(c) EXCEPT !.mode = ModeAfter(AdapterOf(c), d)]

\* The datagram is taken as bare TS.
FeedBareTs(c, d) ==
  /\ Detected(c, d).mode = "bare_ts"
  /\ Process(c, BareTs(Detected(c, d), d))

\* Too short (an error), no header or no payload: nothing is processed.
FeedIgnored(c, d) ==
  /\ Detected(c, d).mode # "bare_ts"
  /\ Ignored(d)
  /\ SetAdapter(c, Detected(c, d))
  /\ UNCHANGED <<counter, origin, emitted>>

\* add_block fails: feed returns its error, nothing is processed.
FeedRejected(c, d) ==
  /\ Detected(c, d).mode # "bare_ts"
  /\ ~Ignored(d)
  /\ Rejected(Detected(c, d), d)
  /\ SetAdapter(c, TakeBlock(Detected(c, d), d))
  /\ UNCHANGED <<counter, origin, emitted>>

FeedBlock(c, d) ==
  /\ Detected(c, d).mode # "bare_ts"
  /\ ~Ignored(d)
  /\ ~Rejected(Detected(c, d), d)
  /\ Process(c, TakeBlock(Detected(c, d), d))

Feed(c, d) ==
  /\ fed < MaxFed
  /\ fed' = fed + 1
  /\ \/ FeedBareTs(c, d)
     \/ FeedIgnored(c, d)
     \/ FeedRejected(c, d)
     \/ FeedBlock(c, d)

\* flush: what is left of input_buffer_, which processing does not look at, goes.
NoInput(ad) == [ad EXCEPT !.input = << >>]

Flush(c) ==
  /\ fed < MaxFed
  /\ fed' = fed + 1
  /\ Process(c, NoInput(AdapterOf(c)))

\* cleanup_expired_adapters of the handler: close, then destruction.
Reclaim(c) ==
  /\ adapters' = Restrict(adapters, Live \ {c})
  /\ UNCHANGED <<counter, origin, emitted, fed>>

Aged(ad) == [ad EXCEPT !.fm = AgeGroups(ad.fm), !.rb = AgeBuffer(ad.rb)]

Tick ==
  /\ adapters' = [c \in Live |-> Aged(adapters[c])]
  /\ UNCHANGED <<counter, origin, emitted, fed>>

Next ==
  \/ \E c \in Conns, d \in Datagrams : Feed(c, d)
  \/ \E c \in Live : Flush(c)
  \/ \E c \in Live : Reclaim(c)
  \/ Tick

Spec == Init /\ [][Next]_vars

-----------------------------------------------------------------------------
\* The members of every adapter have their types (quic_fec_ts_adapter.hpp), and
\* every number of the counter has an origin.
TypeOK ==
  /\ Live \subseteq Conns
  /\ \A c \in Live : IsAdapter(adapters[c])
  /\ counter = Len(origin)
  /\ emitted \subseteq 1 .. counter

\* Whatever a connection's groups yield is put out at once: after feed or flush
\* no fragment that holds a TS packet is still waiting or gone.
NothingLost ==
  \A s \in 1 .. counter : origin[s].packets > 0 => s \in emitted

\* The reorder buffer has room for a whole group of what clients send.
GroupFits ==
  \E z \in Nat : K * z <= MaxBufferSize /\ \A d \in Datagrams : d.block.size <= z

\* The numbers process_fec_groups gives out are fresh for every buffer, across
\* groups, repairs, re-created adapters and connections: no packet is ever
\* taken for a duplicate or for an old one.
NumbersFresh ==
  \A c \in Live : adapters[c].rb.duplicate = 0 /\ adapters[c].rb.outOfOrder = 0

\* Bytes left over in input_buffer_ are fewer than a TS packet and belong to a
\* bare TS stream: a change of mode never strands them.
LeftoverBounded ==
  \A c \in Live :
    /\ Len(adapters[c].input) < TsPacketSize
    /\ adapters[c].input # << >> => adapters[c].mode = "bare_ts"

\* Between calls no group that could be repaired is left waiting, and no adapter
\* is over its limits: max_groups of the manager, max_buffer_size of the buffer.
NothingWaits ==
  \A c \in Live :
    /\ Repaired(adapters[c].fm) = {}
    /\ Cardinality(Groups(adapters[c].fm)) <= MaxGroups
    /\ BufferSize(adapters[c].rb) <= MaxBufferSize

\* Through numbering, repair and the reorder buffer, only restored blocks leave
\* their place in a group, and always towards its front: after a received block
\* comes one with a higher index (the order repair_rs returns blocks in).
OnlyRestoredOutOfTurn ==
  \A s \in 1 .. (counter - 1) :
    s % K # 0 /\ ~origin[s].restored => origin[s].index < origin[s + 1].index

\* The state of the adapters between any two calls of feed: types, fresh numbers,
\* bounded leftovers, nothing waiting and nothing over its limit.
PipelineInv == TypeOK /\ NumbersFresh /\ LeftoverBounded /\ NothingWaits
=============================================================================
