# A verification project for SRS and its adapter layer

This directory holds TLA+ models of the adapter layer that this repository adds
to the SRS media server, and of the parts of the server that its streams meet: the
live source, the delivery to players, and the requests for lost RTC packets. TLC
configurations check them on small instances, and TLAPS proofs establish the
properties that matter most for every instance. The adapter layer lives in
`src/srs-source/trunk/src/app/adapter/` (called `A/` below), the server in
`src/srs-source/trunk/src/{kernel,protocol,app}` (called `U/`).

## 1. The system

The layer turns streams in private protocols into frames of an `SrsLiveSource`.
A UDP caster receives datagrams; a handler keeps one adapter per client; the
adapter takes the datagrams apart and pushes audio and video frames.

```
  UDP socket --> caster / AdapterListener --> QuicUdpHandler --+--> QuicFecTsAdapter --> SrsLiveSource
                                              (per process)    |      FecRepairManager     ^
                                                   |           |      ReorderBuffer        |
                                                   |           |      TS demuxer           |
                                                   |           +--> MyProtoAdapter --------+
                                                   v
                                           AdapterStatsManager <-- HTTP API

  RTMP publisher --> publish token --> SrsLiveSource --> SrsLiveConsumer --> do_playing --> player
                                        ^    meta cache       queue              ^
                       source manager --+    GOP cache                           |
                       (pool, timer)                             SrsQueueRecvThread

  RTC publisher --> SrsRtcRecvTrack --> ring buffer + NACK list --> timer --> NACKs
```

Everything runs in State Threads coroutines of one OS thread: a coroutine is not
pre-empted, so a call of `feed` is atomic unless it waits for I/O, and none of the
adapter code modelled here does. What is concurrent there is the *traffic*: datagrams of
several clients interleave, arrive late, twice, out of order or never, and time passes
between them. In the server the coroutines themselves interleave: a session switches
whenever it talks to its client, calls an HTTP hook or waits, and the source, the
pool and the queues are shared by all of them. The process keeps state that several clients share: the handler's
tables, the statistics singleton, and function-local statics (`global_seq_counter`,
`last_processed_size`, `packet_count`).

### Inventory

| Component (source) | State | Operations | What makes it hard, and what makes it correct | Model |
|---|---|---|---|---|
| Reorder buffer (`A/components/reorder`) | fragments by sequence number, `expected_sequence_`, counters | `add_packet`, `get_ordered_packets`, `clear` | gaps, duplicates, late packets, expiry, byte limit; hands out in order, once, strands nothing, accounts for everything | `ReorderBuffer`, `ReorderBufferSpec` |
| FEC groups (`A/components/fec`) | groups by id, blocks by index, creation times, counters | `add_block`, `check_and_repair[_with_metadata]`, `cleanup_expired` | a full table, eviction, repairs that fail, deadlines; hands out only what is backed by k blocks, loses no group before its deadline, keeps none for ever | `FecRepair`, `FecRepairSpec` |
| QUIC+FEC TS adapter (`A/adapters/quic_fec_ts_adapter.*`) | protocol mode, input buffer, the two components above, the static `global_seq_counter` | `feed` (detection, bare TS, FEC), `flush`, `close` | early error returns, numbering shared by all connections, mode fixed by the first datagram; nothing that arrived is lost or put out in the wrong order | `QuicFecTsAdapter`, `QuicFecTsPipeline` |
| TS message handlers (same file, lines 49-98 and 598-1256) | SPS, PPS, VPS, AAC configuration, flags, the demuxer's message (`U/kernel/srs_kernel_ts.cpp`), the static `last_processed_size` | `output_ts_packets` per packet, `SrsTsContext::decode`, `on_ts_message` and what it calls | packets lost, late and repeated with four bits to tell them apart, pushes that fail half way, messages handled before their end, a static shared by all connections; no message with a hole, no frame before its header, no unit twice, no change forgotten | `TsHandler` |
| QUIC UDP handler (`A/components/quic/quic_udp_handler.*`) | adapters, last activity, sessions, packet count | `on_udp_packet` with creation and clean-up | raw pointers from sessions to adapters, error returns half way, clean-up driven by other clients' packets | `QuicUdpHandler` |
| QUIC session wrapper (`A/components/quic/quic_session_wrapper.*`) | connection, callback | `init_server`, `process_packet`, `close` | needs the QUIC library; the default build compiles the placeholder | outcomes only, in `QuicUdpHandler` |
| MyProto adapter (`A/adapters/myproto_adapter.*`) | parser state, buffers, timestamps, keyframe gate, heartbeat, parameter sets | `feed`, `parseHeader`, `parsePayload`, `createStdFrame`, `close` | frames cut anywhere by datagram boundaries, refused headers, timestamps that go back, silence | `MyProtoAdapter` |
| Parameter sets (`A/components/codec`) | sets by codec and type | update, get, clear, validate | which set is current | as used by `MyProtoAdapter` |
| Statistics and HTTP API (`A/core/adapter_stats.*`) | connection table, global counters, a mutex | add, remove, update, JSON | written from two places; `to_json` takes its mutex twice | table and gauges in `QuicUdpHandler` |
| Source bridge (`A/components/frame`) | the source it feeds | `create_source`, `push_frame`, `close` | uses a source without publishing it | opening and closing, in `LiveSource` |
| Jitter buffer, frame bus (`A/components/frame`) | bounded queues | push, pop, flush | late drop, capacity | planned; no adapter uses them yet |
| Adapter manager, listener (`A/core`) | factories, routes | register, create, start | set-up | planned |
| Casters, server and configuration glue (`app/srs_app_caster_*.cpp`, `app/srs_app_server.cpp`, `app/srs_app_config.cpp`) | one caster pointer | listen, close | two casters share one pointer and one static packet counter | planned |
| Publish tokens, source manager, live source (`U/app/srs_app_stream_token.cpp`, `srs_app_rtmp_source.cpp`, `srs_app_rtmp_conn.cpp`) | tokens, pool, `can_publish_`, consumers, `stream_die_at_`, `publisher_idle_at_`, the hub's activity | acquire and release, `fetch_or_create`, `on_publish`, `on_unpublish`, `create_consumer`, `on_consumer_destroy`, the timer | sessions switch between any two of these, calls fail half way, clocks are set in several places; publishers exclude each other, what is recorded of the sessions is exact, used sources stay and unused ones go | `LiveSource` |
| Delivery (`U/app/srs_app_rtmp_source.cpp`, `srs_app_rtmp_conn.cpp`, `srs_app_recv_thread.cpp`) | meta cache, GOP cache, a queue per consumer, the waiting flag | `on_meta_data`, `on_audio`, `on_video`, `consumer_dumps`, `enqueue`, `shrink`, `dump_packets`, `wait`, `wakeup`, `do_playing`, `process_play_control_msg` | joins at any moment, time that goes back, overflow, lost wake-ups, control messages in the middle of a send, headers that change; headers reach every player, a group is complete, nobody sleeps over a full queue | `LiveDelivery` |
| RTC NACK receiver (`U/kernel/srs_kernel_rtc_queue.cpp`, `U/app/srs_app_rtc_source.cpp`) | range of numbers received, list of numbers to ask for | `on_nack`, `update`, `insert`, `get_nack_seqs` | 16-bit numbers wrap, packets come late and twice, the list fills, requests time out; no gap is overlooked, nothing received is asked for | `RtcNack` |
| The rest of SRS | | | taken over unchanged | not modelled (section 6) |

## 2. The modules

Components are written as operators on records, so that the module that drives a
component alone and the module that composes several use the same definitions.

| Module | Role |
|---|---|
| `ReorderBuffer` | the class as operators on a record |
| `ReorderBufferSpec` | one buffer under any use of its interface |
| `OrderedDelivery` | abstract: a cursor and the numbers delivered behind it |
| `FecRepair` | groups and their manager as operators on a record |
| `FecRepairSpec` | one manager under an unreliable network |
| `QuicFecTsAdapter` | the adapter: extends `FecRepair` and `ReorderBuffer` |
| `QuicFecTsPipeline` | several adapters, their shared counter, `feed`, `flush`, reclaiming, time |
| `TsHandler` | what follows the pipeline: TS packets, the demuxer's message, parameter sets, the source |
| `QuicUdpHandler` | handler, sessions and the statistics' connection table |
| `MyProtoAdapter` | the sample adapter, its client and a lossy network |
| `LiveSource` | one stream: token, pool, source objects, publishers, players, adapters, timer |
| `LiveDelivery` | one source's media path: caches, consumer queues, play loops, receive coroutines |
| `RtcNack` | one RTC track: ring buffer range, NACK list, timer, a lossy network |
| `MC*` | values of the constants for TLC |
| `FecReorderProofs` | theorems about `FecRepairSpec` and `ReorderBufferSpec`, and the lemmas on their operators |
| `QuicFecTsProofs` | theorems about `QuicFecTsPipeline`, from those lemmas |
| `TsHandlerProofs`, `QuicUdpHandlerProofs`, `MyProtoProofs`, `LiveSourceProofs`, `LiveDeliveryProofs`, `RtcNackProofs` | theorems about the component of that name |

`QuicFecTsPipeline` composes the FEC and reorder components; its `Reclaim` is the
effect on an adapter of the clean-up that `QuicUdpHandler` models in full.
The names of `FecRepairSpec` and `ReorderBufferSpec` carry the component (`FecNext`,
`ReorderNext`), as `QuicFecTsProofs` uses the lemmas about both beside the pipeline's `Next`.
`LiveSource` composes the token manager, the source manager, the sources and all
that use them; `LiveDelivery` opens up what happens on one source between `on_publish`
and `on_unpublish`, and takes from `LiveSource` that there is one publisher
(`OnePublisher`), that a consumer exists exactly while its player plays
(`ConsumersArePlayers`), and that the hub is active exactly while the source is published
(`HubWhilePublishing`).
`PROJECT.json` maps each definition to the lines it stands for.

### How the models abstract

* **Time.** The code compares `now - timestamp` with a deadline. Each model keeps
  that difference as an age that a `Tick` increases and that saturates one past
  the longest deadline: larger values are indistinguishable to the code. `Tick` is
  always possible, so a deadline can pass between any two calls.
* **Payloads.** In the reorder buffer a payload is its size and the offset of the
  first `0x47`, which is all `align_ts_packets` uses to decide how many packets come
  out. In FEC, of the arithmetic only its *success* is modelled: the constant
  `Singular` names the systems whose elimination fails, and where the first sync byte
  of a restored block lies is nondeterministic. Whether the restored bytes are right
  is a question for a later module (section 7).
* **Bytes of MyProto.** A byte is `<<k, i>>`: byte `i` of frame `k`. Reading a header
  anywhere but at byte 0 of a frame meets no magic number. Thus `FramesIntact` can say
  that a payload holds exactly the bytes that were sent.
* **Units of TS messages.** A message is a sequence of units (a parameter set with
  its value, a frame, a unit to skip, an empty one, bytes without a start code), one
  to a TS packet, and sizes are counted in packets. Which packets of a message are
  missing is not in the code: `missing` counts them, so that a property can compare the
  message handed on with what was sent. Of the FLV conversions and of
  the source only failure is modelled: any one unit of a message may fail, at most
  `MaxFaults` times. A failed `srs_assert` ends the process, and `Restart` follows.
* **Pointers.** In the handler an adapter is the number of its creation, so a
  session's pointer to a destroyed adapter differs from one to its successor.
* **Atomicity.** `feed` and `on_udp_packet` are single actions, error returns
  included, because the coroutine does not yield in them. `MyProtoAdapter` is finer:
  one iteration of the parse loop is an action, so that a loop that does not end is
  visible.
* **Sessions.** In `LiveSource` an action is what a coroutine does between two points
  where it may switch: up to the answer to the client, up to the hub (HLS, DVR and
  the rest may wait), up to the unpublish hooks. `broken` and `quiet` are not in the
  code: they remember that an `on_publish` failed half way, and when the source was
  last used.
* **Objects.** An `SrsLiveSource` is a name that is free again when no shared pointer
  holds it, so a pool entry and an older source of the same stream can coexist.
* **Media.** In `LiveDelivery` a message is a header with its content, or a frame with
  the header it belongs to and its place in the group of pictures. A decoder is a
  small state machine over messages; the model keeps the decoder of someone who saw
  the whole publication, of what a player was sent, and of what it will have been sent.
  In a queue the code tells apart headers, metadata and frames, and so does the model.
  Timestamps are what `SrsRtmpJitter` makes of them: steps of up to 250 ms in either
  direction pass, larger ones become 10 ms. Only the span of a queue matters, and `Far`
  stands for every time beyond what a step comes back from. A queue that was emptied in
  part starts at the time of the last message taken, which the model does not keep:
  `SpansLeft` is what the span may be then. A player's first frames at time 0, where
  the correction stops at 0, are left out.
* **RTP numbers** are modulo `2 * HalfRange`, with the code's signed distance. The
  network delivers packets among the last `Window` sent, in any order and number.
* **Mode detection.** A datagram carries the classes `detect_protocol` distinguishes
  (length, first byte, plausibility of the header), so each branch has its own
  datagrams in `MCQuicFecTsPipeline`.

### Correspondence to the code

| Model | Code |
|---|---|
| `AddPacket` (duplicate, full, old, stored) | `add_packet`, its early returns in order |
| `StopsAt`, `Drain`, `Handed` | the loop of `get_ordered_packets` |
| `EnsureGroup`, `Victim`, `Refused` | `create_group_if_needed` with its eviction |
| `CheckAndRepair`, `Repairs`, `RepairOrder` | `check_and_repair_with_metadata`, `repair`, `repair_rs`, `repair_xor` |
| `Detect`, `FeedBareTs`, `FeedIgnored`, `FeedRejected`, `FeedBlock` | `feed` by the path it takes |
| `Process` | `process_fec_groups` followed by `process_reorder_buffer` |
| `LatePacket`, `DropPacket`, `FirstPacket`, `ReapPacket`, `GatherPacket`, `CutPacket` | one iteration of `output_ts_packets`, by what `SrsTsContext::decode` and `SrsTsPayloadPES::decode` do with the packet (skip it as late; free the partial message behind a gap, or skip it with no message; begin one; end one and begin the next; continue one) and whether the message is handled early |
| `Late`, `Gap`, `Continues` | the two tests of the continuity counter |
| `OnVideo`, `WriteSet`, `WriteHeader`, `WriteFrame` | `on_ts_video`, `on_ts_video_hevc` and the `write_h264_*`, `write_h265_*` operations; `codec` selects the differences |
| `AudioPacket`, `OnAudio` | `on_ts_audio`, `write_audio_raw_frame` |
| `Elsewhere` | another adapter raising the shared `last_processed_size` |
| `OnUdpPacket` | `on_udp_packet`, `get_or_create_adapter`, `get_or_create_quic_session`, `cleanup_expired_adapters` |
| `Registered`, `Unregistered` | `add_connection` by adapter and handler; `remove_connection` by `close`, the destructor and the handler |
| `Feed`, `ParseHeader`, `ParsePayload`, `Complete`, `Return` | `MyProtoAdapter::feed`: up to the loop, one iteration by state, after the loop |
| `CreateStdFrame` | `createStdFrame`, `validateTimestamp`, `processParameterSets`, hot start, B-frame drop |
| `Replace` | `close`, the end of the adapter, and the `start` of the next one |
| `StartPublish`, `PublishRefused`, `PublishBusy`, `PublisherLeaves` | `stream_service_cycle` and `publishing` up to `acquire_publish`, and their ends |
| `OnPublish`, `PublishSucceeds`, `PublishFails` | `on_publish` before and after the calls that may switch or fail |
| `PublisherGone`, `Kick`, `StopPublish`, `PublishStopped` | the end of `do_publishing` by client or idle kick, the two halves of `on_unpublish` |
| `StartPlay`, `CreateConsumer`, `DestroyConsumer`, `PlayerLeaves` | `playing` and what surrounds it |
| `Notify`, `Dead` | `SrsLiveSourceManager::notify`, `stream_is_dead` |
| `AdapterOpens`, `AdapterCloses` | `create_source` and `close` of the bridge |
| `OnMessage`, `HubFails` | `on_meta_data`, `on_audio_imp`, `on_video_imp`, with and without a failing hub or bridge |
| `Remembered`, `Cached`, `Dumped` | `SrsMetaCache`, `SrsGopCache::cache`, what `consumer_dumps` queues |
| `Later` | `SrsRtmpJitter::correct` |
| `Enqueue`, `Shrunk`, `Taken`, `SpansLeft`, `DumpPackets`, `Fires`, `Ready` | `SrsLiveConsumer` and `SrsMessageQueue` |
| `Pump`, `Answered` | the top of the loop of `do_playing`: a message is taken from the receive queue, `process_play_control_msg` ends the session, or answers and then sets `paused_` |
| `Wait`, `Wakes`, `Proceed`, `Sent`, `SendFails` | the rest of a round, cut where it waits and sends; a message that comes meanwhile stays in the receive queue until the next top |
| `Receives`, `ReceiveFails` | `SrsRecvThread::do_cycle` with `consume` and `interrupt` |
| `First`, `Follows`, `Before`, `Within`, `Recovered` | `on_nack`, by what `find` and `update` answer |
| `GetNackSeqs` | `get_nack_seqs` as the timer calls it |

`Compose` and `Lose` of `MyProtoAdapter`, and the choice of the next packet in all
models, stand for clients and network and have no code.

## 3. What TLC checks

Deadlock is checked in every run. Where a property says "whatever the client
sends", the small instance contains each class of input the code distinguishes.

Invariants that bound or balance the same state are checked as one conjunction, named
in the module that states its parts:

| Conjunction | Parts |
|---|---|
| `FecInv` | `FecTypeOK`, `GroupBound`, `GroupAccounting`, `BlocksAreSeen` |
| `PipelineInv` | `TypeOK`, `NumbersFresh`, `LeftoverBounded`, `NothingWaits` |
| `TsInv` | `TypeOK`, `HandedOnce`, `HevcHeaderCurrent` |
| `Reassembled` | `FramesIntact`, `OneBehind` |
| `RecordsExact` | `TypeOK`, `ConsumersArePlayers`, `BusyWhilePublished`, `HubWhilePublishing`, `IdleClock` |
| `DeliveryInv` | `TypeOK`, `SleepersAreShort` |
| `NackInv` | `TypeOK`, `ListBounded`, `OnlyMissing` |

`ReorderTypeOK`, `TypeOK` of the handler and of MyProto, and `DeliveredBehind` and
`OnlyIdleReclaimed`, are proved for all parameters (section 4) and not checked again.

| Run | Question and result |
|---|---|
| `reorder` | 4 packets over 4 numbers, 3 payload shapes, keyframes, expiry, clear. Nothing is stranded behind the cursor, the byte limit holds, every packet is accounted for, delivery is in order across calls, the buffer refines `OrderedDelivery`, and a fragment whose predecessors are there leaves. |
| `fec` | table of 2, ids 0-2, k=2, n=3, blocks of two sizes, indices up to one past the range. The table's bound and accounting hold, a group holds exactly the blocks received, what is handed out is backed by k blocks, no group is lost before its deadline, every group leaves. |
| `handler` | 3 clients, failing session set-up and failing packets, clean-up every 2nd packet. No session points to a dead adapter, the three tables agree, and idle adapters are eventually reclaimed. `ActiveLeak` states exactly how far the "active" gauge is off. |
| `pipeline_single` | one connection, 7 calls, all kinds of datagrams. Every block with a TS packet comes out at once, numbers are fresh, only restored blocks leave their place in a group, leftover bytes are bounded and belong to bare TS, no repairable group waits between calls, table and buffer stay within their limits. |
| `pipeline_stall` | **violated**: with two connections a connection's fragments stay in its buffer for good. |
| `ts` | H.264 and HEVC, messages of up to 4 packets on a network that loses and repeats packets and delivers them up to 2 late, counters modulo 4, messages handled early from 3 packets on, one failing conversion or push anywhere. A message handed on has no gap, or one of a whole round of the counter; a set not marked as changed is the one the source has, no frame comes before a header, an HEVC header is current, no unit is handed on twice, and early handling happens only so often. |
| `myproto` | streams of up to 4 frames cut anywhere, up to 2 faults (lost datagram, payload too long, adapter replaced), timestamps that repeat and go back, silence, both configurations. Frames are put together right, at most one is left over, dts never goes back, a stream resumes at a keyframe. |
| `myproto_hang` | **violated**: `feed` does not return when a part of a header is left. |
| `live` | 2 publishers, 2 players, an adapter, a pooled source and one already erased. Publishers exclude each other; busy mark, hub, consumers, idle clock and time of death are exact at every switch; the timer takes no used source and every unused one; an unwatched publisher is kicked off. |
| `live_adapter` | **violated**: the source an adapter feeds does not stay the one players get. |
| `delivery` | a player, one video header and two audio headers, groups of two frames, a queue of two ticks, frames a tick later or earlier than the one before, dumps of at most three messages. The headers in force reach the player, it is in step with its group, it does not sleep over a full queue, loses nothing when it keeps up, obeys every control message, and its queue moves unless time goes back again and again. |
| `nack` | 6 numbers, packets up to 2 late, a list of 3. Every gap is listed, over the wrap too, nothing received is asked for, the list is bounded, every request ends. |

### Bounds, and why they are enough

* Sequence numbers and packets (4): an anchor, a gap, a late packet and a duplicate
  fit together. The largest buffer (5 bytes) holds two full packets and refuses a
  third. Number 0 is included, since 0 is also the "nothing yet" value of
  `expected_sequence_`.
* FEC: two slots and three ids make a full table, an eviction and a re-created group;
  3 creations suffice for one after another. Id 0 is the interesting one. With k=2
  and n=3 a group completes, is repaired by `repair_rs`, or fails to be repaired
  because its blocks differ in size and stays (`MaxFailed` only caps the counter of
  failures). The `repair_xor` branch is reached only
  with k=1 or after a failed elimination; it hands out the same blocks.
* Handler: three connections, so that one keeps the process busy, one is silent
  and one comes back; 4 creations, so that an adapter is replaced.
* Pipeline: 7 calls make up two groups with repair, a bad datagram and a flush.
  Two connections are enough for interference, as the counter does not know who asks.
* TS: a threshold of 3 packets and a step of 1 (the code: 1300 and 1000 bytes, about
  8 and 6 packets) keep the threshold above the step, and as packets are lost and
  the client goes on with other messages, a message grows to 4 and more and is handled
  early a second time. The counter has 4 values in place of 16 and the client's last 3
  packets may arrive: `Lateness + 1 < Counters` is assumed, as a packet late by a whole
  round has the counter of another. `age` saturates where a whole round is missing
  however late the packet (`Oldest`), `missing` at `Counters`. The messages hold each kind of
  unit, a full set of parameter sets, changes of one, and a short SPS; lost packets make
  others of them. `MaxGather` lets the client wait while the partial message is that long.
  One fault at any unit of any message is followed by every continuation.
* MyProto: a header of 2 bytes where the code asks for 3 keeps the difference
  between the 35 bytes a header takes and the 48 bytes `parseHeader` waits for;
  payloads of 0, 1, 2 and 3 (too long) bytes and datagrams of up to 6 give every cut.
* Live source: two publishers contend for the token while two players leave a last
  player behind or not. Two source objects are the pooled one and one that was erased
  while a session or the adapter still held it; a session that would need a third
  waits. Clean-up and idle timeout of one tick separate "now" from "later".
* Delivery: one player, as players share nothing but the source. Two audio headers
  let one change, the video header is sent again; `GopMaxFrames = 2` lets the cache overflow, `GuessCount = 1` lets it be
  cleared as pure audio; `QueueLength = 2` with frames of one tick lets the queue
  overflow, `MwSleep = 1` lets the player sleep. `MaxGop` bounds the publisher's group.
  `MaxDump = 3` (the code: 128) leaves a part of a queue behind. The code does not bound
  how many messages without duration (headers, metadata), or whose time does not advance,
  pile up in a queue: `Crowd` and `Stalls` are the queue sizes below which they are sent,
  and what follows depends only on the last header of each kind. `MaxBack` bounds how far
  before the start of a queue a frame may be.
* NACK: with `HalfRange = 3` numbers wrap after 6; `Window = 2` is below half of that,
  as in practice, and a gap of two in front of the wrap occurs. A list of 3 fills up,
  one repetition (`MaxCount = 0` allows one request) and both ways of giving up occur.
  The safety properties also hold with `HalfRange = 4`, `Window = 3` (2.3 million states).
* Ages saturate one above the deadline (deadlines are 1, relaxations 1).

The bounds are named in the modules: `MaxPackets`, `MaxCreated`, `MaxFailed`,
`MaxFed`, `MaxFaults`, `MaxFrames`, `MaxDatagram`, `MaxGather`, `Lateness`, `MaxGop`, `MaxBack`,
`Crowd`, `Stalls`, `Window`.

### Fairness

* `ReorderBufferSpec`, `FecRepairSpec`: weak fairness of the drain or check and of
  time (`ReorderTick`, `FecTick`). Each datagram's `feed` ends in `process_fec_groups` and
  `process_reorder_buffer`, so this says that datagrams keep arriving; and time
  passes.
* `QuicUdpHandler`: weak fairness of `KnownPacket` (some known client keeps sending
  packets that are handled) and of `Tick`. The code cleans up on every 100th handled
  packet only, so `IdleReclaimed` cannot hold with less: if all clients fall silent,
  nothing is reclaimed.
* `MyProtoAdapter`: weak fairness of `Loop`, a running coroutine keeps running.
  No fairness is assumed of clients.
* `LiveSource`: weak fairness of `Tick`, of `Notify` (the manager's timer), of `Kick` (the
  publishing loop comes round at least every publish timeout) and of `PublishStopped`
  (the hub and the handler answer). None of clients: players and publishers may stay.
* `LiveDelivery`: weak fairness of a player's own steps, and of a published stream's
  frames: a publisher silent for the publish timeout is thrown out, which ends the
  publication and with it what the properties ask. Of the frames it is assumed that time
  and again one is later than the one before. Between those, others may stand still or go
  back, as `SrsRtmpJitter` lets them, for ever: then nothing says that the queue's duration
  grows, and `QueueMoves`, and `ClientIsHeard` for a client that is gone, name exactly this
  case (`GoesBack`) as the only one in which a player may sleep on. That a control message
  is taken up, and obeyed, does not depend on frames at all.
* `RtcNack`: weak fairness of `Tick` and of the timer's check with the circuit breaker
  off; while it is on, nothing is asked for or given up.

## 4. What is proved

The theorems hold for every value of the constants that satisfies the named
assumptions: any set of sequence numbers and shapes, any finite set of
connections, any set of frames and any limit.

**Reorder buffer** (`FecReorderProofs`; assumes `ReorderConfigAssumption`,
`WorkloadAssumption`). The inductive invariant `ReorderIInv` is `ReorderTypeOK`, `NoStranded`,
`DeliveredBehind` and `Accounting`. `NoStranded` alone would not do for `Drain`, whose
removed range must be shown to hold the fragments counted, and `InOrder` needs
`DeliveredBehind`: what a drain hands out is at or above the cursor, what was handed
out before lies below it. Lemmas say what each operator does to the record
(`AddPacketEffect`, `DrainResult`, `ClearResult`, `BufferAgeResult`); the invariant's steps use
those rather than the definitions. Theorems: `ReorderTypeCorrect`, `NothingStranded`,
`PacketsAccounted`, `DeliversInOrder`, and `ReorderImplements`, the step simulation of
`OrderedDelivery` with `expected_sequence_` as the cursor. `BytesBounded` (`SizeBound`) is
about a sum over the buffered fragments, a fold the prover cannot compute: the lemmas show
that on the subsets of a finite set there is a function that is 0 on the empty set and grows
by one member's size at a time (`SumExists`, `IsSum`), that the fold is that function
(`BufferSizeIsSum`), that it does not depend on which member is taken (`SumWithout`), and
that it is monotone (`SumBelow`).

**FEC groups** (`FecReorderProofs`; assumes `FecConfigAssumption`,
`FecWorkloadAssumption`). The invariant is `FecInv` and `NoHistory`: a group that is not in
the table has seen no block, without which a group created again under an old id would not
satisfy `BlocksAreSeen`. Every operation yields a manager that succeeds the one before
(`Succeeds`): groups stay as they were but for the one named, and what went was expired.
Theorems: `FecCorrect`, and from the same description of a step the action properties
`LiveGroupsStay` (`NoLiveGroupLost`) and `DeliveriesBacked` (`DeliveryBacked`), for every k and
n, table size, deadline, and set of systems that cannot be solved.

**Pipeline** (`QuicFecTsProofs`; assumes `PipelineAssumption`, `FecConfigAssumption`,
`ReorderConfigAssumption`, `DetectionAssumption`). The invariant `PipeIInv` says that every
adapter is settled and every number recorded. `Settled` has three parts: the manager is
at rest (`AtRest`: nothing in the table can be repaired, so at most the group of the block
just taken is ready, and a call lists k blocks or none), the buffer counts along (`Counting`:
what is buffered is a number given out and not behind the cursor, which is at most at the
next one), and the input is framed (`Framed`). The properties alone are not
inductive: that a number is never a duplicate or old (`NumbersFresh`) rests on `Counting`, and
`OnlyRestoredOutOfTurn`, which tells groups apart by `s % K`, on a call giving out k numbers
or none. `Counting` is kept when *another* connection takes numbers (`CountsOn`), which is
why the shared counter is harmless to `NumbersFresh`, though not to `NothingLost`. The
three functions a call computes are recursive or folds; `ListOf`, `IsFill` and `StopExists` say
what they come to. Theorems: `PipelineCorrect` and `OnlyRestoredMove`, for any set of
connections; and `NothingLostAlone`: with one connection, and room in the buffer for a
group of the largest blocks its client sends (`GroupFits`), `NothingLost` holds. Its
invariant `AloneInv` adds that between calls every buffer is empty with its cursor at 0 or at
the next number (`CaughtUp`), so the k fragments of a call stack up without a gap (`Stacked`)
and all leave in the same call. Both hypotheses are needed: `pipeline_stall` is the
counterexample with two connections, and a buffer that cannot hold a group refuses a
fragment (`IsFull`) whose number is then missing for good.

**TS handler** (`TsHandlerProofs`; assumes `TsAssumption`). Two invariants that no step
connects: `HandlerInv`, what the handler knows of the source (`Sound`: a set not marked as
changed is the one shown, and no frame came before a header; `Current` for HEVC), and
`PacketInv`, which ties the channel's continuity counter to the client's: the two differ by the
packets sent since, modulo `Counters`, as long as fewer than a round were, and what is
missing in a partial message is nothing or a whole round. That a packet which continues
the message is the next one or a round later (`ContinuesWhole`, `WholeRounds`) needs
`Lateness + 1 < Counters`. A message is handled unit by unit in
a recursive function, so what each unit preserves is lifted to the message by induction on
the unit's position, for every failing unit and every early return. Theorems: `TsCorrect`,
`HeadersTracked`, `FramesFollowHeader`, `GapsAreNoticed`, `CutsAreBounded`, for any values,
messages, thresholds, counters and losses.

**Handler** (`QuicUdpHandlerProofs`; assumes `HandlerAssumption`). `HandlerInv` is
`TypeOK`, `NoDanglingSession`, `TablesAgree` and `ActiveLeak`. They need each other: a
session of a reclaimed connection goes because adapters and activity have the same
domain, and the gauge is exact because the statistics' table equals that domain when
`remove_connection` looks an entry up. Theorems: `HandlerInvariant`,
`HandlerTypeCorrect`, `SessionsNeverDangle`, `TablesAlwaysAgree`, `ActiveDrift`,
`ReclaimsIdleOnly`.

**MyProto** (`MyProtoProofs`; assumes `MyProtoAssumption`). `ParserInv` adds to the type
invariant that every byte in flight belongs to a frame that was sent and that a
payload being collected fits its header; without the latter `Len(payload) <= MaxPayload`
is not inductive. `StreamInv` adds that what was pushed has a dts at most
`last_dts_ms_`, and how the gate relates to the silence. `Undisturbed` carries
`Reassembled`: as long as no byte was lost, the bytes in the input and on the wire are the
rest of the stream of frames (`Track`), starting at the byte the parser needs next
(`Cursor`), and everything before was taken apart (`TakenApart`); `Reassembled` itself says
nothing of the bytes still under way and is not inductive. Theorems:
`MyProtoTypeCorrect`, `DtsNeverGoesBack`, `ResumesOnKeyframe`, `StreamReassembled`, for any
lengths of header, frames and datagrams.

**Live source** (`LiveSourceProofs`; assumes `LiveAssumption`). The invariant is
`Sessions` (types, the token's holder is the only publisher under way, sessions hold
sources) and `SourceInv` for every source: `BusyWhilePublished`, `HubWhilePublishing`,
`ConsumersArePlayers`, `IdleClock` and `GracePeriod` restated for one source, with what
connects them. `GracePeriod` is not inductive alone: that the last to leave sets the time
of death rests on the busy mark and the consumers being exact. Every action changes at
most one source and destroys those nobody holds (`Settle`), so the proof splits into what
an action does to the source it names and a lemma for all the others. Theorems:
`LiveTypeCorrect`, `TokenExcludes`, `ConsumersExact`, `BusyExact`, `HubExact`, `IdleExact`,
`RecordsAreExact` (their conjunction), `GraceExact`, `UsedSourceStays`, for any sets of
sessions, adapters and source objects.

**Delivery** (`LiveDeliveryProofs`; assumes `DeliveryAssumption`). The invariant compares
everything with one decoder, that of the published stream. The meta cache has its headers
(`MetaTracks`); the GOP cache, if it holds a keyframe, takes a decoder with its video header
to the frame it is at (`GopTracks`); and a consumer will have heard its headers and, unless
its group was cut, is at the same frame (`Tracks`). `HeadersReach` and `InStep` follow from
`Tracks` but are not inductive: a player that joins gets what the caches hold, which is
`JoinTracks`; and `shrink` throws away what a client was going to hear, so that `Pending`
must say that what was sent and what is queued add up to the headers that will have been
heard; when a part of the queue is sent, `CfgParts` moves that part from one to the other.
`Drained` says where the span of an emptied queue starts. Theorems:
`DeliveryCorrect`, `HeadersArrive`, `PlayersInStep`, and `PromptPlayersLoseNothing`. The last
assumes that no frame takes longer than `queue_length`: `SrsRtmpJitter` replaces steps
beyond 250 ms by 10 ms, and `queue_length` is in seconds (30 by default). Everything else
holds for any times, also those that go back.

**NACK** (`RtcNackProofs`; assumes `NackAssumption`). The signed distance modulo the number
space is first reduced to linear arithmetic: `Off(x, y)` is how far y is behind x, and lemmas
give each operator of the model in its terms. The invariant places every number behind the
newest one sent: the end of the range is at most half the number space back (`EndPlaced`),
what arrived and what is asked for lies behind it and has not come round (`BehindEnd`), and
what lies between is received, listed or given up (`Covered`). Theorems: `NackCorrect` and
`NoGapOverlooked`, for every size of the number space, window, limit and timeout.

### Induction over data

The library's induction theorems take an operator as a parameter, which the installed
provers cannot instantiate. Where a fact about every sequence or finite set is needed, the
proofs use that a non-empty set of numbers has a least element (`LeastElement`, from
`NatLessThanWellFounded` and `WFMin`): the set of lengths or sizes for which the fact fails is
a set, not an operator, and its least element gives the contradiction. The same argument
shows that the functions a recursive definition asks for exist (`RecursionExists`,
`SumExists`), which is what makes the `CHOOSE` behind them meaningful.

### Only model-checked

Liveness (`ReadyLeaves`, `GroupsLeave`, `IdleReclaimed`, `UnusedIsErased`, `IdleIsKicked`,
`ClientIsHeard`, `QueueMoves`, `NacksEnd`) is outside what the prover handles. Every other
property that a passing run checks is stated by a theorem. What the violated properties of
section 5 say is shown by TLC's counterexamples only.

## 5. Findings

Runs that show a disagreement between the code and what its documents say:

1. **Two connections stall each other** (`pipeline_stall`). The numbering counter is
   shared by the process, the reorder buffers are not.
2. **`feed` of MyProto may never return** (`myproto_hang`). It asks for 48 bytes before
   it parses a header of 35 and goes round its loop while a single byte is left.
3. **The source an adapter feeds is erased** (`live_adapter`). The bridge creates a
   source and never publishes it, so the clean-up timer takes it out of the pool while
   it is fed, and players that come later get another one.

Seen while modelling. The models follow the code in each of these, and the
properties above state what holds in spite of it:

* `get_ordered_packets` tests expiry only at `expected_sequence_`: an overdue fragment
  behind a gap stays for good, where
  `src/note/QUIC_FEC_TS_Adapter_Implementation_Summary.md:16` promises a timeout drop.
  `ReadyLeaves` says which fragments do leave.
* An expired group with id 0 is never evicted from a full FEC table, because 0 is also
  "no victim" (`Victim`).
* `repair_rs` returns restored blocks first, and they are numbered in that order
  (`OnlyRestoredOutOfTurn`).
* `output_ts_packets` handles a message of unknown length once it has 1300 bytes and takes
  it from the demuxer, which then drops the packets that continue it. `CutsBounded`
  says that the damage stops, as `last_processed_size` never falls.
* `SrsTsPayloadPES::decode` takes a counter between 0 and the last one for a late packet,
  also when it is a gap over which the counter wrapped: where the comment at
  `U/kernel/srs_kernel_ts.cpp:2078` wants a partial message dropped, packets are skipped
  until the counter comes round, and the message goes on with a whole round missing. TLC
  reaches such a message, which is why `GapsNoticed` allows exactly `Counters` packets to be
  missing, and nothing between. The other way round, a repeated packet with the last value
  of the counter passes for a gap and frees the message.
* When the hub, the handler or the bridge fails in `on_publish`, the source stays marked
  as published, is refused to every later publisher and never erased: `publishing` skips
  `release_publish` (`broken` in `LiveSource`). When `initialize` fails, the source stays
  in the pool (`InitializeFails`).
* When a player's client goes away while `do_playing` is sending or about to wait, the
  wake-up finds nobody and `wait` does not look at the error: the disconnect is noticed
  when the queue is long enough, or never if nothing is published (`ClientIsHeard`).
* `SrsRtmpJitter::correct` passes steps from -250 to 0 ms, where its comment
  (`U/app/srs_app_rtmp_source.cpp:108` and `:114`) promises a positive delta and monotonic time.
  Frames whose time goes to and fro keep the duration of a queue below `mw_latency`: the
  player sleeps over a queue that grows without `queue_length` stopping it, and does not
  notice that its client is gone. `QueueMoves` and `ClientIsHeard` show that it takes such
  frames again and again.
* Metadata carries the timestamp 0; when it is the last message sent, `dump_packets` sets
  the start of the queue to 0 and the next frame looks like an overflow
  (`PromptLoseNothing`). `shrink` drops the frame just queued too, a keyframe or not.
* After `gop_cache_max_frames` or the pure-audio guess cleared the cache, it goes on in the
  middle of a group, and a player that joins then starts there (`cut`). A header that
  changes in front of the next keyframe is given to a joining player before the old group.
* With `reduce_sequence_header` metadata is never passed on, and a header equal to that of
  the publication before is kept from players that joined in between (left out of the
  model by its configuration).
* `begin_` of the RTP ring buffer moves only when a request is given up: a packet late or
  doubled after that, and any doubled one once more than half the range of numbers has
  passed, is taken for one before `begin_`, and packets that arrived are asked for
  again (`early` in `RtcNack`).
* `repair_rs` solves from parity alone without subtracting the surviving data blocks;
  `to_json` takes a non-recursive mutex twice; `packet_count` is shared by the handlers of
  both casters; `write_h264_sps_pps` resends only when both sets changed, and the AAC
  configuration is never resent, where
  `src/note/QUIC_FEC_TS_Adapter_Implementation_Summary.md:32` promises both; an SPS below 4
  bytes reaches an assertion of `mux_sequence_header` (`TsHandler` follows it).

## 6. Not modelled

* The QUIC library's session code: not compiled in the default build, and its
  behaviour is the library's. Both outcomes of its calls are in `QuicUdpHandler`.
* The TS demuxer beyond what `TsHandler` needs of it: PSI, PES headers, adaptation fields,
  video messages that state their length. `QuicFecTsPipeline` ends, and
  `TsHandler` begins, with a TS packet put out.
* Of the live source: edge vhosts, origin clusters, HTTP-FLV players, SRT and RTC
  publishers on the same token; `SrsMixQueue`, aggregate messages, `atc` and the jitter
  algorithms other than full; what HLS, DVR and the other parts of the hub do with a
  message (only that they may wait or fail).
* Of RTC: everything but the NACK receiver.
* Format conversions (annexB to AVCC, ADTS to FLV), logging, configuration parsing,
  the end-to-end test helper.
* The rest of SRS. The repository has some 320 000 lines of implementation, of which the
  adapter layer is about 7 000; most of the others are utests (a third), parsers and
  muxers of file and wire formats, generated tables, configuration and HTTP handlers.
  A model of those would repeat them; the parts with state, concurrency and time are
  what is modelled or planned here, so the map covers a small share of all lines.
* Operations without a caller: `set_expected_sequence`, `reset_stats`,
  `setOnStartStream`, `setOnStopStream`. `cleanup_expired` and `flush` have none either
  but are modelled, as the interface offers them.

## 7. Plan

In the order of what matters most to the system:

1. `GaloisSolve`: `gf_mul`, the matrix and the elimination over a small field as
   functions, checked against a reference; it gives `Singular` its real value.
2. `AdapterStats`: counters, `to_json`, the HTTP handler and the mutex.
3. `JitterBuffer` and `FrameBus`: order, capacity, late drop, against an abstract
   bounded queue.
4. `Casters`: creation and closing of both casters, the shared pointer and the shared
   packet counter, composed with two `QuicUdpHandler`s.
5. `ResourceManager` (`U/kernel/srs_kernel_resource.cpp`), the edge state machine and the
   RTC send side.
