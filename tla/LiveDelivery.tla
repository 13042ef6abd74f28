---------------------------- MODULE LiveDelivery ----------------------------
(***************************************************************************)
(* What a published stream goes through on its way to the RTMP players:    *)
(* the headers remembered by SrsMetaCache, the last group of pictures in   *)
(* SrsGopCache, the SrsMessageQueue of every SrsLiveConsumer, the loop of  *)
(* SrsRtmpConn::do_playing that empties it, and the coroutine of           *)
(* SrsQueueRecvThread that hears from the client.                          *)
(*                                                                         *)
(* A message is a header or a frame; a frame belongs to a configuration    *)
(* (that of the header before it) and to a place in its group of pictures. *)
(* What a decoder makes of a sequence of messages is a state of its own,   *)
(* which is kept for the published stream, for what a player was sent and  *)
(* for what it is going to be sent.  Time is what SrsRtmpJitter makes of   *)
(* the timestamps: it takes small steps, also backwards.  The vhost has    *)
(* time_jitter full, and atc, mix_correct, reduce_sequence_header and      *)
(* send_min_interval off; the audio codec has sequence headers.  Left out  *)
(* are a player's first frames at time 0, below which its time cannot      *)
(* fall.                                                                   *)
(***************************************************************************)
EXTENDS Integers, Sequences

CONSTANTS
  Players,      \* RTMP connections that play the stream
  VideoConfigs, \* contents of video sequence headers
  AudioConfigs, \* contents of audio sequence headers
  None,         \* nothing
  GopCache,     \* gop_cache
  GopMaxFrames, \* gop_cache_max_frames, 0 for no limit
  GuessCount,   \* SRS_PURE_AUDIO_GUESS_COUNT
  QueueLength,  \* queue_length
  MwMsgs,       \* mw_msgs
  MwSleep,      \* mw_latency
  MaxDump,      \* SRS_PERF_MW_MSGS
  FrameTimes,   \* steps of time from frame to frame; a header takes none
  MaxGop,       \* bound: the publisher's groups have at most this many inter frames
  MaxBack,      \* bound: frames are at most this much before the start of a queue
  Crowd,        \* bound: headers and metadata are sent below this queue size
  Stalls        \* bound: time stands still or goes back below this queue size

ASSUME DeliveryAssumption ==
  /\ None \notin Int \cup VideoConfigs \cup AudioConfigs
  /\ GopCache \in BOOLEAN
  /\ {GopMaxFrames, GuessCount, MwMsgs, MaxGop, MaxBack, Crowd, Stalls} \subseteq Nat
  /\ FrameTimes \subseteq Int
  /\ {MwSleep, QueueLength, MaxDump} \subseteq Nat \ {0}

VARIABLES
  published,  \* the hub is active
  stream,     \* what a decoder knows that has seen the whole publication
  meta,       \* SrsMetaCache
  cache,      \* SrsGopCache
  consumer,   \* the SrsLiveConsumer of each player
  pc,         \* where its do_playing is
  control,    \* the message in the queue of its receive coroutine, or None
  recvError   \* recv_error_ of its receive coroutine is set

sourceVars == <<published, stream, meta, cache>>
playerVars == <<consumer, pc, control, recvError>>
vars == <<sourceVars, playerVars>>

-----------------------------------------------------------------------------
(* Messages and decoders *)

Message(kind, cfg, n) == [kind |-> kind, cfg |-> cfg, n |-> n]
MetaData == Message("meta", None, None)
VideoHeader(c) == Message("vsh", c, None)
AudioHeader(c) == Message("ash", c, None)
Key(c) == Message("key", c, 0)
Inter(c, n) == Message("inter", c, n)
Audio(c) == Message("audio", c, None)

Messages ==
  {MetaData} \cup {VideoHeader(c) : c \in VideoConfigs}
    \cup {AudioHeader(c) : c \in AudioConfigs}
    \cup {Key(c) : c \in VideoConfigs}
    \cup {Inter(c, n) : c \in VideoConfigs, n \in 1 .. MaxGop}
    \cup {Audio(c) : c \in AudioConfigs}

\* What the queue code tells apart in a queue: headers and metadata.
Queued(m) == IF m.kind \in {"key", "inter", "audio"} THEN Message("frame", None, None) ELSE m

IsVideo(m) == m.kind \in {"key", "inter"}
IsFrame(m) == m.kind \in {"key", "inter", "audio"}

\* A decoder: its headers and the frame of the group it can decode next, None
\* when it needs a keyframe.
Decoders ==
  [vcfg : VideoConfigs \cup {None}, acfg : AudioConfigs \cup {None},
   next : 1 .. (MaxGop + 1) \cup {None}]
NewDecoder == [vcfg |-> None, acfg |-> None, next |-> None]

Decode(d, m) ==
  CASE m.kind = "vsh" /\ m.cfg # d.vcfg -> [d EXCEPT !.vcfg = m.cfg, !.next = None]
    [] m.kind = "ash" -> [d EXCEPT !.acfg = m.cfg]
    [] m.kind = "key" -> [d EXCEPT !.next = IF m.cfg = d.vcfg THEN 1 ELSE None]
    [] m.kind = "inter" ->
         [d EXCEPT !.next = IF m.cfg = d.vcfg /\ m.n = @ THEN m.n + 1 ELSE None]
    [] OTHER -> d

DecodeAll(d, ms) ==
  LET f[i \in 0 .. Len(ms)] == IF i = 0 THEN d ELSE Decode(f[i - 1], ms[i])
  IN f[Len(ms)]

-----------------------------------------------------------------------------
(* The queue of a consumer *)

\* What SrsRtmpJitter::correct makes of a step d.  Far stands for times so far
\* beyond queue_length that no step comes back.
Far == QueueLength + MaxBack + 1
Later(t, d) == IF t = Far \/ t + d > Far THEN Far ELSE t + d

\* span is duration(), None as long as the queue has seen neither start nor end.
\* cut, metaLast, client and heard are not in the code: the current group was
\* dropped or never queued, nothing was queued since metadata was sent, what the
\* client has been sent, and will have been sent once the queue is empty.
NewConsumer ==
  [queue |-> <<>>, span |-> None, waiting |-> FALSE, paused |-> FALSE,
   cut |-> TRUE, metaLast |-> FALSE, client |-> NewDecoder, heard |-> NewDecoder]

\* The last message of that kind, if there is one.
LastOf(q, kind) ==
  LET at == {i \in DOMAIN q : q[i].kind = kind} IN
  IF at = {} THEN <<>> ELSE <<q[CHOOSE i \in at : \A j \in at : j <= i]>>

\* The header of that kind in force after the messages of q.
Cfg(q, kind, before) == IF LastOf(q, kind) = <<>> THEN before ELSE LastOf(q, kind)[1].cfg

\* Mutated form: the audio sequence header is dropped.
Shrunk_VideoOnly(q) == LastOf(q, "vsh")

\* shrink: the last sequence headers are what is left.
Shrunk(q) == LastOf(q, "vsh") \o LastOf(q, "ash")

\* Mutated forms: the condition has to be met exactly; it is not looked at.
Fires_Exact(q, span) == Len(q) > MwMsgs /\ span = MwSleep
Fires_Never(q, span) == FALSE

\* What is enough for the player to be woken (enqueue) and not to sleep (wait).
Fires(q, span) == Len(q) > MwMsgs /\ span # None /\ span >= MwSleep
Ready(q, span) == Len(q) > MwMsgs /\ span # None /\ span > MwSleep

\* SrsLiveConsumer::enqueue of a message d after the one before it.
Enqueue(c, m, d) ==
  LET av    == m.kind # "meta"
      all   == Append(c.queue, Queued(m))
      spans == IF ~av THEN c.span ELSE IF c.span = None THEN 0 ELSE Later(c.span, d)
      over  == spans # None /\ spans > QueueLength
      queue == IF over THEN Shrunk(all) ELSE all
      span  == IF over THEN 0 ELSE spans
      heard == IF over
               THEN DecodeAll(c.client, queue)
               ELSE Decode(c.heard, m)
  IN [c EXCEPT !.queue = queue, !.span = span,
               !.waiting = @ /\ ~Fires(queue, span),
               !.cut = over \/ (@ /\ m.kind # "key"), !.metaLast = FALSE,
               !.heard = heard]

\* The same for several messages, with the time a frame among them takes.
EnqueueAll(c, ms, d) ==
  LET f[i \in 0 .. Len(ms)] ==
        IF i = 0 THEN c ELSE Enqueue(f[i - 1], ms[i], IF IsFrame(ms[i]) THEN d ELSE 0)
  IN f[Len(ms)]

\* How many messages dump_packets takes, and whether the last is metadata.
Taken(q) == IF Len(q) > MaxDump THEN MaxDump ELSE Len(q)
MetaIsLast(q) == q[Taken(q)].kind = "meta"

\* duration() once the queue starts with the last message taken: nothing, unless
\* there are others behind it; metadata carries the timestamp 0.
SpansLeft(q) ==
  IF MetaIsLast(q) THEN 0 .. Far
  ELSE IF Len(q) > MaxDump THEN -MaxBack .. Far ELSE {0}

\* The headers of a decoder once it was sent q.
Given(d, q) == [d EXCEPT !.vcfg = Cfg(q, "vsh", @), !.acfg = Cfg(q, "ash", @)]

\* Mutated form: av_start_time_ stays.
DumpPackets_NoStart(c, span) ==
  LET n == Taken(c.queue) IN
  [c EXCEPT !.queue = SubSeq(@, n + 1, Len(@)), !.metaLast = MetaIsLast(c.queue)]

\* dump_packets, with span for what is left.
DumpPackets(c, span) ==
  LET n == Taken(c.queue) IN
  [c EXCEPT !.queue = SubSeq(@, n + 1, Len(@)), !.span = span,
            !.metaLast = MetaIsLast(c.queue),
            !.client = Given(@, SubSeq(c.queue, 1, n))]

-----------------------------------------------------------------------------
(* The source *)

\* SrsMetaCache: is there metadata, and the sequence headers.
NewMeta == [data |-> FALSE, vsh |-> None, ash |-> None]

\* SrsGopCache: the frames, whether there was video, and
\* audio_after_last_video_count_.
NewCache == [frames |-> <<>>, video |-> FALSE, audios |-> 0]

Init ==
  /\ published = FALSE /\ stream = NewDecoder
  /\ meta = NewMeta /\ cache = NewCache
  /\ consumer = [p \in Players |-> NewConsumer]
  /\ pc = [p \in Players |-> "away"]
  /\ control = [p \in Players |-> None]
  /\ recvError = [p \in Players |-> FALSE]

\* on_publish.
OnPublish ==
  /\ ~published
  /\ published' = TRUE
  /\ meta' = NewMeta
  /\ UNCHANGED <<stream, cache, playerVars>>

\* on_unpublish, with m the meta cache it finds.
Unpublish(m) ==
  /\ published' = FALSE
  /\ stream' = NewDecoder
  /\ cache' = NewCache
  /\ meta' = m

OnUnpublish ==
  /\ published
  /\ Unpublish(meta)
  /\ UNCHANGED playerVars

\* update_data, update_vsh and update_ash.
Remembered(m) ==
  CASE m.kind = "meta" -> [meta EXCEPT !.data = TRUE]
    [] m.kind = "vsh" -> [meta EXCEPT !.vsh = m.cfg]
    [] m.kind = "ash" -> [meta EXCEPT !.ash = m.cfg]
    [] OTHER -> meta

\* SrsGopCache::cache of a frame.
Cached(m) ==
  LET audios == IF IsVideo(m) THEN 0 ELSE cache.audios + 1
      frames == IF m.kind = "key" THEN <<m>> ELSE Append(cache.frames, m)
  IN IF ~GopCache \/ (~IsVideo(m) /\ ~cache.video) THEN cache
     ELSE IF audios > GuessCount \/ (GopMaxFrames > 0 /\ Len(frames) > GopMaxFrames)
       THEN NewCache
     ELSE [frames |-> frames, video |-> TRUE, audios |-> audios]

\* Every consumer is given m.
ToConsumers(m, d) ==
  consumer' = [p \in Players |->
    IF pc[p] = "away" THEN consumer[p]
    ELSE Enqueue(consumer[p], m, d)]

\* What the publisher may send now: frames after their header, inter frames in
\* their group.
Sends(m) ==
  CASE m.kind = "key" -> stream.vcfg = m.cfg
    [] m.kind = "inter" -> stream.vcfg = m.cfg /\ stream.next = m.n
    [] m.kind = "audio" -> stream.acfg = m.cfg
    [] OTHER -> TRUE

Below(size) == \A p \in Players : Len(consumer[p].queue) < size
NotFarBack == \A p \in Players : consumer'[p].span # None => consumer'[p].span >= -MaxBack

\* on_meta_data, on_audio and on_video, once the hub took the message.
OnMessage(m, d) ==
  /\ published /\ Sends(m)
  /\ IF IsFrame(m) THEN d \in FrameTimes /\ (d <= 0 => Below(Stalls))
     ELSE d = 0 /\ Below(Crowd)
  /\ UNCHANGED <<published, pc, control, recvError>>
  /\ stream' = Decode(stream, m)
  /\ meta' = Remembered(m)
  /\ cache' = IF IsFrame(m) THEN Cached(m) ELSE cache
  /\ ToConsumers(m, d)
  /\ NotFarBack

\* The hub or the bridge fails: a video header is already remembered, metadata is
\* already with the consumers; the publisher is closed, and sends nothing else
\* until it is.
HubFails(m) ==
  /\ published /\ Sends(m) /\ Below(Crowd)
  /\ Unpublish(IF m.kind \in {"meta", "vsh"} THEN Remembered(m) ELSE meta)
  /\ IF m.kind = "meta" THEN ToConsumers(m, 0) ELSE UNCHANGED consumer
  /\ UNCHANGED <<pc, control, recvError>>

-----------------------------------------------------------------------------
(* A player *)

\* Mutated form: the group comes before its headers.
Dumped_GopFirst ==
  LET one(there, m) == IF there THEN <<m>> ELSE <<>> IN
  cache.frames \o one(meta.data, MetaData) \o one(meta.ash # None, AudioHeader(meta.ash))
    \o one(meta.vsh # None, VideoHeader(meta.vsh))

\* SrsMetaCache::dumps and SrsGopCache::dump.
Dumped ==
  LET one(there, m) == IF there THEN <<m>> ELSE <<>> IN
  one(meta.data, MetaData) \o one(meta.ash # None, AudioHeader(meta.ash))
    \o one(meta.vsh # None, VideoHeader(meta.vsh)) \o cache.frames

\* create_consumer and consumer_dumps.
StartPlaying(p, d) ==
  /\ pc[p] = "away"
  /\ pc' = [pc EXCEPT ![p] = "loop"]
  /\ consumer' = [consumer EXCEPT ![p] =
       EnqueueAll(NewConsumer, IF published THEN Dumped ELSE <<>>, d)]
  /\ NotFarBack
  /\ UNCHANGED <<sourceVars, control, recvError>>

\* The end of do_playing and of the receive coroutine.
Leave(p) ==
  /\ pc' = [pc EXCEPT ![p] = "away"]
  /\ consumer' = [consumer EXCEPT ![p] = NewConsumer]
  /\ control' = [control EXCEPT ![p] = None]
  /\ recvError' = [recvError EXCEPT ![p] = FALSE]

\* After wait: the error of the receive coroutine, then what dump_packets gives.
Proceed(p) ==
  LET c == consumer[p] IN
  \/ recvError[p] /\ Leave(p)
  \/ /\ ~recvError[p]
     /\ c.paused \/ c.queue = <<>>
     /\ pc' = [pc EXCEPT ![p] = "loop"]
     /\ UNCHANGED <<consumer, control, recvError>>
  \/ /\ ~recvError[p]
     /\ ~c.paused /\ c.queue # <<>>
     /\ pc' = [pc EXCEPT ![p] = "sending"]
     /\ \E span \in SpansLeft(c.queue) :
          consumer' = [consumer EXCEPT ![p] = DumpPackets(c, span)]
     /\ UNCHANGED <<control, recvError>>

\* The top of the loop pumps the receive queue: a close ends the session, a pause
\* or a play is answered.
Pump(p) ==
  /\ pc[p] = "loop" /\ control[p] # None
  /\ IF control[p] = "close" THEN Leave(p)
     ELSE /\ pc' = [pc EXCEPT ![p] = control[p]]
          /\ control' = [control EXCEPT ![p] = None]
          /\ UNCHANGED <<consumer, recvError>>
  /\ UNCHANGED sourceVars

\* The answer is sent.
Answered(p) ==
  /\ pc[p] \in {"pause", "play"}
  /\ pc' = [pc EXCEPT ![p] = "loop"]
  /\ consumer' = [consumer EXCEPT ![p].paused = pc[p] = "pause"]
  /\ UNCHANGED <<sourceVars, control, recvError>>

\* There is nothing left to pump: wait.  A paused player only takes a nap.
Wait(p) ==
  /\ pc[p] = "loop" /\ control[p] = None
  /\ IF ~consumer[p].paused /\ Ready(consumer[p].queue, consumer[p].span)
     THEN Proceed(p)
     ELSE /\ pc' = [pc EXCEPT ![p] = "asleep"]
          /\ consumer' = [consumer EXCEPT ![p].waiting = ~consumer[p].paused]
          /\ UNCHANGED <<control, recvError>>
  /\ UNCHANGED sourceVars

\* wait returns, signalled or after the nap.
Wakes(p) ==
  /\ pc[p] = "asleep" /\ ~consumer[p].waiting
  /\ Proceed(p)
  /\ UNCHANGED sourceVars

Sent(p) ==
  /\ pc[p] = "sending"
  /\ pc' = [pc EXCEPT ![p] = "loop"]
  /\ UNCHANGED <<sourceVars, consumer, control, recvError>>

SendFails(p) ==
  /\ pc[p] \in {"sending", "pause", "play"}
  /\ Leave(p)
  /\ UNCHANGED sourceVars

\* Mutated form: the player is not signalled.
WakeUp_Lost(p) == UNCHANGED consumer

\* wakeup.
WakeUp(p) == consumer' = [consumer EXCEPT ![p].waiting = FALSE]

\* The receive coroutine gets a control message; it takes no other until this one
\* was pumped.
Receives(p, m) ==
  /\ pc[p] # "away" /\ ~recvError[p] /\ control[p] = None
  /\ control' = [control EXCEPT ![p] = m]
  /\ WakeUp(p)
  /\ UNCHANGED <<sourceVars, pc, recvError>>

\* It finds the client gone.
ReceiveFails(p) ==
  /\ pc[p] # "away" /\ ~recvError[p] /\ control[p] = None
  /\ recvError' = [recvError EXCEPT ![p] = TRUE]
  /\ WakeUp(p)
  /\ UNCHANGED <<sourceVars, pc, control>>

-----------------------------------------------------------------------------
PlayerStep(p) == Pump(p) \/ Answered(p) \/ Wait(p) \/ Wakes(p) \/ Sent(p)

Next ==
  \/ OnPublish
  \/ OnUnpublish
  \/ \E m \in Messages, d \in FrameTimes \cup {0} : OnMessage(m, d)
  \/ \E m \in Messages : HubFails(m)
  \/ \E p \in Players :
       \/ \E d \in FrameTimes : StartPlaying(p, d)
       \/ PlayerStep(p)
       \/ SendFails(p)
       \/ \E m \in {"pause", "play", "close"} : Receives(p, m)
       \/ ReceiveFails(p)

Spec == Init /\ [][Next]_vars

\* Coroutines that can run do, a send ends, and as long as it publishes a publisher
\* goes on with frames, time and again with one that is later than the one before.
Fairness ==
  /\ WF_vars(\E m \in Messages, d \in {t \in FrameTimes : t > 0} : OnMessage(m, d))
  /\ \A p \in Players : WF_vars(PlayerStep(p))

FairSpec == Spec /\ Fairness

-----------------------------------------------------------------------------
\* The caches, the consumers and the coroutines have their types, and the only
\* player whose consumer waits is one that is asleep in wait.
TypeOK ==
  /\ published \in BOOLEAN
  /\ stream \in Decoders
  /\ meta \in [data : BOOLEAN, vsh : VideoConfigs \cup {None},
               ash : AudioConfigs \cup {None}]
  /\ cache.frames \in Seq(Messages)
  /\ cache.video \in BOOLEAN /\ cache.audios \in 0 .. GuessCount
  /\ \A p \in Players :
       /\ consumer[p].queue \in Seq({Queued(m) : m \in Messages})
       /\ consumer[p].span # None => consumer[p].span \in Int /\ consumer[p].span <= Far
       /\ consumer[p].client \in Decoders /\ consumer[p].heard \in Decoders
       /\ pc[p] \in {"away", "loop", "pause", "play", "asleep", "sending"}
       /\ consumer[p].waiting => pc[p] = "asleep"
  /\ control \in [Players -> {"pause", "play", "close", None}]
  /\ recvError \in [Players -> BOOLEAN]

\* Whenever a player joined, and whatever its queue had to drop, once its queue is
\* empty it has the sequence headers the publisher uses now (SrsMetaCache::dumps,
\* shrink keeps the headers, on_publish clears the meta cache).
HeadersReach ==
  \A p \in Players : published /\ pc[p] # "away" =>
    /\ stream.vcfg # None => consumer[p].heard.vcfg = stream.vcfg
    /\ stream.acfg # None => consumer[p].heard.acfg = stream.acfg

\* A player whose current group was not cut can decode the publisher's next frame,
\* also one that joined in the middle of the group: the cache gave it the whole
\* group, and nothing twice or out of order (SrsGopCache, consumer_dumps).
InStep ==
  \A p \in Players :
    published /\ pc[p] # "away" /\ stream.next # None /\ ~consumer[p].cut
      => consumer[p].heard.next = stream.next

\* A player that sleeps has no more than mw_latency of the stream queued: no signal
\* is lost between wait and enqueue (mw_waiting_).
SleepersAreShort ==
  \A p \in Players :
    consumer[p].waiting => ~Ready(consumer[p].queue, consumer[p].span)

\* A player that has been sent all there was loses nothing with the next message,
\* unless the last thing it was sent was metadata (dump_packets moves
\* av_start_time_ to the last timestamp).
PromptLoseNothing ==
  [][\A p \in Players :
       LET c == consumer[p] IN
       pc[p] # "away" /\ c.queue = <<>> /\ ~c.metaLast /\ ~c.cut
         => ~consumer'[p].cut \/ pc'[p] = "away"]_vars

\* The message p's queue gets is earlier than the one before it (SrsRtmpJitter::correct
\* lets steps of up to 250 ms back pass).
GoesBack(p) ==
  /\ Len(consumer'[p].queue) > Len(consumer[p].queue)
  /\ consumer[p].span # None /\ consumer'[p].span < consumer[p].span

\* A player hears its client.  A control message is taken up although nothing is
\* published, whatever the player was doing when it came (wakeup), and is not done
\* with before the player obeys it or its session ends.  If a client that is gone is
\* overlooked for ever, it is because the time of the frames goes back again and
\* again.
Asked(p, m) == control[p] = m \/ pc[p] = m
Obeyed(p, m) == pc[p] = "away" \/ (m # "close" /\ consumer[p].paused = (m = "pause"))
Overlooked(p) == recvError[p] /\ published /\ stream.vcfg # None
ClientIsHeard ==
  /\ [][\A p \in Players, m \in {"pause", "play", "close"} :
          Asked(p, m) => Asked(p, m)' \/ Obeyed(p, m)']_vars
  /\ \A p \in Players :
       /\ control[p] # None ~> control[p] = None
       /\ <>[]Overlooked(p) => []<><<GoesBack(p)>>_vars

\* Frames that are queued for a player that is not paused are sent, or dropped,
\* unless time goes back again and again: only then can a player sleep for ever
\* over a queue that grows (duration() never reaches mw_latency).
Kept(p) == /\ consumer[p].queue # <<>> /\ ~consumer[p].paused /\ control[p] = None
           /\ published /\ stream.vcfg # None /\ pc[p] # "sending"
QueueMoves == \A p \in Players : <>[]Kept(p) => []<><<GoesBack(p)>>_vars

\* The state of the queues and coroutines at every switch: their types, and nobody
\* asleep over a full queue.
DeliveryInv == TypeOK /\ SleepersAreShort
=============================================================================
