----------------------------- MODULE LiveSource -----------------------------
(***************************************************************************)
(* One stream of the server: its publish token (SrsStreamPublishToken-     *)
(* Manager), the pool entry of SrsLiveSourceManager, the SrsLiveSource     *)
(* objects that exist for it, the RTMP connections that publish and play   *)
(* it (SrsRtmpConn::stream_service_cycle) and the adapters that feed it    *)
(* (FrameToSourceBridge).                                                  *)
(*                                                                         *)
(* Everything runs in coroutines of one thread, which switch only at I/O:  *)
(* an action is what a coroutine does between two such points.  Objects    *)
(* are held through SrsSharedPtr, so an object nobody holds is destroyed   *)
(* and its name may stand for a new one.  Time is kept as ages, which stop *)
(* growing where the code no longer tells them apart.  The vhost is an     *)
(* origin; HLS, DVR and the other parts of the hub are its unknown answer. *)
(***************************************************************************)
EXTENDS Naturals, FiniteSets

CONSTANTS
  Publishers,   \* RTMP connections that publish the stream
  Players,      \* RTMP connections that play it
  Adapters,     \* adapters whose bridge feeds it
  Sources,      \* names of SrsLiveSource objects
  None,         \* a null pointer, an unset time
  Cleanup,      \* ticks from stream_die_at_ until the source may be erased
  IdleTimeout   \* publish_kickoff_for_idle in ticks, 0 when not configured

ASSUME LiveAssumption ==
  /\ None \notin Publishers \cup Players \cup Adapters \cup Sources
  /\ None \notin Nat
  /\ Cleanup \in Nat \ {0}
  /\ IdleTimeout \in Nat

VARIABLES
  token,      \* the publisher that acquired the publish token, or None
  pool,       \* pool_[stream_url], or None
  source,     \* the SrsLiveSource objects
  pubState,   \* where each publisher is in stream_service_cycle
  pubSource,  \* its live_source
  playState,  \* the same for each player
  playSource,
  feed        \* source_ of each adapter's bridge, or None when it is not open

pubVars == <<token, pubState, pubSource>>
playVars == <<playState, playSource>>
vars == <<pool, source, pubVars, playVars, feed>>

\* The fields of a source that its life depends on.  dieAge and idleAge are the
\* time since stream_die_at_ and since publisher_idle_at_ (None for 0).  The last
\* two are not in the code: whether an on_publish failed half-way, and the time
\* since a session last used the source.
SourceState ==
  [canPublish : BOOLEAN, consumers : SUBSET Players, active : BOOLEAN,
   dieAge : 0 .. Cleanup, idleAge : 0 .. (IdleTimeout + 1) \cup {None},
   broken : BOOLEAN, quiet : 0 .. Cleanup]

\* stream_die_at_ = 0 is long ago.
NewSource ==
  [canPublish |-> TRUE, consumers |-> {}, active |-> FALSE,
   dieAge |-> Cleanup, idleAge |-> None, broken |-> FALSE, quiet |-> Cleanup]

Init ==
  /\ token = None /\ pool = None
  /\ source = [s \in Sources |-> NewSource]
  /\ pubState = [c \in Publishers |-> "idle"]
  /\ pubSource = [c \in Publishers |-> None]
  /\ playState = [p \in Players |-> "idle"]
  /\ playSource = [p \in Players |-> None]
  /\ feed = [a \in Adapters |-> None]

-----------------------------------------------------------------------------
\* Some SrsSharedPtr points to s.
Held(s) ==
  \/ pool = s
  \/ \E c \in Publishers : pubSource[c] = s
  \/ \E p \in Players : playSource[p] = s
  \/ \E a \in Adapters : feed[a] = s

\* Sessions that use s: from the start of on_publish to the end of on_unpublish,
\* and as long as there is a consumer.
PublishStates == {"starting", "publishing", "stopping"}
PublishedBy(c, s) == pubSource[c] = s /\ pubState[c] \in PublishStates
PlayedBy(p, s) == playSource[p] = s /\ playState[p] = "playing"
Used(s) ==
  (\E c \in Publishers : PublishedBy(c, s)) \/ (\E p \in Players : PlayedBy(p, s))

\* The objects after a step: changed, destroyed when nobody holds them any more.
Settle(changed) ==
  source' = [s \in Sources |->
    IF ~Held(s)' THEN NewSource
    ELSE [changed[s] EXCEPT !.quiet = IF Used(s)' THEN 0 ELSE @]]

Change(s, new) == Settle([source EXCEPT ![s] = new])

\* fetch_or_create: the pooled source, or a new one that is put there.
Fetched == IF pool # None THEN pool ELSE CHOOSE s \in Sources : ~Held(s)

FetchOrCreate ==
  /\ pool # None \/ \E s \in Sources : ~Held(s)
  /\ pool' = Fetched

-----------------------------------------------------------------------------
(* A publisher *)

GoesTo(c, state) == pubState' = [pubState EXCEPT ![c] = state]

\* The end of stream_service_cycle: the source pointer and the token go.
Ends(c) ==
  /\ pubState' = [pubState EXCEPT ![c] = "idle"]
  /\ pubSource' = [pubSource EXCEPT ![c] = None]
  /\ token' = None

\* Mutated form: the token is handed out again.
AcquireToken_Shared(c) == token' = c

\* acquire_token; while another publisher has it the connection is refused.
AcquireToken(c) == token = None /\ token' = c

\* Up to the answer to the client's publish request.
StartPublish(c) ==
  /\ pubState[c] = "idle"
  /\ AcquireToken(c)
  /\ FetchOrCreate
  /\ GoesTo(c, "fetched")
  /\ pubSource' = [pubSource EXCEPT ![c] = Fetched]
  /\ UNCHANGED <<playVars, feed>>
  /\ Settle(source)

\* The client is gone, or a hook or the referer check refuses it.
PublishRefused(c) ==
  /\ pubState[c] = "fetched"
  /\ Ends(c)
  /\ UNCHANGED <<pool, playVars, feed>>
  /\ Settle(source)

\* acquire_publish finds the source busy.
PublishBusy(c) ==
  /\ pubState[c] = "fetched"
  /\ ~source[pubSource[c]].canPublish
  /\ Ends(c)
  /\ UNCHANGED <<pool, playVars, feed>>
  /\ Settle(source)

\* on_publish, up to the hub, which may switch.
OnPublish(c) ==
  /\ pubState[c] = "fetched"
  /\ source[pubSource[c]].canPublish
  /\ GoesTo(c, "starting")
  /\ UNCHANGED <<token, pool, pubSource, playVars, feed>>
  /\ Change(pubSource[c], [source[pubSource[c]] EXCEPT !.canPublish = FALSE])

\* The hub, the handler and the bridge took part.
Published(src) ==
  [src EXCEPT !.active = TRUE,
              !.idleAge = IF src.consumers = {} THEN 0 ELSE @]

PublishSucceeds(c) ==
  /\ pubState[c] = "starting"
  /\ GoesTo(c, "publishing")
  /\ UNCHANGED <<token, pool, pubSource, playVars, feed>>
  /\ Change(pubSource[c], Published(source[pubSource[c]]))

\* The hub fails, or the handler or the bridge after it: on_publish returns and
\* publishing skips release_publish.
PublishFails(c, hub) ==
  /\ pubState[c] = "starting"
  /\ Ends(c)
  /\ UNCHANGED <<pool, playVars, feed>>
  /\ Change(pubSource[c],
            [source[pubSource[c]] EXCEPT !.active = hub, !.broken = TRUE])

\* Mutated form: the hub stays active.
StopPublish_HubActive(c) ==
  /\ GoesTo(c, IF source[pubSource[c]].canPublish THEN "leaving" ELSE "stopping")
  /\ UNCHANGED <<token, pool, pubSource, playVars, feed>>
  /\ Settle(source)

\* on_unpublish up to the hub and the handler, which may switch.
StopPublish(c) ==
  LET s == pubSource[c] IN
  /\ GoesTo(c, IF source[s].canPublish THEN "leaving" ELSE "stopping")
  /\ UNCHANGED <<token, pool, pubSource, playVars, feed>>
  /\ Change(s, [source[s] EXCEPT !.active = @ /\ source[s].canPublish])

\* The client leaves or is silent for too long.
PublisherGone(c) == pubState[c] = "publishing" /\ StopPublish(c)

\* publisher_is_idle_for, asked in the loop of do_publishing.
IdleFor(src) == src.idleAge # None /\ IdleTimeout > 0 /\ src.idleAge > IdleTimeout

Kick(c) ==
  /\ pubState[c] = "publishing"
  /\ IdleFor(source[pubSource[c]])
  /\ StopPublish(c)

\* Mutated forms: the time of death is not taken; the source stays published.
Unpublished_NotDead(src) == [src EXCEPT !.canPublish = TRUE]
Unpublished_Busy(src) == [src EXCEPT !.dieAge = IF src.consumers = {} THEN 0 ELSE @]

Unpublished(src) ==
  [src EXCEPT !.dieAge = IF src.consumers = {} THEN 0 ELSE @, !.canPublish = TRUE]

\* The rest of on_unpublish; then the unpublish hooks are called.
PublishStopped(c) ==
  /\ pubState[c] = "stopping"
  /\ GoesTo(c, "leaving")
  /\ UNCHANGED <<token, pool, pubSource, playVars, feed>>
  /\ Change(pubSource[c], Unpublished(source[pubSource[c]]))

PublisherLeaves(c) ==
  /\ pubState[c] = "leaving"
  /\ Ends(c)
  /\ UNCHANGED <<pool, playVars, feed>>
  /\ Settle(source)

-----------------------------------------------------------------------------
(* A player *)

PlayGoesTo(p, state) == playState' = [playState EXCEPT ![p] = state]

PlayEnds(p) ==
  /\ PlayGoesTo(p, "idle")
  /\ playSource' = [playSource EXCEPT ![p] = None]

StartPlay(p) ==
  /\ playState[p] = "idle"
  /\ FetchOrCreate
  /\ PlayGoesTo(p, "fetched")
  /\ playSource' = [playSource EXCEPT ![p] = Fetched]
  /\ UNCHANGED <<pubVars, feed>>
  /\ Settle(source)

\* Refused by a hook or the referer check, or gone before it plays; and the end
\* of http_hooks_on_stop.
PlayerLeaves(p) ==
  /\ playState[p] \in {"fetched", "leaving"}
  /\ PlayEnds(p)
  /\ UNCHANGED <<pool, pubVars, feed>>
  /\ Settle(source)

\* create_consumer.
WithConsumer(src, p) ==
  [src EXCEPT !.consumers = @ \cup {p}, !.dieAge = Cleanup, !.idleAge = None]

CreateConsumer(p) ==
  /\ playState[p] = "fetched"
  /\ PlayGoesTo(p, "playing")
  /\ UNCHANGED <<pool, pubVars, playSource, feed>>
  /\ Change(playSource[p], WithConsumer(source[playSource[p]], p))

\* Mutated form: the idle clock is not started.
WithoutConsumer_NotIdle(src, p) ==
  [src EXCEPT !.consumers = @ \ {p},
              !.dieAge = IF src.consumers = {p} /\ src.canPublish THEN 0 ELSE @]

\* on_consumer_destroy.
WithoutConsumer(src, p) ==
  LET last == src.consumers \ {p} = {} IN
  [src EXCEPT !.consumers = @ \ {p},
              !.dieAge = IF last /\ src.canPublish THEN 0 ELSE @,
              !.idleAge = IF last THEN 0 ELSE @]

DestroyConsumer(p) ==
  /\ playState[p] = "playing"
  /\ PlayGoesTo(p, "leaving")
  /\ UNCHANGED <<pool, pubVars, playSource, feed>>
  /\ Change(playSource[p], WithoutConsumer(source[playSource[p]], p))

-----------------------------------------------------------------------------
(* An adapter: create_source and close of its bridge.  It takes no token and
   does not call on_publish. *)

AdapterOpens(a) ==
  /\ feed[a] = None
  /\ FetchOrCreate
  /\ feed' = [feed EXCEPT ![a] = Fetched]
  /\ UNCHANGED <<pubVars, playVars>>
  /\ Settle(source)

AdapterCloses(a) ==
  /\ feed[a] # None
  /\ feed' = [feed EXCEPT ![a] = None]
  /\ UNCHANGED <<pool, pubVars, playVars>>
  /\ Settle(source)

\* SrsLiveSource::initialize fails: the caller goes away with its token, but the
\* new source is in the pool.
InitializeFails ==
  /\ pool = None
  /\ FetchOrCreate
  /\ UNCHANGED <<pubVars, playVars, feed>>
  /\ Settle(source)

-----------------------------------------------------------------------------
(* The manager's timer *)

\* Mutated form: a published source counts as dead.
Dead_Published(src) == src.consumers = {} /\ src.dieAge >= Cleanup

\* stream_is_dead.
Dead(src) == src.canPublish /\ src.consumers = {} /\ src.dieAge >= Cleanup

Notify ==
  /\ pool # None
  /\ Dead(source[pool])
  /\ pool' = None
  /\ UNCHANGED <<pubVars, playVars, feed>>
  /\ Settle(source)

Older(age, limit) == IF age = None \/ age >= limit THEN age ELSE age + 1

Tick ==
  /\ UNCHANGED <<pool, pubVars, playVars, feed>>
  /\ Settle([s \in Sources |->
       [source[s] EXCEPT !.dieAge = Older(@, Cleanup),
                         !.idleAge = Older(@, IdleTimeout + 1),
                         !.quiet = Older(@, Cleanup)]])

PublisherStep(c) ==
  \/ StartPublish(c)
  \/ PublishRefused(c)
  \/ PublishBusy(c)
  \/ OnPublish(c)
  \/ PublishSucceeds(c)
  \/ \E hub \in BOOLEAN : PublishFails(c, hub)
  \/ PublisherGone(c)
  \/ Kick(c)
  \/ PublishStopped(c)
  \/ PublisherLeaves(c)

PlayerStep(p) ==
  \/ StartPlay(p)
  \/ PlayerLeaves(p)
  \/ CreateConsumer(p)
  \/ DestroyConsumer(p)

AdapterStep(a) == AdapterOpens(a) \/ AdapterCloses(a)

Next ==
  \/ \E c \in Publishers : PublisherStep(c)
  \/ \E p \in Players : PlayerStep(p)
  \/ \E a \in Adapters : AdapterStep(a)
  \/ InitializeFails
  \/ Notify
  \/ Tick

Spec == Init /\ [][Next]_vars

\* Time passes, the timer fires and the publishing loop comes round; hooks and
\* the hub answer in the end.
Fairness ==
  /\ WF_vars(Tick)
  /\ WF_vars(Notify)
  /\ \A c \in Publishers : WF_vars(Kick(c)) /\ WF_vars(PublishStopped(c))

FairSpec == Spec /\ Fairness

-----------------------------------------------------------------------------
\* The tokens, the pool entry, the sources and the sessions have their types
\* (srs_app_stream_token.hpp, srs_app_rtmp_source.hpp), and a session that is
\* under way holds a source.
TypeOK ==
  /\ token \in Publishers \cup {None}
  /\ pool \in Sources \cup {None}
  /\ source \in [Sources -> SourceState]
  /\ pubState \in [Publishers -> PublishStates \cup {"idle", "fetched", "leaving"}]
  /\ pubSource \in [Publishers -> Sources \cup {None}]
  /\ \A c \in Publishers : pubState[c] = "idle" <=> pubSource[c] = None
  /\ playState \in [Players -> {"idle", "fetched", "playing", "leaving"}]
  /\ playSource \in [Players -> Sources \cup {None}]
  /\ \A p \in Players : playState[p] = "idle" <=> playSource[p] = None
  /\ feed \in [Adapters -> Sources \cup {None}]

\* The publish token keeps publishers of one stream apart, from before a source
\* is fetched until after the unpublish hooks: no two are ever under way, not
\* even on different sources (acquire_token, the token's destructor).
OnePublisher ==
  \A c, d \in Publishers : pubState[c] # "idle" /\ pubState[d] # "idle" => c = d

\* A source has exactly the consumers of the players that are playing from it, so
\* frames reach them and stream_is_dead counts them (create_consumer,
\* on_consumer_destroy).
ConsumersArePlayers ==
  \A s \in Sources : source[s].consumers = {p \in Players : PlayedBy(p, s)}

\* A source is marked as published exactly while a session publishes it, from
\* on_publish to the end of on_unpublish, unless an on_publish failed half-way:
\* the next publisher that gets the token is not turned away as busy.
BusyWhilePublished ==
  \A s \in Sources : ~source[s].broken =>
    (~source[s].canPublish <=> \E c \in Publishers : PublishedBy(c, s))

\* The hub is active, so that a player that joins is given the sequence headers,
\* exactly while a session is in its publishing loop, unless an on_publish failed.
HubWhilePublishing ==
  \A s \in Sources : ~source[s].broken =>
    (source[s].active <=>
       \E c \in Publishers : pubSource[c] = s /\ pubState[c] = "publishing")

\* The clock by which a publisher is kicked off runs exactly while nobody watches
\* the source it publishes (publisher_idle_at_).
IdleClock ==
  \A c \in Publishers : pubState[c] = "publishing" =>
    (source[pubSource[c]].idleAge = None <=> source[pubSource[c]].consumers # {})

\* What a source records of its sessions is exact at every point where a coroutine
\* may switch: its consumers, the busy mark, the hub's activity and the idle clock.
RecordsExact ==
  /\ TypeOK
  /\ ConsumersArePlayers
  /\ BusyWhilePublished
  /\ HubWhilePublishing
  /\ IdleClock

\* Whoever leaves last, publisher or player, and in whatever order their steps
\* interleave, the time of death is the time when the source was last used, so
\* that it survives a short reconnect (stream_die_at_).
GracePeriod ==
  \A s \in Sources :
    Held(s) /\ ~Used(s) /\ ~source[s].broken => source[s].dieAge = source[s].quiet

\* The timer never takes a source out of the pool while a session publishes or
\* plays it: whoever asks for the stream then gets the same source.
KeepsPooled == pool # None /\ Used(pool) => pool' = pool
UsedStaysPooled == [][KeepsPooled]_vars

\* A pooled source that is no longer used leaves the pool, or is used again,
\* unless an on_publish failed on it half-way.
Lingers == pool # None /\ ~Used(pool) /\ ~source[pool].broken
UnusedIsErased == Lingers ~> ~Lingers

\* When publish_kickoff_for_idle is set, a publisher that nobody watches does not
\* stay for ever.
Unwatched(c) == pubState[c] = "publishing" /\ source[pubSource[c]].consumers = {}
IdleIsKicked == \A c \in Publishers : IdleTimeout > 0 => (Unwatched(c) ~> ~Unwatched(c))

\* The source an open adapter feeds is the one players of its stream are given,
\* as for a stream whose source went through on_publish.
AdapterReachable == \A a \in Adapters : feed[a] # None => feed[a] = pool
=============================================================================
