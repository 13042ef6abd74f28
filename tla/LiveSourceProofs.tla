-------------------------- MODULE LiveSourceProofs --------------------------
(* Proofs about LiveSource, for any number of sessions and of source objects. *)
EXTENDS LiveSource, TLAPS

\* A publisher is under way exactly while it holds the token.
TokenHeld == \A c \in Publishers : pubState[c] # "idle" <=> token = c

Sessions == TypeOK /\ TokenHeld

\* A name that stands for no object has the state of a new one; a source in use
\* is not quiet; the idle clock stands while somebody watches; a source on which
\* an on_publish failed is never published again.  The rest are the properties of
\* LiveSource, for one source.
Publishing(c, s) == pubSource[c] = s /\ pubState[c] = "publishing"
NewInv(s) == ~Held(s) => source[s] = NewSource
ConsumerInv(s) == source[s].consumers = {p \in Players : PlayedBy(p, s)}
BusyInv(s) ==
  /\ ~source[s].broken =>
       (~source[s].canPublish <=> \E c \in Publishers : PublishedBy(c, s))
  /\ source[s].broken =>
       ~source[s].canPublish /\ \A c \in Publishers : ~PublishedBy(c, s)
HubInv(s) ==
  ~source[s].broken => (source[s].active <=> \E c \in Publishers : Publishing(c, s))
QuietInv(s) ==
  /\ Used(s) => source[s].quiet = 0
  /\ Held(s) /\ ~Used(s) /\ ~source[s].broken => source[s].dieAge = source[s].quiet
IdleInv(s) ==
  /\ source[s].idleAge # None => source[s].consumers = {}
  /\ (\E c \in Publishers : Publishing(c, s)) =>
       (source[s].idleAge = None <=> source[s].consumers # {})

SourceInv(s) ==
  NewInv(s) /\ ConsumerInv(s) /\ BusyInv(s) /\ HubInv(s) /\ QuietInv(s) /\ IdleInv(s)

IInv == Sessions /\ \A s \in Sources : SourceInv(s)

-----------------------------------------------------------------------------
LEMMA NewSourceType == NewSource \in SourceState
BY LiveAssumption DEF NewSource, SourceState

\* What Settle makes of one source.
LEMMA SettleAt ==
  ASSUME NEW changed \in [Sources -> SourceState], Settle(changed), NEW s \in Sources
  PROVE  /\ source'[s] \in SourceState
         /\ ~Held(s)' => source'[s] = NewSource
         /\ Held(s)' =>
              /\ source'[s].canPublish = changed[s].canPublish
              /\ source'[s].consumers = changed[s].consumers
              /\ source'[s].active = changed[s].active
              /\ source'[s].dieAge = changed[s].dieAge
              /\ source'[s].idleAge = changed[s].idleAge
              /\ source'[s].broken = changed[s].broken
              /\ Used(s)' => source'[s].quiet = 0
              /\ ~Used(s)' => source'[s].quiet = changed[s].quiet
<1>1. CASE ~Held(s)'
  BY <1>1, NewSourceType DEF Settle
<1>2. CASE Held(s)'
  <2> DEFINE q == IF Used(s)' THEN 0 ELSE changed[s].quiet
  <2>1. source'[s] = [changed[s] EXCEPT !.quiet = q]
    BY <1>2 DEF Settle
  <2>2. changed[s] \in SourceState
    OBVIOUS
  <2>3. q \in 0 .. Cleanup
    BY <2>2, LiveAssumption DEF SourceState
  <2> HIDE DEF q
  <2>4. source'[s] \in SourceState
    BY <2>1, <2>2, <2>3 DEF SourceState
  <2>5. source'[s].quiet = q
    BY <2>1, <2>2 DEF SourceState
  <2> QED BY <1>2, <2>1, <2>2, <2>4, <2>5 DEF SourceState, q
<1> QED BY <1>1, <1>2

LEMMA SettleType ==
  ASSUME NEW changed \in [Sources -> SourceState], Settle(changed)
  PROVE  source' \in [Sources -> SourceState]
<1>1. DOMAIN source' = Sources /\ source' = [s \in Sources |-> source'[s]]
  BY DEF Settle
<1>2. \A s \in Sources : source'[s] \in SourceState
  BY SettleAt
<1> QED BY <1>1, <1>2

\* The changes the steps make to a source give a source.
LEMMA ChangesType ==
  ASSUME NEW src \in SourceState
  PROVE  /\ [src EXCEPT !.canPublish = FALSE] \in SourceState
         /\ Published(src) \in SourceState
         /\ Unpublished(src) \in SourceState
         /\ \A b \in BOOLEAN : /\ [src EXCEPT !.active = b, !.broken = TRUE] \in SourceState
                               /\ [src EXCEPT !.active = b] \in SourceState
         /\ \A p \in Players : /\ WithConsumer(src, p) \in SourceState
                               /\ WithoutConsumer(src, p) \in SourceState
<1>1. 0 \in 0 .. Cleanup /\ Cleanup \in 0 .. Cleanup /\ 0 \in 0 .. (IdleTimeout + 1)
  BY LiveAssumption
<1>2. [src EXCEPT !.canPublish = FALSE] \in SourceState
  BY DEF SourceState
<1>3. Published(src) \in SourceState
  BY <1>1 DEF SourceState, Published
<1>4. ASSUME NEW b \in BOOLEAN PROVE [src EXCEPT !.active = b, !.broken = TRUE] \in SourceState
  BY DEF SourceState
<1>5. ASSUME NEW b \in BOOLEAN PROVE [src EXCEPT !.active = b] \in SourceState
  BY DEF SourceState
<1>6. Unpublished(src) \in SourceState
  BY <1>1 DEF SourceState, Unpublished
<1>7. ASSUME NEW p \in Players PROVE WithConsumer(src, p) \in SourceState
  BY <1>1 DEF SourceState, WithConsumer
<1>8. ASSUME NEW p \in Players PROVE WithoutConsumer(src, p) \in SourceState
  BY <1>1 DEF SourceState, WithoutConsumer
<1> QED BY <1>2, <1>3, <1>4, <1>5, <1>6, <1>7, <1>8

-----------------------------------------------------------------------------
(* Steps that change no field of a source: the pointers move, nothing else *)

\* The same sessions publish and play s after the step.
SameUseOf(s) ==
  /\ \A c \in Publishers : /\ PublishedBy(c, s)' <=> PublishedBy(c, s)
                           /\ Publishing(c, s)' <=> Publishing(c, s)
  /\ \A p \in Players : PlayedBy(p, s)' <=> PlayedBy(p, s)

SameUse == Settle(source) /\ \A s \in Sources : SameUseOf(s)

PointerStep ==
  \/ \E c \in Publishers :
       StartPublish(c) \/ PublishRefused(c) \/ PublishBusy(c) \/ PublisherLeaves(c)
  \/ \E p \in Players : StartPlay(p) \/ PlayerLeaves(p)
  \/ \E a \in Adapters : AdapterOpens(a) \/ AdapterCloses(a)
  \/ InitializeFails
  \/ Notify

LEMMA FetchedType ==
  ASSUME TypeOK, FetchOrCreate
  PROVE  Fetched \in Sources
BY LiveAssumption DEF TypeOK, FetchOrCreate, Fetched

\* The session variables keep their types and the token its holder.
LEMMA SessionsKept ==
  ASSUME Sessions, Next, source' \in [Sources -> SourceState]
  PROVE  Sessions'
<1> USE LiveAssumption DEF Sessions, TypeOK, TokenHeld, PublishStates
<1>1. ASSUME NEW c \in Publishers, StartPublish(c) PROVE Sessions'
  <2>1. Fetched \in Sources
    BY <1>1, FetchedType DEF StartPublish
  <2> QED BY <1>1, <2>1 DEF StartPublish, AcquireToken, FetchOrCreate, GoesTo,
                           playVars
<1>2. ASSUME NEW c \in Publishers, PublishRefused(c) \/ PublishBusy(c) \/ PublisherLeaves(c)
      PROVE  Sessions'
  BY <1>2 DEF PublishRefused, PublishBusy, PublisherLeaves, Ends, playVars
<1>3. ASSUME NEW c \in Publishers, OnPublish(c) \/ PublishSucceeds(c) \/ PublishStopped(c)
      PROVE  Sessions'
  BY <1>3 DEF OnPublish, PublishSucceeds, PublishStopped, GoesTo, playVars
<1>4. ASSUME NEW c \in Publishers, NEW hub \in BOOLEAN, PublishFails(c, hub)
      PROVE  Sessions'
  BY <1>4 DEF PublishFails, Ends, playVars
<1>5. ASSUME NEW c \in Publishers, PublisherGone(c) \/ Kick(c) PROVE Sessions'
  BY <1>5 DEF PublisherGone, Kick, StopPublish, GoesTo, playVars
<1>6. ASSUME NEW p \in Players, StartPlay(p) PROVE Sessions'
  <2>1. Fetched \in Sources
    BY <1>6, FetchedType DEF StartPlay
  <2> QED BY <1>6, <2>1 DEF StartPlay, FetchOrCreate, PlayGoesTo, pubVars
<1>7. ASSUME NEW p \in Players, PlayerLeaves(p) PROVE Sessions'
  BY <1>7 DEF PlayerLeaves, PlayEnds, PlayGoesTo, pubVars
<1>8. ASSUME NEW p \in Players, CreateConsumer(p) \/ DestroyConsumer(p) PROVE Sessions'
  BY <1>8 DEF CreateConsumer, DestroyConsumer, PlayGoesTo, pubVars
<1>9. ASSUME NEW a \in Adapters, AdapterOpens(a) PROVE Sessions'
  <2>1. Fetched \in Sources
    BY <1>9, FetchedType DEF AdapterOpens
  <2> QED BY <1>9, <2>1 DEF AdapterOpens, FetchOrCreate, pubVars, playVars
<1>10. ASSUME NEW a \in Adapters, AdapterCloses(a) PROVE Sessions'
  BY <1>10 DEF AdapterCloses, pubVars, playVars
<1>11. ASSUME InitializeFails PROVE Sessions'
  <2>1. Fetched \in Sources
    BY <1>11, FetchedType DEF InitializeFails
  <2> QED BY <1>11, <2>1 DEF InitializeFails, FetchOrCreate, pubVars, playVars
<1>12. ASSUME Notify \/ Tick PROVE Sessions'
  BY <1>12 DEF Notify, Tick, pubVars, playVars
<1> QED BY <1>1, <1>2, <1>3, <1>4, <1>5, <1>6, <1>7, <1>8, <1>9, <1>10, <1>11, <1>12
        DEF Next, PublisherStep, PlayerStep, AdapterStep

\* A pointer step leaves every field and every use of a source alone.
LEMMA PointerStepsSameUse ==
  ASSUME Sessions, PointerStep
  PROVE  SameUse
<1> USE LiveAssumption DEF Sessions, TypeOK, SameUse, SameUseOf, Publishing, PublishedBy,
                             PlayedBy, PublishStates
<1>1. ASSUME NEW c \in Publishers, StartPublish(c) PROVE SameUse
  <2>1. Fetched \in Sources
    BY <1>1, FetchedType DEF StartPublish
  <2> QED BY <1>1, <2>1 DEF StartPublish, GoesTo, playVars
<1>2. ASSUME NEW c \in Publishers, PublishRefused(c) \/ PublishBusy(c) \/ PublisherLeaves(c)
      PROVE  SameUse
  BY <1>2 DEF PublishRefused, PublishBusy, PublisherLeaves, Ends, playVars
<1>3. ASSUME NEW p \in Players, StartPlay(p) PROVE SameUse
  <2>1. Fetched \in Sources
    BY <1>3, FetchedType DEF StartPlay
  <2> QED BY <1>3, <2>1 DEF StartPlay, PlayGoesTo, pubVars
<1>4. ASSUME NEW p \in Players, PlayerLeaves(p) PROVE SameUse
  BY <1>4 DEF PlayerLeaves, PlayEnds, PlayGoesTo, pubVars
<1>5. ASSUME NEW a \in Adapters, AdapterOpens(a) \/ AdapterCloses(a) PROVE SameUse
  BY <1>5 DEF AdapterOpens, AdapterCloses, pubVars, playVars
<1>6. ASSUME InitializeFails \/ Notify PROVE SameUse
  BY <1>6 DEF InitializeFails, Notify, pubVars, playVars
<1> QED BY <1>1, <1>2, <1>3, <1>4, <1>5, <1>6 DEF PointerStep

-----------------------------------------------------------------------------
LEMMA UsedIsHeld ==
  ASSUME NEW s \in Sources
  PROVE  /\ \A c \in Publishers : PublishedBy(c, s)' => Held(s)' /\ Used(s)'
         /\ \A c \in Publishers : Publishing(c, s)' => PublishedBy(c, s)'
         /\ \A p \in Players : PlayedBy(p, s)' => Held(s)' /\ Used(s)'
         /\ Used(s)' <=> \/ \E c \in Publishers : PublishedBy(c, s)'
                         \/ \E p \in Players : PlayedBy(p, s)'
BY DEF PublishedBy, Publishing, PlayedBy, Held, Used, PublishStates

\* An object that the step destroys.
LEMMA GoneSource ==
  ASSUME NEW s \in Sources, ~Held(s)', source'[s] = NewSource
  PROVE  SourceInv(s)'
<1>1. ~Used(s)' /\ (\A c \in Publishers : ~PublishedBy(c, s)' /\ ~Publishing(c, s)')
        /\ \A p \in Players : ~PlayedBy(p, s)'
  BY UsedIsHeld
<1> QED BY <1>1 DEF SourceInv, NewInv, ConsumerInv, BusyInv, HubInv, QuietInv, IdleInv,
                    NewSource

\* A source the step does not touch, in use by the same sessions as before.
LEMMA SourceKept ==
  ASSUME IInv, NEW changed \in [Sources -> SourceState], Settle(changed),
         NEW s \in Sources, changed[s] = source[s], SameUseOf(s)
  PROVE  SourceInv(s)'
<1>1. CASE ~Held(s)'
  BY <1>1, SettleAt, GoneSource
<1>2. CASE Held(s)'
  <2>1. SourceInv(s)
    BY DEF IInv
  <2>2. Used(s)' <=> Used(s)
    BY DEF SameUseOf, Used
  <2>3. NewInv(s)'
    BY <1>2 DEF NewInv
  <2>4. ConsumerInv(s)'
    BY <1>2, <2>1, SettleAt DEF SourceInv, ConsumerInv, SameUseOf
  <2>5. BusyInv(s)'
    BY <1>2, <2>1, SettleAt DEF SourceInv, BusyInv, SameUseOf
  <2>6. HubInv(s)'
    BY <1>2, <2>1, SettleAt DEF SourceInv, HubInv, SameUseOf
  <2>7. ~Held(s) => source[s].dieAge = source[s].quiet
    BY <2>1 DEF SourceInv, NewInv, NewSource
  <2>8. QuietInv(s)'
    BY <1>2, <2>1, <2>2, <2>7, SettleAt DEF SourceInv, QuietInv
  <2>9. IdleInv(s)'
    BY <1>2, <2>1, SettleAt DEF SourceInv, IdleInv, SameUseOf
  <2> QED BY <2>3, <2>4, <2>5, <2>6, <2>8, <2>9 DEF SourceInv
<1> QED BY <1>1, <1>2

LEMMA PointerStepsKeep ==
  ASSUME IInv, PointerStep
  PROVE  /\ source' \in [Sources -> SourceState]
         /\ \A s \in Sources : SourceInv(s)'
<1>1. SameUse
  BY PointerStepsSameUse DEF IInv
<1>2. source \in [Sources -> SourceState]
  BY DEF IInv, Sessions, TypeOK
<1> QED BY <1>1, <1>2, SettleType, SourceKept DEF SameUse

-----------------------------------------------------------------------------
(* Steps that change one source *)

LEMMA ChangeKeeps ==
  ASSUME IInv, NEW t \in Sources, NEW new \in SourceState, Change(t, new),
         \A s \in Sources \ {t} : SameUseOf(s), SourceInv(t)'
  PROVE  /\ source' \in [Sources -> SourceState]
         /\ \A s \in Sources : SourceInv(s)'
<1> DEFINE changed == [source EXCEPT ![t] = new]
<1>1. changed \in [Sources -> SourceState] /\ \A s \in Sources \ {t} : changed[s] = source[s]
  BY DEF IInv, Sessions, TypeOK
<1>2. Settle(changed)
  BY DEF Change
<1> HIDE DEF changed
<1>3. source' \in [Sources -> SourceState]
  BY <1>1, <1>2, SettleType
<1>4. \A s \in Sources \ {t} : SourceInv(s)'
  BY <1>1, <1>2, SourceKept
<1> QED BY <1>3, <1>4

LEMMA ChangeAt ==
  ASSUME IInv, NEW t \in Sources, NEW new \in SourceState, Change(t, new)
  PROVE  /\ ~Held(t)' => source'[t] = NewSource
         /\ Held(t)' =>
              /\ source'[t].canPublish = new.canPublish
              /\ source'[t].consumers = new.consumers
              /\ source'[t].active = new.active
              /\ source'[t].dieAge = new.dieAge
              /\ source'[t].idleAge = new.idleAge
              /\ source'[t].broken = new.broken
              /\ Used(t)' => source'[t].quiet = 0
              /\ ~Used(t)' => source'[t].quiet = new.quiet
<1> DEFINE changed == [source EXCEPT ![t] = new]
<1>1. changed \in [Sources -> SourceState] /\ changed[t] = new
  BY DEF IInv, Sessions, TypeOK
<1>2. Settle(changed)
  BY DEF Change
<1> HIDE DEF changed
<1> QED BY <1>1, <1>2, SettleAt

\* What the invariant says of the source of a publisher that is under way.
LEMMA PublisherFacts ==
  ASSUME IInv, NEW c \in Publishers, pubState[c] # "idle"
  PROVE  /\ pubSource[c] \in Sources /\ source[pubSource[c]] \in SourceState
         /\ SourceInv(pubSource[c])
         /\ \A d \in Publishers : pubState[d] # "idle" => d = c
         /\ \A d \in Publishers \ {c} : pubSource[d] = None
BY DEF IInv, Sessions, TypeOK, TokenHeld

LEMMA PlayerFacts ==
  ASSUME IInv, NEW p \in Players, playState[p] # "idle"
  PROVE  /\ playSource[p] \in Sources /\ source[playSource[p]] \in SourceState
         /\ SourceInv(playSource[p])
BY DEF IInv, Sessions, TypeOK

LEMMA OnPublishKeeps ==
  ASSUME IInv, NEW c \in Publishers, OnPublish(c)
  PROVE  source' \in [Sources -> SourceState] /\ \A s \in Sources : SourceInv(s)'
<1>1. PICK t \in Sources :
        /\ t = pubSource[c] /\ source[t] \in SourceState /\ SourceInv(t)
        /\ \A d \in Publishers \ {c} : pubSource[d] = None
  BY PublisherFacts DEF OnPublish
<1> DEFINE new == [source[t] EXCEPT !.canPublish = FALSE]
<1>2. new \in SourceState /\ Change(t, new)
  <2>1. new \in SourceState
    BY <1>1, ChangesType
  <2>2. Change(t, new)
    BY <1>1, Zenon DEF OnPublish
  <2> QED BY <2>1, <2>2
<1>3. /\ new.canPublish = FALSE /\ new.consumers = source[t].consumers
      /\ new.active = source[t].active /\ new.idleAge = source[t].idleAge
      /\ new.broken = source[t].broken
  BY <1>1 DEF SourceState
<1>4. /\ \A s \in Sources \ {t} : SameUseOf(s)
      /\ PublishedBy(c, t)' /\ Held(t)' /\ Used(t)'
      /\ \A d \in Publishers : Publishing(d, t)' <=> Publishing(d, t)
      /\ \A p \in Players : PlayedBy(p, t)' <=> PlayedBy(p, t)
  BY <1>1 DEF OnPublish, GoesTo, playVars, SameUseOf, PublishedBy,
     Publishing, PlayedBy,
              PublishStates, Held, Used, IInv, Sessions, TypeOK
<1> HIDE DEF new
<1>5. SourceInv(t)'
  <2> USE <1>1, <1>2, <1>3, <1>4, ChangeAt
  <2>1. NewInv(t)' /\ QuietInv(t)'
    BY DEF NewInv, QuietInv
  <2>5. source[t].canPublish
    BY DEF OnPublish
  <2>6. BusyInv(t)'
    BY <2>5 DEF SourceInv, BusyInv
  <2>2. ConsumerInv(t)'
    BY DEF SourceInv, ConsumerInv
  <2>3. HubInv(t)'
    BY DEF SourceInv, HubInv
  <2>4. IdleInv(t)'
    BY DEF SourceInv, IdleInv
  <2> QED BY <2>1, <2>2, <2>3, <2>4, <2>6 DEF SourceInv
<1> QED BY <1>1, <1>2, <1>4, <1>5, ChangeKeeps

LEMMA PublishSucceedsKeeps ==
  ASSUME IInv, NEW c \in Publishers, PublishSucceeds(c)
  PROVE  source' \in [Sources -> SourceState] /\ \A s \in Sources : SourceInv(s)'
<1>1. PICK t \in Sources :
        /\ t = pubSource[c] /\ source[t] \in SourceState /\ SourceInv(t)
        /\ \A d \in Publishers \ {c} : pubSource[d] = None
  BY PublisherFacts DEF PublishSucceeds
<1> DEFINE new == Published(source[t])
<1>2. new \in SourceState /\ Change(t, new)
  <2>1. new \in SourceState
    BY <1>1, ChangesType
  <2>2. Change(t, new)
    BY <1>1, Zenon DEF PublishSucceeds
  <2> QED BY <2>1, <2>2
<1>3. /\ new.canPublish = source[t].canPublish /\ new.consumers = source[t].consumers
      /\ new.active = TRUE /\ new.broken = source[t].broken
      /\ new.idleAge = IF source[t].consumers = {} THEN 0 ELSE source[t].idleAge
  BY <1>1 DEF SourceState, Published
<1>4. /\ \A s \in Sources \ {t} : SameUseOf(s)
      /\ Publishing(c, t)' /\ PublishedBy(c, t)' /\ PublishedBy(c, t) /\ Held(t)' /\ Used(t)'
      /\ \A p \in Players : PlayedBy(p, t)' <=> PlayedBy(p, t)
  BY <1>1 DEF PublishSucceeds, GoesTo, playVars, SameUseOf, PublishedBy,
     Publishing, PlayedBy,
              PublishStates, Held, Used, IInv, Sessions, TypeOK
<1> HIDE DEF new
<1>5. SourceInv(t)'
  <2> USE <1>1, <1>2, <1>3, <1>4, ChangeAt, LiveAssumption
  <2>1. NewInv(t)' /\ HubInv(t)' /\ QuietInv(t)'
    BY DEF NewInv, HubInv, QuietInv
  <2>2. ConsumerInv(t)'
    BY DEF SourceInv, ConsumerInv
  <2>3. BusyInv(t)'
    BY DEF SourceInv, BusyInv
  <2>4. IdleInv(t)'
    BY DEF SourceInv, IdleInv
  <2> QED BY <2>1, <2>2, <2>3, <2>4 DEF SourceInv
<1> QED BY <1>1, <1>2, <1>4, <1>5, ChangeKeeps

LEMMA PublishFailsKeeps ==
  ASSUME IInv, NEW c \in Publishers, NEW hub \in BOOLEAN, PublishFails(c, hub)
  PROVE  source' \in [Sources -> SourceState] /\ \A s \in Sources : SourceInv(s)'
<1>1. PICK t \in Sources :
        /\ t = pubSource[c] /\ source[t] \in SourceState /\ SourceInv(t)
        /\ \A d \in Publishers \ {c} : pubSource[d] = None
  BY PublisherFacts DEF PublishFails
<1> DEFINE new == [source[t] EXCEPT !.active = hub, !.broken = TRUE]
<1>2. new \in SourceState /\ Change(t, new)
  <2>1. new \in SourceState
    BY <1>1, ChangesType
  <2>2. Change(t, new)
    BY <1>1, Zenon DEF PublishFails
  <2> QED BY <2>1, <2>2
<1>3. /\ new.consumers = source[t].consumers /\ new.idleAge = source[t].idleAge
      /\ new.broken = TRUE /\ new.canPublish = source[t].canPublish
  BY <1>1 DEF SourceState
<1>4. /\ \A s \in Sources \ {t} : SameUseOf(s)
      /\ PublishedBy(c, t)
      /\ \A d \in Publishers : ~Publishing(d, t)' /\ ~PublishedBy(d, t)'
      /\ \A p \in Players : PlayedBy(p, t)' <=> PlayedBy(p, t)
  BY <1>1, LiveAssumption DEF PublishFails, Ends, playVars, SameUseOf, PublishedBy,
     Publishing, PlayedBy,
              PublishStates, Held, Used, IInv, Sessions, TypeOK
<1> HIDE DEF new
<1>5. SourceInv(t)'
  <2> USE <1>1, <1>2, <1>3, <1>4, ChangeAt
  <2>1. CASE ~Held(t)'
    BY <2>1, GoneSource
  <2>2. CASE Held(t)'
    <3>1. NewInv(t)' /\ HubInv(t)' /\ QuietInv(t)'
      BY <2>2 DEF NewInv, HubInv, QuietInv
    <3>4. BusyInv(t)'
      BY <2>2 DEF SourceInv, BusyInv
    <3>2. ConsumerInv(t)'
      BY <2>2 DEF SourceInv, ConsumerInv
    <3>3. IdleInv(t)'
      BY <2>2 DEF SourceInv, IdleInv
    <3> QED BY <3>1, <3>2, <3>3, <3>4 DEF SourceInv
  <2> QED BY <2>1, <2>2
<1> QED BY <1>1, <1>2, <1>4, <1>5, ChangeKeeps

LEMMA StopPublishKeeps ==
  ASSUME IInv, NEW c \in Publishers, pubState[c] = "publishing", StopPublish(c)
  PROVE  source' \in [Sources -> SourceState] /\ \A s \in Sources : SourceInv(s)'
<1>1. PICK t \in Sources :
        /\ t = pubSource[c] /\ source[t] \in SourceState /\ SourceInv(t)
        /\ \A d \in Publishers \ {c} : pubSource[d] = None
  BY PublisherFacts DEF StopPublish
<1> DEFINE new == [source[t] EXCEPT !.active = @ /\ source[t].canPublish]
<1>2. new \in SourceState /\ Change(t, new)
  <2>1. new \in SourceState
    BY <1>1, ChangesType DEF SourceState
  <2>2. Change(t, new)
    BY <1>1, Zenon DEF StopPublish
  <2> QED BY <2>1, <2>2
<1>3. /\ new.canPublish = source[t].canPublish /\ new.consumers = source[t].consumers
      /\ new.active = (source[t].active /\ source[t].canPublish)
      /\ new.idleAge = source[t].idleAge /\ new.broken = source[t].broken
  BY <1>1 DEF SourceState
<1>4. /\ \A s \in Sources \ {t} : SameUseOf(s)
      /\ PublishedBy(c, t) /\ Held(t)'
      /\ ~source[t].canPublish => PublishedBy(c, t)' /\ Used(t)'
      /\ \A d \in Publishers : ~Publishing(d, t)'
      /\ \A p \in Players : PlayedBy(p, t)' <=> PlayedBy(p, t)
  BY <1>1, LiveAssumption DEF StopPublish, GoesTo, playVars, SameUseOf, PublishedBy,
     Publishing, PlayedBy,
              PublishStates, Held, Used, IInv, Sessions, TypeOK
<1> HIDE DEF new
<1>5. SourceInv(t)'
  <2> USE <1>1, <1>2, <1>3, <1>4, ChangeAt
  <2>1. source[t].canPublish => source[t].broken
    BY DEF SourceInv, BusyInv
  <2>2. NewInv(t)' /\ HubInv(t)'
    BY <2>1 DEF NewInv, HubInv
  <2>3. BusyInv(t)'
    BY <2>1 DEF SourceInv, BusyInv
  <2>4. QuietInv(t)'
    BY <2>1 DEF QuietInv
  <2>5. ConsumerInv(t)'
    BY DEF SourceInv, ConsumerInv
  <2>6. IdleInv(t)'
    BY DEF SourceInv, IdleInv
  <2> QED BY <2>2, <2>3, <2>4, <2>5, <2>6 DEF SourceInv
<1> QED BY <1>1, <1>2, <1>4, <1>5, ChangeKeeps

LEMMA PublishStoppedKeeps ==
  ASSUME IInv, NEW c \in Publishers, PublishStopped(c)
  PROVE  source' \in [Sources -> SourceState] /\ \A s \in Sources : SourceInv(s)'
<1>1. PICK t \in Sources :
        /\ t = pubSource[c] /\ source[t] \in SourceState /\ SourceInv(t)
        /\ \A d \in Publishers \ {c} : pubSource[d] = None
  BY PublisherFacts DEF PublishStopped
<1> DEFINE new == Unpublished(source[t])
<1>2. new \in SourceState /\ Change(t, new)
  <2>1. new \in SourceState
    BY <1>1, ChangesType DEF SourceState
  <2>2. Change(t, new)
    BY <1>1, Zenon DEF PublishStopped
  <2> QED BY <2>1, <2>2
<1>3. /\ new.canPublish = TRUE /\ new.consumers = source[t].consumers
      /\ new.active = source[t].active /\ new.quiet = source[t].quiet
      /\ new.dieAge = IF source[t].consumers = {} THEN 0 ELSE source[t].dieAge
      /\ new.idleAge = source[t].idleAge /\ new.broken = source[t].broken
  BY <1>1 DEF SourceState, Unpublished
<1>4. /\ \A s \in Sources \ {t} : SameUseOf(s)
      /\ Held(t)' /\ Used(t) /\ PublishedBy(c, t)
      /\ \A d \in Publishers : ~Publishing(d, t) /\ ~Publishing(d, t)' /\ ~PublishedBy(d, t)'
      /\ \A p \in Players : PlayedBy(p, t)' <=> PlayedBy(p, t)
      /\ Used(t)' <=> \E p \in Players : PlayedBy(p, t)
  BY <1>1, LiveAssumption DEF PublishStopped, GoesTo, playVars, SameUseOf, PublishedBy,
     Publishing, PlayedBy,
              PublishStates, Held, Used, IInv, Sessions, TypeOK
<1> HIDE DEF new
<1>5. SourceInv(t)'
  <2> USE <1>1, <1>2, <1>3, <1>4, ChangeAt
  <2>1. NewInv(t)'
    BY DEF NewInv
  <2>6. ~source[t].broken
    BY DEF SourceInv, BusyInv
  <2>7. BusyInv(t)'
    BY <2>6 DEF BusyInv
  <2>2. HubInv(t)'
    BY DEF SourceInv, HubInv
  <2>3. ConsumerInv(t)'
    BY DEF SourceInv, ConsumerInv
  <2>4. QuietInv(t)'
    BY DEF SourceInv, ConsumerInv, QuietInv
  <2>5. IdleInv(t)'
    BY DEF SourceInv, IdleInv
  <2> QED BY <2>1, <2>2, <2>3, <2>4, <2>5, <2>7 DEF SourceInv
<1> QED BY <1>1, <1>2, <1>4, <1>5, ChangeKeeps

LEMMA CreateConsumerKeeps ==
  ASSUME IInv, NEW p \in Players, CreateConsumer(p)
  PROVE  source' \in [Sources -> SourceState] /\ \A s \in Sources : SourceInv(s)'
<1>1. PICK t \in Sources :
        /\ t = playSource[p] /\ source[t] \in SourceState /\ SourceInv(t)
  BY PlayerFacts DEF CreateConsumer
<1> DEFINE new == WithConsumer(source[t], p)
<1>2. new \in SourceState /\ Change(t, new)
  <2>1. new \in SourceState
    BY <1>1, ChangesType DEF SourceState
  <2>2. Change(t, new)
    BY <1>1, Zenon DEF CreateConsumer
  <2> QED BY <2>1, <2>2
<1>3. /\ new.canPublish = source[t].canPublish /\ new.consumers = source[t].consumers \cup {p}
      /\ new.active = source[t].active
      /\ new.idleAge = None /\ new.broken = source[t].broken
  BY <1>1 DEF SourceState, WithConsumer
<1>4. /\ \A s \in Sources \ {t} : SameUseOf(s)
      /\ Held(t)' /\ Used(t)'
      /\ \A d \in Publishers : /\ Publishing(d, t)' <=> Publishing(d, t)
                               /\ PublishedBy(d, t)' <=> PublishedBy(d, t)
      /\ \A q \in Players : PlayedBy(q, t)' <=> PlayedBy(q, t) \/ q = p
  BY <1>1, LiveAssumption DEF CreateConsumer, PlayGoesTo, pubVars, SameUseOf, PublishedBy,
     Publishing, PlayedBy,
              PublishStates, Held, Used, IInv, Sessions, TypeOK
<1> HIDE DEF new
<1>5. SourceInv(t)'
  <2> USE <1>1, <1>2, <1>3, <1>4, ChangeAt
  <2>1. NewInv(t)' /\ QuietInv(t)' /\ IdleInv(t)'
    BY DEF NewInv, QuietInv, IdleInv
  <2>2. HubInv(t)'
    BY DEF SourceInv, HubInv
  <2>3. ConsumerInv(t)'
    BY DEF SourceInv, ConsumerInv
  <2>4. BusyInv(t)'
    BY DEF SourceInv, BusyInv
  <2> QED BY <2>1, <2>2, <2>3, <2>4 DEF SourceInv
<1> QED BY <1>1, <1>2, <1>4, <1>5, ChangeKeeps

LEMMA DestroyConsumerKeeps ==
  ASSUME IInv, NEW p \in Players, DestroyConsumer(p)
  PROVE  source' \in [Sources -> SourceState] /\ \A s \in Sources : SourceInv(s)'
<1>1. PICK t \in Sources :
        /\ t = playSource[p] /\ source[t] \in SourceState /\ SourceInv(t)
  BY PlayerFacts DEF DestroyConsumer
<1> DEFINE new == WithoutConsumer(source[t], p)
<1>2. new \in SourceState /\ Change(t, new)
  <2>1. new \in SourceState
    BY <1>1, ChangesType DEF SourceState
  <2>2. Change(t, new)
    BY <1>1, Zenon DEF DestroyConsumer
  <2> QED BY <2>1, <2>2
<1>3. /\ new.canPublish = source[t].canPublish /\ new.consumers = source[t].consumers \ {p}
      /\ new.active = source[t].active /\ new.broken = source[t].broken
      /\ new.quiet = source[t].quiet
      /\ new.consumers = {} => /\ source[t].canPublish => new.dieAge = 0
                               /\ new.idleAge = 0
      /\ new.consumers # {} => new.idleAge = source[t].idleAge
  BY <1>1 DEF SourceState, WithoutConsumer
<1>4. /\ \A s \in Sources \ {t} : SameUseOf(s)
      /\ Held(t)' /\ Used(t)
      /\ \A d \in Publishers : /\ Publishing(d, t)' <=> Publishing(d, t)
                               /\ PublishedBy(d, t)' <=> PublishedBy(d, t)
      /\ \A q \in Players : PlayedBy(q, t)' <=> PlayedBy(q, t) /\ q # p
      /\ Used(t)' <=> \/ \E d \in Publishers : PublishedBy(d, t)
                      \/ \E q \in Players : PlayedBy(q, t)'
  BY <1>1, LiveAssumption DEF DestroyConsumer, PlayGoesTo, pubVars, SameUseOf, PublishedBy,
     Publishing, PlayedBy,
              PublishStates, Held, Used, IInv, Sessions, TypeOK
<1> HIDE DEF new
<1>5. SourceInv(t)'
  <2> USE <1>1, <1>2, <1>3, <1>4, ChangeAt
  <2>1. ConsumerInv(t)'
    BY DEF SourceInv, ConsumerInv
  <2>2. NewInv(t)'
    BY DEF NewInv
  <2>3. HubInv(t)'
    BY DEF SourceInv, HubInv
  <2>4. BusyInv(t)'
    BY DEF SourceInv, BusyInv
  <2>5. QuietInv(t)'
    BY <2>1 DEF SourceInv, ConsumerInv, BusyInv, QuietInv
  <2>6. IdleInv(t)'
    BY LiveAssumption DEF SourceInv, IdleInv
  <2> QED BY <2>1, <2>2, <2>3, <2>4, <2>5, <2>6 DEF SourceInv
<1> QED BY <1>1, <1>2, <1>4, <1>5, ChangeKeeps

-----------------------------------------------------------------------------
(* Time passes *)

LEMMA OlderType ==
  ASSUME NEW limit \in Nat, NEW age \in 0 .. limit
  PROVE  Older(age, limit) \in 0 .. limit
BY LiveAssumption DEF Older

LEMMA TickKeeps ==
  ASSUME IInv, Tick
  PROVE  source' \in [Sources -> SourceState] /\ \A s \in Sources : SourceInv(s)'
<1> DEFINE older(s) == [source[s] EXCEPT !.dieAge = Older(@, Cleanup),
                                         !.idleAge = Older(@, IdleTimeout + 1),
                                         !.quiet = Older(@, Cleanup)]
           changed == [s \in Sources |-> older(s)]
<1>1. ASSUME NEW s \in Sources
      PROVE  /\ source[s] \in SourceState /\ older(s) \in SourceState
             /\ older(s).canPublish = source[s].canPublish
             /\ older(s).consumers = source[s].consumers
             /\ older(s).active = source[s].active
             /\ older(s).broken = source[s].broken
             /\ older(s).dieAge = Older(source[s].dieAge, Cleanup)
             /\ older(s).quiet = Older(source[s].quiet, Cleanup)
             /\ older(s).idleAge = None <=> source[s].idleAge = None
  <2>1. source[s] \in SourceState
    BY DEF IInv, Sessions, TypeOK
  <2>2. /\ Older(source[s].dieAge, Cleanup) \in 0 .. Cleanup
        /\ Older(source[s].quiet, Cleanup) \in 0 .. Cleanup
    BY <2>1, LiveAssumption, OlderType DEF SourceState
  <2>3. /\ Older(source[s].idleAge, IdleTimeout + 1) \in 0 .. (IdleTimeout + 1) \cup {None}
        /\ Older(source[s].idleAge, IdleTimeout + 1) = None <=> source[s].idleAge = None
    BY <2>1, LiveAssumption DEF SourceState, Older
  <2>4. older(s) \in SourceState
    BY <2>1, <2>2, <2>3 DEF SourceState
  <2>5. older(s).idleAge = Older(source[s].idleAge, IdleTimeout + 1)
    BY <2>1 DEF SourceState
  <2> QED BY <2>1, <2>3, <2>4, <2>5 DEF SourceState
<1>2. Settle(changed)
  BY DEF Tick
<1> HIDE DEF older
<1>3. changed \in [Sources -> SourceState] /\ \A s \in Sources : changed[s] = older(s)
  BY <1>1
<1> HIDE DEF changed
<1>4. source' \in [Sources -> SourceState]
  BY <1>2, <1>3, SettleType
<1>5. ASSUME NEW s \in Sources PROVE SourceInv(s)'
  <2>1. SameUseOf(s) /\ (Held(s)' <=> Held(s)) /\ (Used(s)' <=> Used(s))
    BY DEF Tick, SameUseOf, PublishedBy, PlayedBy, Publishing, Held, Used, pubVars, playVars
  <2>2. CASE ~Held(s)'
    BY <1>2, <1>3, <2>2, SettleAt, GoneSource
  <2>3. CASE Held(s)'
    <3>1. SourceInv(s)
      BY DEF IInv
    <3>2. NewInv(s)'
      BY <2>3 DEF NewInv
    <3>3. ConsumerInv(s)'
      BY <1>1, <1>2, <1>3, <2>1, <2>3, <3>1, SettleAt DEF SourceInv, ConsumerInv, SameUseOf
    <3>4. BusyInv(s)'
      BY <1>1, <1>2, <1>3, <2>1, <2>3, <3>1, SettleAt DEF SourceInv, BusyInv, SameUseOf
    <3>5. HubInv(s)'
      BY <1>1, <1>2, <1>3, <2>1, <2>3, <3>1, SettleAt DEF SourceInv, HubInv, SameUseOf
    <3>6. QuietInv(s)'
      BY <1>1, <1>2, <1>3, <2>1, <2>3, <3>1, SettleAt DEF SourceInv, QuietInv
    <3>7. IdleInv(s)'
      BY <1>1, <1>2, <1>3, <2>1, <2>3, <3>1, SettleAt DEF SourceInv, IdleInv, SameUseOf
    <3> QED BY <3>2, <3>3, <3>4, <3>5, <3>6, <3>7 DEF SourceInv
  <2> QED BY <2>2, <2>3
<1> QED BY <1>4, <1>5

-----------------------------------------------------------------------------
LEMMA LiveInit == Init => IInv
<1> SUFFICES ASSUME Init PROVE IInv
  OBVIOUS
<1> USE LiveAssumption DEF Init
<1>1. Sessions
  BY NewSourceType DEF Sessions, TypeOK, TokenHeld, PublishStates
<1>2. ASSUME NEW s \in Sources PROVE SourceInv(s)
  <2>1. /\ ~Used(s) /\ \A c \in Publishers : ~PublishedBy(c, s) /\ ~Publishing(c, s)
        /\ ~Held(s) /\ \A p \in Players : ~PlayedBy(p, s)
    BY DEF Used, PublishedBy, Publishing, PlayedBy, Held, PublishStates
  <2>2. source[s] = NewSource
    OBVIOUS
  <2> QED BY <2>1, <2>2 DEF SourceInv, NewInv, ConsumerInv, BusyInv, HubInv, QuietInv,
                            IdleInv, NewSource
<1> QED BY <1>1, <1>2 DEF IInv

LEMMA LiveStep == IInv /\ [Next]_vars => IInv'
<1> SUFFICES ASSUME IInv, [Next]_vars PROVE IInv'
  OBVIOUS
<1>1. CASE UNCHANGED vars
  BY <1>1 DEF IInv, Sessions, TypeOK, TokenHeld, SourceInv, NewInv, ConsumerInv, BusyInv,
              HubInv, QuietInv, IdleInv, Used, Held, PublishedBy, Publishing, PlayedBy,
              vars, pubVars, playVars
<1>2. CASE Next
  <2> DEFINE Kept == source' \in [Sources -> SourceState] /\ \A s \in Sources : SourceInv(s)'
  <2>1. ASSUME PointerStep PROVE Kept
    BY <2>1, PointerStepsKeep
  <2>2. ASSUME NEW c \in Publishers, OnPublish(c) PROVE Kept
    BY <2>2, OnPublishKeeps
  <2>3. ASSUME NEW c \in Publishers, PublishSucceeds(c) PROVE Kept
    BY <2>3, PublishSucceedsKeeps
  <2>4. ASSUME NEW c \in Publishers, NEW hub \in BOOLEAN, PublishFails(c, hub) PROVE Kept
    BY <2>4, PublishFailsKeeps
  <2>5. ASSUME NEW c \in Publishers, PublisherGone(c) \/ Kick(c) PROVE Kept
    BY <2>5, StopPublishKeeps DEF PublisherGone, Kick
  <2>6. ASSUME NEW c \in Publishers, PublishStopped(c) PROVE Kept
    BY <2>6, PublishStoppedKeeps
  <2>7. ASSUME NEW p \in Players, CreateConsumer(p) PROVE Kept
    BY <2>7, CreateConsumerKeeps
  <2>8. ASSUME NEW p \in Players, DestroyConsumer(p) PROVE Kept
    BY <2>8, DestroyConsumerKeeps
  <2>9. ASSUME Tick PROVE Kept
    BY <2>9, TickKeeps
  <2> HIDE DEF Kept
  <2>10. Kept
    BY <1>2, <2>1, <2>2, <2>3, <2>4, <2>5, <2>6, <2>7, <2>8, <2>9
       DEF Next, PublisherStep, PlayerStep, AdapterStep, PointerStep
  <2>11. Sessions'
    BY <1>2, <2>10, SessionsKept DEF IInv, Kept
  <2> QED BY <2>10, <2>11 DEF IInv, Kept
<1> QED BY <1>1, <1>2

\* The sessions, the pool and the sources of a stream satisfy the inductive
\* invariant, for any number of connections.
THEOREM LiveInvariant == Spec => []IInv
BY LiveInit, LiveStep, PTL DEF Spec

\* The members keep their types.
THEOREM LiveTypeCorrect == Spec => []TypeOK
<1>1. IInv => TypeOK
  BY DEF IInv, Sessions
<1> QED BY <1>1, LiveInvariant, PTL

\* The publish token admits one publisher of a stream at a time.
THEOREM TokenExcludes == Spec => []OnePublisher
<1>1. IInv => OnePublisher
  BY DEF IInv, Sessions, TokenHeld, OnePublisher
<1> QED BY <1>1, LiveInvariant, PTL

\* The consumers of a source are the players playing from it.
THEOREM ConsumersExact == Spec => []ConsumersArePlayers
<1>1. IInv => ConsumersArePlayers
  BY DEF IInv, SourceInv, ConsumerInv, ConsumersArePlayers
<1> QED BY <1>1, LiveInvariant, PTL

\* A source is marked as published exactly while a session publishes it.
THEOREM BusyExact == Spec => []BusyWhilePublished
<1>1. IInv => BusyWhilePublished
  BY DEF IInv, SourceInv, BusyInv, BusyWhilePublished
<1> QED BY <1>1, LiveInvariant, PTL

\* The hub of a source is active exactly while a session is in its publishing loop.
THEOREM HubExact == Spec => []HubWhilePublishing
<1>1. IInv => HubWhilePublishing
  BY DEF IInv, SourceInv, HubInv, Publishing, HubWhilePublishing
<1> QED BY <1>1, LiveInvariant, PTL

\* The idle clock runs exactly while nobody watches a publisher.
THEOREM IdleExact == Spec => []IdleClock
<1>1. ASSUME IInv, NEW c \in Publishers, pubState[c] = "publishing"
      PROVE  source[pubSource[c]].idleAge = None <=> source[pubSource[c]].consumers # {}
  <2>1. pubSource[c] \in Sources /\ Publishing(c, pubSource[c])
    BY <1>1 DEF IInv, Sessions, TypeOK, Publishing
  <2> QED BY <1>1, <2>1 DEF IInv, SourceInv, IdleInv
<1>2. IInv => IdleClock
  BY <1>1 DEF IdleClock
<1> QED BY <1>2, LiveInvariant, PTL

\* All that a source records of its sessions is exact at once.
THEOREM RecordsAreExact == Spec => []RecordsExact
<1>1. TypeOK /\ ConsumersArePlayers /\ BusyWhilePublished /\ HubWhilePublishing /\ IdleClock
      => RecordsExact
  BY DEF RecordsExact
<1> QED BY <1>1, LiveTypeCorrect, ConsumersExact, BusyExact, HubExact, IdleExact, PTL

\* The time of death of an unused source is the time of its last use.
THEOREM GraceExact == Spec => []GracePeriod
<1>1. IInv => GracePeriod
  BY DEF IInv, SourceInv, QuietInv, GracePeriod
<1> QED BY <1>1, LiveInvariant, PTL

\* The timer never erases a source that a session publishes or plays.
THEOREM UsedSourceStays == Spec => UsedStaysPooled
<1>1. ASSUME IInv, pool # None, Used(pool), Notify PROVE FALSE
  <2>1. PICK t \in Sources : t = pool /\ SourceInv(t) /\ Dead(source[t]) /\ Used(t)
    BY <1>1 DEF IInv, Sessions, TypeOK, Notify
  <2>2. \A c \in Publishers : ~PublishedBy(c, t)
    BY <2>1 DEF SourceInv, BusyInv, Dead
  <2>3. \A p \in Players : ~PlayedBy(p, t)
    BY <2>1 DEF SourceInv, ConsumerInv, Dead
  <2> QED BY <2>1, <2>2, <2>3 DEF Used
<1>2. ASSUME Next, pool # None, ~Notify PROVE pool' = pool
  BY <1>2 DEF Next, PublisherStep, PlayerStep, AdapterStep, StartPublish, PublishRefused,
      PublishBusy, OnPublish, PublishSucceeds, PublishFails, PublisherGone, Kick,
      StopPublish, PublishStopped, PublisherLeaves, StartPlay, PlayerLeaves,
      CreateConsumer, DestroyConsumer, AdapterOpens, AdapterCloses, InitializeFails,
      Tick, FetchOrCreate, Fetched
<1>3. IInv /\ [Next]_vars => KeepsPooled
  BY <1>1, <1>2 DEF KeepsPooled, vars
<1>4. IInv /\ [Next]_vars => [KeepsPooled]_vars
  BY <1>3
<1> QED BY <1>4, LiveInvariant, PTL DEF Spec, UsedStaysPooled
=============================================================================
