-------------------------- MODULE TsHandlerProofs --------------------------
(***************************************************************************)
(* Proofs about TsHandler for every set of codecs, values and messages and *)
(* every threshold.  A message is handled unit by unit in a recursive      *)
(* function, so what holds of a unit is lifted to a message by induction   *)
(* on its length; the induction is an argument about a least               *)
(* counterexample (LeastElement).                                          *)
(***************************************************************************)
EXTENDS TsHandler, WellFoundedInduction, TLAPS

\* Every non-empty set of numbers has a least element.
LEMMA LeastElement ==
  ASSUME NEW T \in SUBSET Nat, T # {}
  PROVE  \E x \in T : \A y \in T : x <= y
<1> DEFINE R == OpToRel(<, Nat)
<1>1. PICK x \in T : \A y \in T : ~ (<<y, x>> \in R)
  BY NatLessThanWellFounded, WFMin
<1>2. R = {ss \in Nat \X Nat : ss[1] < ss[2]}
  BY DEF OpToRel
<1> HIDE DEF R
<1>3. ASSUME NEW y \in T, y < x PROVE FALSE
  <2>1. <<y, x>> \in {ss \in Nat \X Nat : ss[1] < ss[2]}
    BY <1>3
  <2> QED BY <2>1, <1>1, <1>2
<1> QED BY <1>3

\* A recursive function whose steps stay in a set has its values there.
LEMMA StaysIn ==
  ASSUME NEW n \in Nat, NEW f, NEW S, f[0] \in S,
         \A i \in 1 .. n : f[i - 1] \in S => f[i] \in S
  PROVE  \A i \in 0 .. n : f[i] \in S
<1> DEFINE T == {i \in 0 .. n : f[i] \notin S}
<1> SUFFICES ASSUME T # {} PROVE FALSE
  OBVIOUS
<1>1. PICK x \in T : \A y \in T : x <= y
  <2>1. T \in SUBSET Nat
    OBVIOUS
  <2> HIDE DEF T
  <2> QED BY <2>1, LeastElement
<1>2. x \in 1 .. n
  OBVIOUS
<1>3. x - 1 \in 0 .. n /\ x - 1 \notin T
  BY <1>1, <1>2
<1>4. f[x - 1] \in S
  BY <1>3
<1> QED BY <1>2, <1>4

\* Recursion over 0 .. n from a by the steps F has a solution.
Solution(g, n, S, a, F) ==
  /\ g \in [0 .. n -> S]
  /\ g[0] = a
  /\ \A i \in 1 .. n : g[i] = F[<<g[i - 1], i>>]

LEMMA RecursionExists ==
  ASSUME NEW n, NEW S, NEW a, NEW F, n \in Nat, a \in S,
         \A s \in S : \A i \in 1 .. n : F[<<s, i>>] \in S
  PROVE  \E g : Solution(g, n, S, a, F)
<1> DEFINE T == {k \in 0 .. n : \A g : ~Solution(g, k, S, a, F)}
<1> SUFFICES ASSUME T # {} PROVE FALSE
  <2>1. n \notin T
    OBVIOUS
  <2> QED BY <2>1
<1>1. PICK x \in T : \A y \in T : x <= y
  <2>1. T \in SUBSET Nat
    OBVIOUS
  <2> HIDE DEF T
  <2> QED BY <2>1, LeastElement
<1>2. x # 0
  <2>1. Solution([i \in 0 .. 0 |-> a], 0, S, a, F)
    BY DEF Solution
  <2> QED BY <2>1
<1>3. x \in 1 .. n /\ x - 1 \in 0 .. n
  BY <1>2
<1>4. PICK g : Solution(g, x - 1, S, a, F)
  <2>1. x - 1 \notin T
    <3> HIDE DEF T
    <3> QED BY <1>1, <1>3
  <2> QED BY <2>1, <1>3
<1> DEFINE h == [i \in 0 .. x |-> IF i = x THEN F[<<g[x - 1], x>>] ELSE g[i]]
<1>5. Solution(h, x, S, a, F)
  <2>0. /\ g \in [0 .. (x - 1) -> S] /\ g[0] = a
        /\ \A i \in 1 .. (x - 1) : g[i] = F[<<g[i - 1], i>>]
    BY <1>4 DEF Solution
  <2>1. g[x - 1] \in S
    BY <1>3, <2>0
  <2>3. F[<<g[x - 1], x>>] \in S
    BY <1>3, <2>1
  <2>4. h \in [0 .. x -> S]
    BY <1>3, <2>0, <2>3
  <2>5. h[0] = a
    BY <1>3, <2>0
  <2>6. ASSUME NEW i \in 1 .. x PROVE h[i] = F[<<h[i - 1], i>>]
    <3>1. h[i - 1] = g[i - 1]
      BY <1>3
    <3>2. CASE i = x
      BY <3>1, <3>2, <1>3
    <3>3. CASE i # x
      <4>1. i \in 1 .. (x - 1) /\ h[i] = g[i]
        BY <1>3, <3>3
      <4>2. g[i] = F[<<g[i - 1], i>>]
        BY <2>0, <4>1
      <4> QED BY <3>1, <4>1, <4>2
    <3> QED BY <3>2, <3>3
  <2> HIDE DEF h
  <2> QED BY <2>4, <2>5, <2>6 DEF Solution
<1> QED BY <1>5

-----------------------------------------------------------------------------
(* A video message *)

VideoType ==
  [sets : [Kinds -> Values \cup {None}], changed : SUBSET Kinds,
   sent : BOOLEAN, shown : [Kinds -> Values \cup {None}], orphan : BOOLEAN]

\* What every unit preserves: the flags know where the source's header is out of
\* date, a header that was sent has an SPS, and no frame came before it.
Sound(v) ==
  /\ v.sent => \A k \in Kinds \ v.changed : v.shown[k] = v.sets[k]
  /\ v.sent => v.shown["sps"] # None
  /\ ~v.orphan

\* What an HEVC unit preserves when its push succeeds.
Current(v) == (\A k \in Kinds : v.sets[k] # None) => v.shown = v.sets

\* The states the loop over a message may be in; cur when no push fails.
VideoRuns(cur) ==
  {r \in [v : VideoType, open : BOOLEAN, err : BOOLEAN, alive : BOOLEAN] :
     Sound(r.v) /\ (cur => Current(r.v))}

LEMMA SpsInKinds == "sps" \in Kinds
BY DEF Kinds, ParameterSets

LEMMA VideoEnds ==
  ASSUME NEW cur \in BOOLEAN, NEW r \in VideoRuns(cur)
  PROVE  /\ Failed(r) \in VideoRuns(cur)
         /\ Aborted(r) \in VideoRuns(cur)
         /\ [r EXCEPT !.open = FALSE] \in VideoRuns(cur)
<1>1. r \in [v : VideoType, open : BOOLEAN, err : BOOLEAN, alive : BOOLEAN]
  BY DEF VideoRuns
<1>2. /\ Failed(r) \in [v : VideoType, open : BOOLEAN, err : BOOLEAN, alive : BOOLEAN]
      /\ Failed(r).v = r.v
  BY <1>1 DEF Failed
<1>3. /\ Aborted(r) \in [v : VideoType, open : BOOLEAN, err : BOOLEAN, alive : BOOLEAN]
      /\ Aborted(r).v = r.v
  BY <1>1 DEF Aborted
<1>4. /\ [r EXCEPT !.open = FALSE]
           \in [v : VideoType, open : BOOLEAN, err : BOOLEAN, alive : BOOLEAN]
      /\ [r EXCEPT !.open = FALSE].v = r.v
  BY <1>1
<1>5. Sound(r.v) /\ (cur => Current(r.v))
  BY DEF VideoRuns
<1> QED BY <1>2, <1>3, <1>4, <1>5 DEF VideoRuns

\* A run that differs in its video only.
LEMMA VideoChanged ==
  ASSUME NEW cur, NEW r, NEW e, cur \in BOOLEAN, r \in VideoRuns(cur),
         e \in [v : VideoType, open : BOOLEAN, err : BOOLEAN, alive : BOOLEAN],
         Sound(e.v), cur => Current(e.v)
  PROVE  e \in VideoRuns(cur)
BY DEF VideoRuns

LEMMA FrameKeeps ==
  ASSUME NEW cur \in BOOLEAN, NEW r \in VideoRuns(cur), NEW ok \in BOOLEAN
  PROVE  WriteFrame(r, ok) \in VideoRuns(cur)
<1>1. /\ r \in [v : VideoType, open : BOOLEAN, err : BOOLEAN, alive : BOOLEAN]
      /\ Sound(r.v) /\ (cur => Current(r.v))
  BY DEF VideoRuns
<1>2. CASE r.v.sent /\ ok
  <2>1. PICK e : e = [r EXCEPT !.v.orphan = @ \/ r.v.shown = NoHeader]
    OBVIOUS
  <2>2. /\ e \in [v : VideoType, open : BOOLEAN, err : BOOLEAN, alive : BOOLEAN]
        /\ e.v.sets = r.v.sets /\ e.v.changed = r.v.changed /\ e.v.sent = r.v.sent
        /\ e.v.shown = r.v.shown
        /\ e.v.orphan = (r.v.orphan \/ r.v.shown = NoHeader)
    BY <1>1, <2>1 DEF VideoType
  <2>3. r.v.shown # NoHeader
    <3>1. NoHeader["sps"] = None
      BY SpsInKinds DEF NoHeader
    <3>2. r.v.shown["sps"] # None
      BY <1>1, <1>2 DEF Sound
    <3> QED BY <3>1, <3>2
  <2>4. Sound(e.v) /\ (cur => Current(e.v))
    BY <1>1, <2>2, <2>3 DEF Sound, Current
  <2>5. WriteFrame(r, ok) = e
    BY <1>2, <2>1 DEF WriteFrame
  <2> QED BY <2>2, <2>4, <2>5, VideoChanged
<1>3. CASE ~(r.v.sent /\ ok)
  BY <1>3, VideoEnds DEF WriteFrame
<1> QED BY <1>2, <1>3

LEMMA SetKeeps ==
  ASSUME NEW cur \in BOOLEAN, NEW r \in VideoRuns(cur), NEW ok \in BOOLEAN,
         NEW u \in Unit, u.kind \in Kinds, cur => ok /\ codec # "h264"
  PROVE  WriteSet(r, u, ok) \in VideoRuns(cur)
<1>1. /\ r \in [v : VideoType, open : BOOLEAN, err : BOOLEAN, alive : BOOLEAN]
      /\ Sound(r.v) /\ (cur => Current(r.v))
  BY DEF VideoRuns
<1>2. PICK k \in Kinds, x \in Values \cup {None} : k = u.kind /\ x = u.value
  BY DEF Unit
<1>3. CASE r.v.sets[k] = x
  BY <1>2, <1>3 DEF WriteSet
<1>4. CASE r.v.sets[k] # x
  <2>1. PICK c : c = [r EXCEPT !.v.sets[k] = x, !.v.changed = @ \cup {k}]
    OBVIOUS
  <2>2. /\ c \in [v : VideoType, open : BOOLEAN, err : BOOLEAN, alive : BOOLEAN]
        /\ c.v.sets = [r.v.sets EXCEPT ![k] = x]
        /\ c.v.changed = r.v.changed \cup {k} /\ c.v.sent = r.v.sent
        /\ c.v.shown = r.v.shown /\ c.v.orphan = r.v.orphan
    BY <1>1, <2>1 DEF VideoType
  <2>3. WriteSet(r, u, ok) = WriteHeader(c, ok)
    BY <1>2, <1>4, <2>1 DEF WriteSet
  <2>4. Sound(c.v)
    <3>1. \A j \in Kinds \ c.v.changed : j \in Kinds \ r.v.changed /\ c.v.sets[j] = r.v.sets[j]
      BY <1>1, <2>2 DEF VideoType
    <3> QED BY <1>1, <2>2, <3>1 DEF Sound
  <2>5. CASE ~Due(c.v)
    <3>1. WriteHeader(c, ok) = c
      BY <2>5 DEF WriteHeader
    <3>2. cur => Current(c.v)
      BY <2>2, <2>5 DEF Due, Current
    <3> QED BY <2>2, <2>3, <2>4, <3>1, <3>2, VideoChanged
  <2>6. CASE Due(c.v) /\ c.v.sets["sps"] # None /\ ok
    <3>1. PICK e : e = [c EXCEPT !.v.shown = c.v.sets, !.v.changed = {}, !.v.sent = TRUE]
      OBVIOUS
    <3>2. /\ e \in [v : VideoType, open : BOOLEAN, err : BOOLEAN, alive : BOOLEAN]
          /\ e.v.sets = c.v.sets /\ e.v.shown = c.v.sets /\ e.v.orphan = c.v.orphan
      BY <2>2, <3>1 DEF VideoType
    <3>3. Sound(e.v) /\ Current(e.v)
      BY <2>4, <2>6, <3>2 DEF Sound, Current
    <3>4. WriteHeader(c, ok) = e
      BY <2>6, <3>1 DEF WriteHeader
    <3> QED BY <2>3, <3>2, <3>3, <3>4, VideoChanged
  <2>7. CASE Due(c.v) /\ ~(c.v.sets["sps"] # None /\ ok)
    <3>1. ~cur
      BY <2>7, SpsInKinds DEF Due
    <3>2. c \in VideoRuns(FALSE) /\ VideoRuns(cur) = VideoRuns(FALSE)
      BY <2>2, <2>4, <3>1 DEF VideoRuns
    <3>3. WriteHeader(c, ok) = Aborted(c) \/ WriteHeader(c, ok) = Failed(c)
      BY <2>7 DEF WriteHeader
    <3> QED BY <2>3, <3>2, <3>3, VideoEnds
  <2> QED BY <2>5, <2>6, <2>7
<1> QED BY <1>3, <1>4

LEMMA VideoUnitKeeps ==
  ASSUME NEW cur \in BOOLEAN, NEW r \in VideoRuns(cur), NEW ok \in BOOLEAN,
         NEW u \in Unit, cur => ok /\ codec # "h264"
  PROVE  VideoUnit(r, u, ok) \in VideoRuns(cur)
<1>1. CASE u.kind \in Kinds
  BY <1>1, SetKeeps DEF VideoUnit, Kinds, ParameterSets
<1>2. CASE u.kind \notin Kinds
  BY <1>2, FrameKeeps, VideoEnds DEF VideoUnit
<1> QED BY <1>1, <1>2

LEMMA OnVideoKeeps ==
  ASSUME NEW cur \in BOOLEAN, NEW v \in VideoType, Sound(v), cur => Current(v),
         NEW units \in Seq(Unit), NEW bad \in Nat, cur => bad = 0 /\ codec # "h264"
  PROVE  OnVideo(v, units, bad) \in VideoRuns(cur)
<1> DEFINE n == Len(units)
           S == VideoRuns(cur)
           a == [v |-> v, open |-> TRUE, err |-> FALSE, alive |-> TRUE]
           Body(g) == [i \in 0 .. n |->
                         IF i = 0 THEN a
                         ELSE IF g[i - 1].open
                                THEN VideoUnit(g[i - 1], units[i], i # bad)
                                ELSE g[i - 1]]
           run == CHOOSE g : g = Body(g)
           F == [p \in S \X (1 .. n) |->
                   IF p[1].open THEN VideoUnit(p[1], units[p[2]], p[2] # bad) ELSE p[1]]
<1>1. OnVideo(v, units, bad) = run[n]
  BY DEF OnVideo
<1>2. n \in Nat
  OBVIOUS
<1>3. a \in S
  BY DEF VideoRuns
<1>4. ASSUME NEW r \in S, NEW i \in 1 .. n
      PROVE  (IF r.open THEN VideoUnit(r, units[i], i # bad) ELSE r) \in S
  <2>1. units[i] \in Unit /\ (i # bad) \in BOOLEAN /\ (cur => i # bad /\ codec # "h264")
    OBVIOUS
  <2>2. VideoUnit(r, units[i], i # bad) \in S
    BY <2>1, VideoUnitKeeps
  <2> QED BY <2>2
<1> HIDE DEF n, S, a
<1>5. \A s \in S : \A i \in 1 .. n : F[<<s, i>>] \in S
  BY <1>4
<1>6. PICK g \in [0 .. n -> S] : /\ g[0] = a
                               /\ \A i \in 1 .. n : g[i] = F[<<g[i - 1], i>>]
  <2> HIDE DEF F
  <2>1. \E g : Solution(g, n, S, a, F)
    BY <1>2, <1>3, <1>5, RecursionExists
  <2> QED BY <2>1 DEF Solution
<1>7. g = Body(g)
  <2>1. ASSUME NEW i \in 1 .. n
        PROVE  g[i] = IF g[i - 1].open
                        THEN VideoUnit(g[i - 1], units[i], i # bad) ELSE g[i - 1]
    <3>1. g[i - 1] \in S
      BY <1>2
    <3>2. <<g[i - 1], i>> \in S \X (1 .. n)
      BY <3>1
    <3>3. g[i] = F[<<g[i - 1], i>>]
      BY <1>6
    <3> QED BY <3>2, <3>3
  <2> QED BY <1>2, <1>6, <2>1
<1>8. run = Body(run)
  <2> HIDE DEF Body
  <2> QED BY <1>7
<1> HIDE DEF run
<1>9. /\ run[0] = a
      /\ \A i \in 1 .. n : run[i] = IF run[i - 1].open
                                 THEN VideoUnit(run[i - 1], units[i], i # bad)
                                 ELSE run[i - 1]
  BY <1>2, <1>8
<1>10. \A i \in 1 .. n : run[i - 1] \in S => run[i] \in S
  BY <1>4, <1>9
<1>11. \A i \in 0 .. n : run[i] \in S
  BY <1>2, <1>3, <1>9, <1>10, StaysIn
<1> QED BY <1>1, <1>2, <1>11 DEF S

-----------------------------------------------------------------------------
(* An audio message *)

AudioType == [config : Values \cup {None}, heard : Values \cup {None}]

AudioRuns ==
  {r \in [a : AudioType, open : BOOLEAN, err : BOOLEAN] : r.a.heard \in {None, r.a.config}}

LEMMA AudioUnitKeeps ==
  ASSUME NEW r \in AudioRuns, NEW u \in Unit,
         NEW headerOk \in BOOLEAN, NEW frameOk \in BOOLEAN
  PROVE  AudioUnit(r, u, headerOk, frameOk) \in AudioRuns
<1>1. /\ r \in [a : AudioType, open : BOOLEAN, err : BOOLEAN]
      /\ r.a.heard \in {None, r.a.config}
  BY DEF AudioRuns
<1>2. /\ Failed(r) \in [a : AudioType, open : BOOLEAN, err : BOOLEAN]
      /\ Failed(r).a = r.a
  BY <1>1 DEF Failed
<1>3. Failed(r) \in AudioRuns
  BY <1>1, <1>2 DEF AudioRuns
<1>4. u.value \in Values \cup {None}
  BY DEF Unit
<1>5. CASE r.a.config = None
  <2>0. PICK d : d = [r EXCEPT !.a = [config |-> u.value, heard |-> u.value]]
    OBVIOUS
  <2>1. d \in AudioRuns
    BY <1>1, <1>4, <2>0 DEF AudioRuns, AudioType
  <2>6. WriteAudioRawFrame(d, frameOk) \in AudioRuns
    <3>1. /\ Failed(d) \in [a : AudioType, open : BOOLEAN, err : BOOLEAN]
          /\ Failed(d).a = d.a
      BY <2>1 DEF Failed, AudioRuns
    <3>2. Failed(d) \in AudioRuns
      BY <2>1, <3>1 DEF AudioRuns
    <3> QED BY <2>1, <3>2 DEF WriteAudioRawFrame
  <2>2. PICK c : c = [r EXCEPT !.a.config = u.value]
    OBVIOUS
  <2>3. /\ c \in [a : AudioType, open : BOOLEAN, err : BOOLEAN]
        /\ c.a.heard = r.a.heard /\ r.a.heard = None
    BY <1>1, <1>4, <1>5, <2>2 DEF AudioType
  <2>4. /\ Failed(c) \in [a : AudioType, open : BOOLEAN, err : BOOLEAN]
        /\ Failed(c).a = c.a
    BY <2>3 DEF Failed
  <2>5. Failed(c) \in AudioRuns
    BY <2>3, <2>4 DEF AudioRuns
  <2> QED BY <1>3, <1>5, <2>0, <2>2, <2>5, <2>6 DEF AudioUnit
<1>6. CASE r.a.config # None
  BY <1>3, <1>6 DEF AudioUnit, WriteAudioRawFrame
<1> QED BY <1>5, <1>6

LEMMA OnAudioKeeps ==
  ASSUME NEW v \in AudioType, v.heard \in {None, v.config},
         NEW units \in Seq(Unit), NEW bad \in Nat
  PROVE  /\ OnAudio(v, units, bad) \in AudioType
         /\ OnAudio(v, units, bad).heard \in {None, OnAudio(v, units, bad).config}
<1> DEFINE n == Len(units)
           S == AudioRuns
           a == [a |-> v, open |-> TRUE, err |-> FALSE]
           Body(g) == [i \in 0 .. n |->
                         IF i = 0 THEN a
                         ELSE IF g[i - 1].open
                                THEN AudioUnit(g[i - 1], units[i], bad # 2 * i - 1, bad # 2 * i)
                                ELSE g[i - 1]]
           run == CHOOSE g : g = Body(g)
           F == [p \in S \X (1 .. n) |->
                   IF p[1].open
                     THEN AudioUnit(p[1], units[p[2]], bad # 2 * p[2] - 1, bad # 2 * p[2])
                     ELSE p[1]]
<1>1. OnAudio(v, units, bad) = run[n].a
  BY DEF OnAudio
<1>2. n \in Nat
  OBVIOUS
<1>3. a \in S
  BY DEF AudioRuns
<1>4. ASSUME NEW r \in S, NEW i \in 1 .. n
      PROVE  (IF r.open THEN AudioUnit(r, units[i], bad # 2 * i - 1, bad # 2 * i)
                         ELSE r) \in S
  <2>1. units[i] \in Unit /\ (bad # 2 * i - 1) \in BOOLEAN /\ (bad # 2 * i) \in BOOLEAN
    OBVIOUS
  <2>2. AudioUnit(r, units[i], bad # 2 * i - 1, bad # 2 * i) \in S
    BY <2>1, AudioUnitKeeps
  <2> QED BY <2>2
<1> HIDE DEF n, S, a
<1>5. \A s \in S : \A i \in 1 .. n : F[<<s, i>>] \in S
  BY <1>4
<1>6. PICK g \in [0 .. n -> S] : /\ g[0] = a
                               /\ \A i \in 1 .. n : g[i] = F[<<g[i - 1], i>>]
  <2> HIDE DEF F
  <2>1. \E g : Solution(g, n, S, a, F)
    BY <1>2, <1>3, <1>5, RecursionExists
  <2> QED BY <2>1 DEF Solution
<1>7. g = Body(g)
  <2>1. ASSUME NEW i \in 1 .. n
        PROVE  g[i] = IF g[i - 1].open
                        THEN AudioUnit(g[i - 1], units[i], bad # 2 * i - 1, bad # 2 * i)
                        ELSE g[i - 1]
    <3>1. g[i - 1] \in S
      BY <1>2
    <3>2. <<g[i - 1], i>> \in S \X (1 .. n)
      BY <3>1
    <3>3. g[i] = F[<<g[i - 1], i>>]
      BY <1>6
    <3> QED BY <3>2, <3>3
  <2> QED BY <1>2, <1>6, <2>1
<1>8. run = Body(run)
  <2> HIDE DEF Body
  <2> QED BY <1>7
<1> HIDE DEF run
<1>9. /\ run[0] = a
      /\ \A i \in 1 .. n : run[i] = IF run[i - 1].open
                                 THEN AudioUnit(run[i - 1], units[i], bad # 2 * i - 1,
                                                bad # 2 * i)
                                 ELSE run[i - 1]
  BY <1>2, <1>8
<1>10. \A i \in 1 .. n : run[i - 1] \in S => run[i] \in S
  BY <1>4, <1>9
<1>11. \A i \in 0 .. n : run[i] \in S
  BY <1>2, <1>3, <1>9, <1>10, StaysIn
<1>12. run[n] \in AudioRuns
  BY <1>2, <1>11 DEF S
<1> QED BY <1>1, <1>12 DEF AudioRuns

-----------------------------------------------------------------------------
(* The invariant, in two parts that no step connects: what the handler knows *)
(* of the source, and which packets the demuxer put together for it.         *)

HandlerInv ==
  /\ codec \in Codecs
  /\ video \in VideoType /\ Sound(video)
  /\ audio \in AudioType /\ audio.heard \in {None, audio.config}
  /\ alive \in BOOLEAN
  /\ faults \in Nat
  /\ codec = "hevc" /\ faults = 0 => Current(video)

Packet == [start : BOOLEAN, unit : Unit]

\* The counter of a partial message is that of a packet sent age packets ago.
Aligned ==
  msg # << >> /\ age < Oldest =>
    cc \in {counter - age, counter - age + Counters, counter - age + 2 * Counters}

PacketInv ==
  /\ rest \in Seq(Unit) /\ sent \in Seq(Packet) /\ Len(sent) <= Lateness + 1
  /\ counter \in 0 .. (Counters - 1) /\ cc \in 0 .. (Counters - 1)
  /\ age \in 0 .. Oldest
  /\ msg \in Seq(Unit) /\ missing \in {0, Counters}
  /\ taken \in Nat /\ handed \in Nat /\ last \in Nat /\ cuts \in Nat
  /\ Aligned /\ GapsNoticed /\ HandedOnce /\ CutsBounded

IInv == HandlerInv /\ PacketInv

LEMMA NewVideoSound ==
  /\ NewVideo \in VideoType /\ Sound(NewVideo) /\ Current(NewVideo)
  /\ [config |-> None, heard |-> None] \in AudioType
<1>1. NewVideo \in VideoType
  BY DEF NewVideo, NoHeader, VideoType
<1>2. Sound(NewVideo) /\ Current(NewVideo)
  BY SpsInKinds DEF NewVideo, NoHeader, Sound, Current
<1> QED BY <1>1, <1>2 DEF AudioType

LEMMA InitInv == Init => IInv
<1> SUFFICES ASSUME Init PROVE IInv
  OBVIOUS
<1>1. HandlerInv
  BY NewVideoSound DEF Init, HandlerInv
<1>2. rest \in Seq(Unit) /\ msg \in Seq(Unit) /\ sent \in Seq(Packet)
  BY DEF Init
<1>3. Len(sent) = 0 /\ Len(msg) = 0 /\ msg = << >>
  BY DEF Init
<1>4. /\ cc = 0 /\ age = 0 /\ missing = 0 /\ taken = 0 /\ given = 0 /\ handed = 0
      /\ last = 0 /\ cuts = 0 /\ counter \in 0 .. (Counters - 1)
  BY DEF Init
<1>5. PacketInv
  BY <1>2, <1>3, <1>4, TsAssumption
     DEF PacketInv, Aligned, GapsNoticed, HandedOnce, CutsBounded, Oldest
<1> QED BY <1>1, <1>5 DEF IInv

\* A step that handles a video message.
LEMMA VideoStep ==
  ASSUME HandlerInv, NEW units \in Seq(Unit), NEW bad \in Nat, Outcome(bad),
         video' = OnVideo(video, units, bad).v, alive' = OnVideo(video, units, bad).alive,
         UNCHANGED <<codec, audio>>
  PROVE  HandlerInv'
<1>1. PICK cur \in BOOLEAN : cur <=> codec = "hevc" /\ faults = 0 /\ bad = 0
  OBVIOUS
<1>2. /\ video \in VideoType /\ Sound(video) /\ (cur => Current(video))
      /\ (cur => bad = 0 /\ codec # "h264")
  BY <1>1 DEF HandlerInv
<1>3. OnVideo(video, units, bad) \in VideoRuns(cur)
  BY <1>2, OnVideoKeeps
<1>4. /\ video' \in VideoType /\ Sound(video') /\ alive' \in BOOLEAN
      /\ (cur => Current(video'))
  BY <1>3 DEF VideoRuns
<1>5. codec' = codec /\ audio' = audio /\ Kinds' = Kinds
  BY DEF Kinds
<1>6. VideoType' = VideoType /\ Sound(video)' = Sound(video') /\ Current(video)' = Current(video')
  BY <1>5 DEF VideoType, Sound, Current
<1>7. faults' \in Nat /\ (faults' = 0 => faults = 0 /\ bad = 0)
  BY DEF HandlerInv, Outcome
<1>8. codec' = "hevc" /\ faults' = 0 => Current(video')
  BY <1>1, <1>4, <1>5, <1>7
<1> QED BY <1>4, <1>5, <1>6, <1>7, <1>8 DEF HandlerInv, AudioType

\* A step the handler has no part in.
LEMMA HandlerRests ==
  ASSUME HandlerInv, UNCHANGED <<codec, video, audio, alive, faults>>
  PROVE  HandlerInv'
BY DEF HandlerInv, VideoType, AudioType, Sound, Current, Kinds

\* One cut more needs one step more.
LEMMA OneMore ==
  ASSUME NEW c \in Int, NEW d \in Int
  PROVE  ((c + 1) - 1) * d = (c - 1) * d + d
OBVIOUS

\* One packet more: the counter and the age go on together.
LEMMA AlignedOn ==
  ASSUME NEW C \in Nat, NEW L \in Nat, L + 1 < C, NEW n \in 0 .. (C - 1),
         NEW c \in 0 .. (C - 1), NEW g \in 0 .. (C + L),
         c \in {n - g, n - g + C, n - g + 2 * C},
         NEW m, m = IF n = C - 1 THEN 0 ELSE n + 1
  PROVE  c \in {m - (g + 1), m - (g + 1) + C, m - (g + 1) + 2 * C}
OBVIOUS

LEMMA SendStep ==
  ASSUME IInv, NEW start \in BOOLEAN, NEW units \in Seq(Unit), units # << >>,
         Send(start, units)
  PROVE  IInv'
<1>1. HandlerInv'
  BY HandlerRests DEF IInv, Send
<1>2. PacketInv
  BY DEF IInv
<1>3. PICK all : all = Append(sent, [start |-> start, unit |-> units[1]])
  OBVIOUS
<1>4. all \in Seq(Packet) /\ Len(all) = Len(sent) + 1
  <2>1. units[1] \in Unit
    OBVIOUS
  <2>2. [start |-> start, unit |-> units[1]] \in Packet
    BY <2>1 DEF Packet
  <2> QED BY <1>2, <1>3, <2>2 DEF PacketInv
<1>5. sent' \in Seq(Packet) /\ Len(sent') <= Lateness + 1
  <2>1. sent' = IF Len(all) > Lateness + 1 THEN Tail(all) ELSE all
    BY <1>3 DEF Send
  <2>2. Len(sent) <= Lateness + 1 /\ Len(sent) \in Nat /\ Lateness \in Nat
    BY <1>2, TsAssumption DEF PacketInv
  <2>3. CASE Len(all) > Lateness + 1
    <3>1. all # << >>
      BY <1>4, <2>2
    <3>2. Tail(all) \in Seq(Packet) /\ Len(Tail(all)) = Len(all) - 1
      BY <1>4, <3>1
    <3> QED BY <1>4, <2>1, <2>2, <2>3, <3>2
  <2>4. CASE ~(Len(all) > Lateness + 1)
    BY <1>4, <2>1, <2>2, <2>4
  <2> QED BY <2>3, <2>4
<1>6. rest' \in Seq(Unit)
  <2>1. Tail(units) \in Seq(Unit)
    OBVIOUS
  <2> QED BY <2>1 DEF Send
<1>7. /\ msg' = msg /\ cc' = cc /\ missing' = missing /\ given' = given
      /\ taken' = taken /\ handed' = handed /\ last' = last /\ cuts' = cuts
  BY DEF Send
<1>8. /\ counter' = IF counter = Counters - 1 THEN 0 ELSE counter + 1
      /\ age' = IF msg = << >> THEN 0 ELSE IF age = Oldest THEN age ELSE age + 1
  BY DEF Send, Following
<1>9. /\ counter \in 0 .. (Counters - 1) /\ cc \in 0 .. (Counters - 1)
      /\ age \in 0 .. Oldest /\ Counters \in Nat /\ Lateness \in Nat
      /\ Lateness + 1 < Counters /\ Oldest = Counters + Lateness + 1
  BY <1>2, TsAssumption DEF PacketInv, Oldest
<1>10. counter' \in 0 .. (Counters - 1) /\ age' \in 0 .. Oldest
  BY <1>8, <1>9
<1>11. Aligned'
  <2>1. SUFFICES ASSUME msg # << >>, age' < Oldest
        PROVE  cc \in {counter' - age', counter' - age' + Counters,
                       counter' - age' + 2 * Counters}
    BY <1>7 DEF Aligned, Oldest
  <2>2. age < Oldest /\ age' = age + 1 /\ age \in 0 .. (Counters + Lateness)
    BY <1>8, <1>9, <2>1
  <2>3. cc \in {counter - age, counter - age + Counters, counter - age + 2 * Counters}
    BY <1>2, <2>1, <2>2 DEF PacketInv, Aligned
  <2>4. PICK m : m = counter'
    OBVIOUS
  <2>5. m = IF counter = Counters - 1 THEN 0 ELSE counter + 1
    BY <1>8, <2>4
  <2>6. cc \in {m - (age + 1), m - (age + 1) + Counters, m - (age + 1) + 2 * Counters}
    BY <1>9, <2>2, <2>3, <2>5, AlignedOn
  <2> QED BY <2>2, <2>4, <2>6
<1>12. PacketInv'
  BY <1>2, <1>5, <1>6, <1>7, <1>10, <1>11
     DEF PacketInv, GapsNoticed, HandedOnce, CutsBounded, Oldest, Packet
<1> QED BY <1>1, <1>12 DEF IInv

LEMMA SendMessageStep ==
  ASSUME IInv, NEW p \in Pictures[codec], SendMessage(p)
  PROVE  IInv'
<1>1. p \in Seq(Unit) /\ p # << >>
  BY TsAssumption DEF IInv, HandlerInv
<1>2. Send(TRUE, p)
  BY DEF SendMessage
<1> QED BY <1>1, <1>2, SendStep

LEMMA SendRestStep ==
  ASSUME IInv, SendRest
  PROVE  IInv'
<1>1. rest \in Seq(Unit) /\ rest # << >> /\ Send(FALSE, rest)
  BY DEF SendRest, IInv, PacketInv
<1> QED BY <1>1, SendStep

\* A packet that may arrive, its age and its counter.
Arriving(k) ==
  /\ sent[k].unit \in Unit /\ sent[k].start \in BOOLEAN
  /\ AgeOf(k) \in 0 .. Lateness
  /\ CounterOf(k) \in 0 .. (Counters - 1)
  /\ CounterOf(k) \in {counter - AgeOf(k), counter - AgeOf(k) + Counters}

LEMMA Arrives ==
  ASSUME PacketInv, NEW k \in DOMAIN sent
  PROVE  Arriving(k)
<1>1. /\ sent \in Seq(Packet) /\ Len(sent) <= Lateness + 1 /\ counter \in 0 .. (Counters - 1)
      /\ Counters \in Nat /\ Lateness \in Nat /\ Lateness + 1 < Counters
  BY TsAssumption DEF PacketInv
<1>2. k \in 1 .. Len(sent) /\ sent[k] \in Packet /\ Len(sent) \in Nat
  BY <1>1
<1>3. AgeOf(k) \in 0 .. Lateness
  BY <1>1, <1>2 DEF AgeOf
<1>4. /\ CounterOf(k) \in 0 .. (Counters - 1)
      /\ CounterOf(k) \in {counter - AgeOf(k), counter - AgeOf(k) + Counters}
  BY <1>1, <1>3 DEF CounterOf
<1> QED BY <1>2, <1>3, <1>4 DEF Arriving, Packet

\* The arithmetic behind GapsNoticed: n is the counter of the last packet sent, c
\* that of the partial message, g packets ago, d that of a packet sent a packets
\* ago, and the one follows the other.
LEMMA WholeRounds ==
  ASSUME NEW C \in Nat, NEW L \in Nat, L + 1 < C, NEW n \in 0 .. (C - 1),
         NEW c \in 0 .. (C - 1), NEW g \in 0 .. (C + L),
         c \in {n - g, n - g + C, n - g + 2 * C},
         NEW a \in 0 .. L, NEW d \in {n - a, n - a + C},
         d = IF c = C - 1 THEN 0 ELSE c + 1
  PROVE  g - a - 1 \in {0, C}
<1>1. \/ c = n - g \/ c = n - g + C \/ c = n - g + 2 * C
  OBVIOUS
<1>2. d = n - a \/ d = n - a + C
  OBVIOUS
<1>3. d = c + 1 \/ d = c + 1 - C
  OBVIOUS
<1>4. g - a - 1 > 0 - C /\ g - a - 1 < 2 * C
  OBVIOUS
<1>5. \/ g - a - 1 = 0 - C \/ g - a - 1 = 0 \/ g - a - 1 = C \/ g - a - 1 = 2 * C
      \/ g - a - 1 = 3 * C \/ g - a - 1 = 0 - 2 * C
  BY <1>1, <1>2, <1>3
<1> QED BY <1>4, <1>5

\* A packet that continues the message leaves a gap of whole rounds behind it.
LEMMA ContinuesWhole ==
  ASSUME PacketInv, NEW k \in DOMAIN sent, msg # << >>, Continues(CounterOf(k))
  PROVE  MissingUpTo(k) \in {0, Counters}
<1>1. Arriving(k)
  BY Arrives
<1>2. PICK a, d : a = AgeOf(k) /\ d = CounterOf(k)
  OBVIOUS
<1>3. /\ a \in 0 .. Lateness /\ d \in 0 .. (Counters - 1)
      /\ d \in {counter - a, counter - a + Counters}
  BY <1>1, <1>2 DEF Arriving
<1>4. d = IF cc = Counters - 1 THEN 0 ELSE cc + 1
  BY <1>2 DEF Continues, Gap, Following
<1>5. /\ counter \in 0 .. (Counters - 1) /\ cc \in 0 .. (Counters - 1)
      /\ age \in 0 .. Oldest /\ Counters \in Nat /\ Lateness \in Nat
      /\ Lateness + 1 < Counters /\ Oldest = Counters + Lateness + 1
      /\ missing \in {0, Counters}
  BY TsAssumption DEF PacketInv, Oldest
<1>6. age - a - 1 \in {0, Counters} \/ age - a - 1 >= Counters
  <2>1. CASE age = Oldest
    BY <1>3, <1>5, <2>1
  <2>2. CASE age # Oldest
    <3>1. age \in 0 .. (Counters + Lateness)
      BY <1>5, <2>2
    <3>2. cc \in {counter - age, counter - age + Counters, counter - age + 2 * Counters}
      BY <1>5, <2>2 DEF PacketInv, Aligned
    <3> QED BY <1>3, <1>4, <1>5, <3>1, <3>2, WholeRounds
  <2> QED BY <2>1, <2>2
<1>7. MissingUpTo(k) = IF missing + (age - a - 1) > Counters THEN Counters
                       ELSE missing + (age - a - 1)
  BY <1>2 DEF MissingUpTo
<1> QED BY <1>3, <1>5, <1>6, <1>7

\* The channel after a packet began a message, and with none.
LEMMA Begun ==
  ASSUME PacketInv, NEW k \in DOMAIN sent, Begin(k), UNCHANGED <<clientVars, last, cuts>>,
         given' \in {0, Counters}
  PROVE  PacketInv'
<1>1. Arriving(k)
  BY Arrives
<1>2. PICK u \in Unit : u = sent[k].unit
  BY <1>1 DEF Arriving
<1>3. msg' = <<u>>
  BY <1>2 DEF Begin
<1>4. msg' \in Seq(Unit) /\ Len(msg') = 1
  BY <1>3
<1>5. /\ cc' = CounterOf(k) /\ age' = AgeOf(k) /\ missing' = 0 /\ taken' = 1 /\ handed' = 0
      /\ rest' = rest /\ sent' = sent /\ counter' = counter /\ last' = last /\ cuts' = cuts
  BY DEF Begin, clientVars
<1>6. Lateness \in Nat /\ Counters \in Nat /\ Oldest = Counters + Lateness + 1
  BY TsAssumption DEF Oldest
<1>7. cc' \in 0 .. (Counters - 1) /\ age' \in 0 .. Oldest
  BY <1>1, <1>5, <1>6 DEF Arriving
<1>8. Aligned'
  BY <1>1, <1>5 DEF Arriving, Aligned
<1>9. HandedOnce'
  <2>1. PICK n, h, t : n = Len(msg') /\ h = handed' /\ t = taken'
    OBVIOUS
  <2>2. h + n <= t
    BY <1>4, <1>5, <2>1
  <2> QED BY <2>1, <2>2 DEF HandedOnce
<1>10. CutsBounded' /\ GapsNoticed'
  BY <1>5 DEF PacketInv, CutsBounded, GapsNoticed
<1> QED BY <1>4, <1>5, <1>7, <1>8, <1>9, <1>10 DEF PacketInv, Packet, Oldest

LEMMA Emptied ==
  ASSUME PacketInv, NoMessage, UNCHANGED <<clientVars, last, cuts>>, given' \in {0, Counters}
  PROVE  PacketInv'
<1>1. msg' \in Seq(Unit) /\ Len(msg') = 0 /\ msg' = << >>
  BY DEF NoMessage
<1>2. /\ cc' = 0 /\ age' = 0 /\ missing' = 0 /\ taken' = 0 /\ handed' = 0
      /\ rest' = rest /\ sent' = sent /\ counter' = counter /\ last' = last /\ cuts' = cuts
  BY DEF NoMessage, clientVars
<1>3. cc' \in 0 .. (Counters - 1) /\ age' \in 0 .. Oldest
  BY <1>2, TsAssumption DEF Oldest
<1>4. Aligned' /\ HandedOnce' /\ CutsBounded' /\ GapsNoticed'
  BY <1>1, <1>2 DEF PacketInv, Aligned, HandedOnce, CutsBounded, GapsNoticed
<1> QED BY <1>1, <1>2, <1>3, <1>4 DEF PacketInv, Packet, Oldest

LEMMA DropPacketStep ==
  ASSUME IInv, NEW k \in DOMAIN sent, DropPacket(k)
  PROVE  IInv'
<1>1. HandlerInv'
  BY HandlerRests DEF IInv, DropPacket
<1>2. given' \in {0, Counters}
  BY DEF IInv, PacketInv, GapsNoticed, DropPacket
<1>3. PacketInv'
  BY <1>2, Emptied DEF IInv, DropPacket
<1> QED BY <1>1, <1>3 DEF IInv

LEMMA FirstPacketStep ==
  ASSUME IInv, NEW k \in DOMAIN sent, FirstPacket(k)
  PROVE  IInv'
<1>1. HandlerInv'
  BY HandlerRests DEF IInv, FirstPacket
<1>2. given' \in {0, Counters}
  BY DEF IInv, PacketInv, GapsNoticed, FirstPacket
<1>3. PacketInv'
  BY <1>2, Begun DEF IInv, FirstPacket
<1> QED BY <1>1, <1>3 DEF IInv

LEMMA ReapPacketStep ==
  ASSUME IInv, NEW k \in DOMAIN sent, NEW bad \in 0 .. Len(msg), ReapPacket(k, bad)
  PROVE  IInv'
<1>1. msg \in Seq(Unit) /\ bad \in Nat
  BY DEF IInv, PacketInv
<1>2. HandlerInv'
  BY <1>1, VideoStep DEF IInv, ReapPacket
<1>3. given' \in {0, Counters}
  BY ContinuesWhole DEF IInv, ReapPacket
<1>4. NoMessage \/ Begin(k)
  BY DEF ReapPacket
<1>5. UNCHANGED <<clientVars, last, cuts>>
  BY DEF ReapPacket
<1>6. PacketInv'
  BY <1>3, <1>4, <1>5, Begun, Emptied DEF IInv
<1> QED BY <1>2, <1>6 DEF IInv

\* The message with the next packet of it.
LEMMA NextPacket ==
  ASSUME PacketInv, NEW k \in DOMAIN sent, NEW m, m = Append(msg, sent[k].unit)
  PROVE  m \in Seq(Unit) /\ Len(m) = Len(msg) + 1 /\ Len(m) \in Nat
<1>1. sent[k].unit \in Unit
  BY Arrives DEF Arriving
<1> QED BY <1>1 DEF PacketInv

LEMMA GatherPacketStep ==
  ASSUME IInv, NEW k \in DOMAIN sent, GatherPacket(k)
  PROVE  IInv'
<1>1. HandlerInv'
  BY HandlerRests DEF IInv, GatherPacket
<1>2. PacketInv /\ msg # << >> /\ Continues(CounterOf(k))
  BY DEF IInv, GatherPacket, Gathers
<1>3. PICK m : m = Append(msg, sent[k].unit)
  OBVIOUS
<1>4. m \in Seq(Unit) /\ Len(m) = Len(msg) + 1 /\ Len(m) \in Nat /\ Len(msg) \in Nat
  BY <1>2, <1>3, NextPacket DEF PacketInv
<1>5. Arriving(k) /\ MissingUpTo(k) \in {0, Counters}
  BY <1>2, Arrives, ContinuesWhole
<1>6. /\ msg' = m /\ cc' = CounterOf(k) /\ age' = AgeOf(k) /\ missing' = MissingUpTo(k)
      /\ taken' = taken + 1 /\ handed' = handed /\ given' = given
      /\ rest' = rest /\ sent' = sent /\ counter' = counter /\ last' = last /\ cuts' = cuts
  BY <1>3 DEF GatherPacket, clientVars
<1>7. cc' \in 0 .. (Counters - 1) /\ age' \in 0 .. Oldest
  BY <1>5, <1>6, TsAssumption DEF Arriving, Oldest
<1>8. Aligned'
  BY <1>5, <1>6 DEF Arriving, Aligned
<1>9. HandedOnce' /\ CutsBounded' /\ GapsNoticed'
  BY <1>2, <1>4, <1>6 DEF PacketInv, HandedOnce, CutsBounded, GapsNoticed
<1>10. PacketInv'
  BY <1>2, <1>4, <1>5, <1>6, <1>7, <1>8, <1>9 DEF PacketInv, Packet, Oldest
<1> QED BY <1>1, <1>10 DEF IInv

LEMMA CutPacketStep ==
  ASSUME IInv, NEW k \in DOMAIN sent, NEW bad \in 0 .. (Len(msg) + 1), CutPacket(k, bad)
  PROVE  IInv'
<1>1. PICK m : m = Append(msg, sent[k].unit)
  OBVIOUS
<1>2. PacketInv /\ HandlerInv /\ msg # << >> /\ Continues(CounterOf(k))
  BY DEF CutPacket, Gathers, IInv
<1>3. m \in Seq(Unit) /\ Len(m) = Len(msg) + 1 /\ Len(m) \in Nat
  BY <1>1, <1>2, NextPacket
<1>4. bad \in Nat
  BY <1>2 DEF PacketInv
<1>5. HandlerInv'
  BY <1>1, <1>2, <1>3, <1>4, VideoStep DEF CutPacket
<1>6. /\ msg' = << >> /\ cc' = 0 /\ age' = 0 /\ missing' = 0 /\ taken' = taken + 1
      /\ handed' = handed + Len(m) /\ last' = Len(m) /\ cuts' = cuts + 1
      /\ given' = MissingUpTo(k) /\ rest' = rest /\ sent' = sent /\ counter' = counter
      /\ Len(m) >= MinSize /\ Len(m) > last + Step
  BY <1>1 DEF CutPacket, Remaining, Forced, clientVars
<1>7. MinSize \in Nat /\ Step \in Nat /\ last \in Nat /\ cuts \in Nat
  BY <1>2, TsAssumption DEF PacketInv
<1>8. CutsBounded'
  <2>1. CASE cuts = 0
    <3>1. (cuts' - 1) * (Step + 1) = 0
      BY <1>6, <1>7, <2>1
    <3> QED BY <1>3, <1>6, <1>7, <3>1 DEF CutsBounded
  <2>2. CASE cuts > 0
    <3>1. PICK y \in Nat : y = (cuts - 1) * (Step + 1)
      <4>1. cuts - 1 \in Nat /\ Step + 1 \in Nat
        BY <1>7, <2>2
      <4> QED BY <4>1
    <3>2. (cuts' - 1) * (Step + 1) = y + (Step + 1)
      <4>1. ((cuts + 1) - 1) * (Step + 1) = y + (Step + 1)
        BY <1>7, <3>1, OneMore
      <4> QED BY <1>6, <4>1
    <3>3. last >= MinSize + y
      BY <1>2, <2>2, <3>1 DEF PacketInv, CutsBounded
    <3>4. PICK z : z = (cuts' - 1) * (Step + 1)
      OBVIOUS
    <3>5. Len(m) >= MinSize + z
      BY <1>3, <1>6, <1>7, <3>1, <3>2, <3>3, <3>4
    <3> QED BY <1>6, <3>4, <3>5 DEF CutsBounded
  <2> QED BY <1>7, <2>1, <2>2
<1>9. MissingUpTo(k) \in {0, Counters}
  BY <1>2, ContinuesWhole
<1>10. PacketInv'
  <2>1. << >> \in Seq(Unit) /\ Len(<< >>) = 0
    OBVIOUS
  <2>2. HandedOnce' /\ GapsNoticed' /\ Aligned'
    BY <1>2, <1>3, <1>6, <1>7, <1>9, <2>1
       DEF PacketInv, HandedOnce, GapsNoticed, Aligned
  <2>3. cc' \in 0 .. (Counters - 1) /\ age' \in 0 .. Oldest
    BY <1>6, TsAssumption DEF Oldest
  <2> QED BY <1>2, <1>3, <1>6, <1>7, <1>8, <2>1, <2>2, <2>3 DEF PacketInv, Packet, Oldest
<1> QED BY <1>5, <1>10 DEF IInv

LEMMA AudioPacketStep ==
  ASSUME IInv, NEW s \in Sounds, NEW bad \in 0 .. (2 * Len(s)), AudioPacket(s, bad)
  PROVE  IInv'
<1>1. s \in Seq(Unit) /\ bad \in Nat
  BY TsAssumption
<1>2. audio \in AudioType /\ audio.heard \in {None, audio.config}
  BY DEF IInv, HandlerInv
<1>3. audio' \in AudioType /\ audio'.heard \in {None, audio'.config}
  BY <1>1, <1>2, OnAudioKeeps DEF AudioPacket
<1>4. faults' \in Nat /\ (faults' = 0 => faults = 0)
  BY DEF IInv, HandlerInv, AudioPacket, Outcome
<1>5. HandlerInv'
  BY <1>3, <1>4
     DEF IInv, HandlerInv, AudioPacket, VideoType, AudioType, Sound, Current, Kinds
<1>6. PacketInv'
  BY DEF IInv, PacketInv, AudioPacket, packetVars, clientVars, channelVars,
         Aligned, GapsNoticed, HandedOnce, CutsBounded, Packet, Oldest
<1> QED BY <1>5, <1>6 DEF IInv

LEMMA ElsewhereStep ==
  ASSUME IInv, NEW n \in MinSize .. Longest, Elsewhere(n)
  PROVE  IInv'
<1>1. HandlerInv'
  BY HandlerRests DEF IInv, Elsewhere
<1>2. n \in Nat /\ last \in Nat /\ n > last
  BY TsAssumption DEF IInv, PacketInv, Elsewhere, Longest
<1>3. CutsBounded'
  <2>1. PICK y : y = MinSize + (cuts - 1) * (Step + 1)
    OBVIOUS
  <2>2. y \in Int
    BY <2>1, TsAssumption DEF IInv, PacketInv
  <2>3. cuts > 0 => last >= y
    BY <2>1 DEF IInv, PacketInv, CutsBounded
  <2>4. cuts > 0 => n >= y
    BY <1>2, <2>2, <2>3
  <2> QED BY <2>1, <2>4 DEF Elsewhere, CutsBounded
<1>4. PacketInv'
  BY <1>2, <1>3
     DEF IInv, PacketInv, Elsewhere, clientVars, channelVars, Aligned, GapsNoticed,
         HandedOnce, Packet, Oldest
<1> QED BY <1>1, <1>4 DEF IInv

LEMMA RestartStep ==
  ASSUME IInv, Restart
  PROVE  IInv'
<1>1. HandlerInv'
  BY NewVideoSound
     DEF IInv, HandlerInv, Restart, VideoType, AudioType, Sound, Current, Kinds
<1>2. rest' \in Seq(Unit) /\ sent' \in Seq(Packet) /\ Len(sent') = 0
  BY DEF Restart
<1>3. /\ msg' \in Seq(Unit) /\ Len(msg') = 0 /\ msg' = << >> /\ cc' = 0 /\ age' = 0
      /\ missing' = 0 /\ taken' = 0 /\ handed' = 0
  BY DEF Restart, NoMessage
<1>4. given' = 0 /\ last' = 0 /\ cuts' = 0 /\ counter' = counter
  BY DEF Restart
<1>5. PacketInv'
  BY <1>2, <1>3, <1>4, TsAssumption
     DEF IInv, PacketInv, Packet, Aligned, GapsNoticed, HandedOnce, CutsBounded, Oldest
<1> QED BY <1>1, <1>5 DEF IInv

LEMMA NextInv == IInv /\ [Next]_vars => IInv'
<1> SUFFICES ASSUME IInv, [Next]_vars PROVE IInv'
  OBVIOUS
<1>1. CASE UNCHANGED vars
  <2>1. HandlerInv'
    BY <1>1, HandlerRests DEF IInv, vars
  <2>2. PacketInv'
    BY <1>1
       DEF IInv, PacketInv, vars, packetVars, clientVars, channelVars, Aligned, GapsNoticed,
           HandedOnce, CutsBounded, Packet, Oldest
  <2> QED BY <2>1, <2>2 DEF IInv
<1>2. ASSUME NEW k \in DOMAIN sent, LatePacket(k) PROVE UNCHANGED vars
  BY <1>2 DEF LatePacket
<1> QED BY <1>1, <1>2, SendMessageStep, SendRestStep, DropPacketStep, FirstPacketStep,
           ReapPacketStep, GatherPacketStep, CutPacketStep, AudioPacketStep,
           ElsewhereStep, RestartStep DEF Next

LEMMA SpecInv == Spec => []IInv
BY InitInv, NextInv, PTL DEF Spec

\* TsInv: the handler's members have their types, no unit taken into a message
\* is handed to on_ts_message twice, and while no push fails the source has the current
\* HEVC parameter sets (write_h265_vps_sps_pps).
THEOREM TsCorrect == Spec => []TsInv
<1>1. IInv => TypeOK
  BY TsAssumption
     DEF IInv, HandlerInv, PacketInv, GapsNoticed, Packet, TypeOK, VideoType, AudioType
<1>2. IInv => HandedOnce /\ HevcHeaderCurrent
  BY DEF IInv, HandlerInv, PacketInv, HevcHeaderCurrent, Current
<1>3. IInv => TsInv
  BY <1>1, <1>2 DEF TsInv
<1> QED BY <1>3, SpecInv, PTL

\* HeaderTracked: whatever push fails, the flags of the handler know every
\* parameter set in which the source's header is out of date.
THEOREM HeadersTracked == Spec => []HeaderTracked
<1>1. IInv => HeaderTracked
  BY DEF IInv, HandlerInv, HeaderTracked, Sound
<1> QED BY <1>1, SpecInv, PTL

\* NoOrphanFrame: no frame reaches the source before a sequence header.
THEOREM FramesFollowHeader == Spec => []NoOrphanFrame
<1>1. IInv => NoOrphanFrame
  BY DEF IInv, HandlerInv, NoOrphanFrame, Sound
<1> QED BY <1>1, SpecInv, PTL

\* GapsNoticed: however packets are lost, repeated and overtaken, no message with a
\* gap is handled unless the gap is as long as a round of the continuity counter.
THEOREM GapsAreNoticed == Spec => []GapsNoticed
<1>1. IInv => GapsNoticed
  BY DEF IInv, PacketInv
<1> QED BY <1>1, SpecInv, PTL

\* CutsBounded: last_processed_size bounds how often messages are cut off.
THEOREM CutsAreBounded == Spec => []CutsBounded
<1>1. IInv => CutsBounded
  BY DEF IInv, PacketInv
<1> QED BY <1>1, SpecInv, PTL
=============================================================================
