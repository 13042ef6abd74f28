------------------------- MODULE LiveDeliveryProofs -------------------------
(***************************************************************************)
(* Proofs about LiveDelivery for any number of players, any configurations *)
(* and any limits of the queues and caches.                                *)
(*                                                                         *)
(* The invariant IInv speaks of one decoder, that of the published stream, *)
(* and compares everything with it.  The meta cache has its headers        *)
(* (MetaTracks).  The GOP cache, if it holds a keyframe, takes a decoder   *)
(* with its video header to the frame it is at (GopTracks).  A consumer    *)
(* will have heard its headers and, unless its group was cut, will be at   *)
(* the same frame (Tracks).  Two more facts carry this along: what a       *)
(* client was sent and what is queued for it add up to the headers it will *)
(* have heard (Pending), which is what shrink must not break, and a queue  *)
(* that has been emptied starts at the last timestamp (Drained).           *)
(*                                                                         *)
(* The three sequences the operators run through (a queue that is decoded, *)
(* a dump that is enqueued, a group that is decoded) are followed message  *)
(* by message: a run that starts well and goes on well has no least bad    *)
(* position (AlongRun), and a function defined by recursion on the         *)
(* positions exists, because there is no least length for which it does    *)
(* not (RecursionExists).                                                  *)
(***************************************************************************)
EXTENDS LiveDelivery, WellFoundedInduction, TLAPS

\* Every non-empty set of numbers has a least element.
LEMMA LeastElement ==
  ASSUME NEW T \in SUBSET Nat, T # {}
  PROVE  \E x \in T : \A y \in T : x <= y
<1> DEFINE R == OpToRel(<, Nat)
<1>1. PICK x \in T : \A y \in T : ~ (<<y, x>> \in R)
  BY NatLessThanWellFounded, WFMin
<1>2. R = {ss \in Nat \X Nat : ss[1] < ss[2]}
  BY DEF OpToRel
<1> HIDE DEF R
<1>3. ASSUME NEW y \in T, y < x PROVE FALSE
  <2>1. <<y, x>> \in {ss \in Nat \X Nat : ss[1] < ss[2]}
    BY <1>3
  <2> QED BY <2>1, <1>1, <1>2
<1> QED BY <1>3

\* What the steps of a recursive function preserve, from index to index.
LEMMA AlongRun ==
  ASSUME NEW n, NEW f, NEW P, n \in Nat, f[0] \in P[0],
         \A i \in 1 .. n : f[i - 1] \in P[i - 1] => f[i] \in P[i]
  PROVE  \A i \in 0 .. n : f[i] \in P[i]
<1> DEFINE T == {i \in 0 .. n : f[i] \notin P[i]}
<1>0. ASSUME T # {} PROVE FALSE
  <2>1. PICK x \in T : \A y \in T : x <= y
    <3>1. T \in SUBSET Nat
      OBVIOUS
    <3> HIDE DEF T
    <3> QED BY <1>0, <3>1, LeastElement
  <2>2. x \in 1 .. n
    OBVIOUS
  <2>3. x - 1 \in 0 .. n /\ x - 1 \notin T
    BY <2>1, <2>2
  <2>4. f[x - 1] \in P[x - 1]
    BY <2>3
  <2> QED BY <2>2, <2>4
<1> QED BY <1>0

\* Recursion over 0 .. n from a by the steps F has a solution.
Solution(g, n, S, a, F) ==
  /\ g \in [0 .. n -> S]
  /\ g[0] = a
  /\ \A i \in 1 .. n : g[i] = F[<<g[i - 1], i>>]

LEMMA RecursionExists ==
  ASSUME NEW n, NEW S, NEW a, NEW F, n \in Nat, a \in S,
         \A s \in S : \A i \in 1 .. n : F[<<s, i>>] \in S
  PROVE  \E g : Solution(g, n, S, a, F)
<1> DEFINE T == {k \in 0 .. n : \A g : ~Solution(g, k, S, a, F)}
<1> SUFFICES ASSUME T # {} PROVE FALSE
  <2>1. n \notin T
    OBVIOUS
  <2> QED BY <2>1
<1>1. PICK x \in T : \A y \in T : x <= y
  <2>1. T \in SUBSET Nat
    OBVIOUS
  <2> HIDE DEF T
  <2> QED BY <2>1, LeastElement
<1>2. x # 0
  <2>1. Solution([i \in 0 .. 0 |-> a], 0, S, a, F)
    BY DEF Solution
  <2> QED BY <2>1
<1>3. x \in 1 .. n /\ x - 1 \in 0 .. n
  BY <1>2
<1>4. PICK g : Solution(g, x - 1, S, a, F)
  <2>1. x - 1 \notin T
    <3> HIDE DEF T
    <3> QED BY <1>1, <1>3
  <2> QED BY <2>1, <1>3
<1> DEFINE h == [i \in 0 .. x |-> IF i = x THEN F[<<g[x - 1], x>>] ELSE g[i]]
<1>5. Solution(h, x, S, a, F)
  <2>0. /\ g \in [0 .. (x - 1) -> S] /\ g[0] = a
        /\ \A i \in 1 .. (x - 1) : g[i] = F[<<g[i - 1], i>>]
    BY <1>4 DEF Solution
  <2>1. g[x - 1] \in S
    BY <1>3, <2>0
  <2>3. F[<<g[x - 1], x>>] \in S
    BY <1>3, <2>1
  <2>4. h \in [0 .. x -> S]
    BY <1>3, <2>0, <2>3
  <2>5. h[0] = a
    BY <1>3, <2>0
  <2>6. ASSUME NEW i \in 1 .. x PROVE h[i] = F[<<h[i - 1], i>>]
    <3>1. h[i - 1] = g[i - 1]
      BY <1>3
    <3>2. CASE i = x
      BY <3>1, <3>2, <1>3
    <3>3. CASE i # x
      <4>1. i \in 1 .. (x - 1) /\ h[i] = g[i]
        BY <1>3, <3>3
      <4>2. g[i] = F[<<g[i - 1], i>>]
        BY <2>0, <4>1
      <4> QED BY <3>1, <4>1, <4>2
    <3> QED BY <3>2, <3>3
  <2> HIDE DEF h
  <2> QED BY <2>4, <2>5, <2>6 DEF Solution
<1> QED BY <1>5

-----------------------------------------------------------------------------
(* Messages and decoders *)

\* The contents of a message fit its kind.
Fitting(m) ==
  /\ m.kind = "vsh" => m.cfg \in VideoConfigs
  /\ m.kind = "ash" => m.cfg \in AudioConfigs
  /\ m.kind = "key" => m.cfg \in VideoConfigs
  /\ m.kind = "inter" => m.cfg \in VideoConfigs /\ m.n \in 1 .. MaxGop

QueuedMessages == {Queued(m) : m \in Messages}

LEMMA MessagesFit ==
  ASSUME NEW m \in Messages
  PROVE  Fitting(m) /\ m.kind \in {"meta", "vsh", "ash", "key", "inter", "audio"}
<1>1. CASE m = MetaData
  BY <1>1 DEF MetaData, Message, Fitting
<1>2. ASSUME NEW c \in VideoConfigs, m = VideoHeader(c) PROVE Fitting(m) /\ m.kind = "vsh"
  BY <1>2 DEF VideoHeader, Message, Fitting
<1>3. ASSUME NEW c \in AudioConfigs, m = AudioHeader(c) PROVE Fitting(m) /\ m.kind = "ash"
  BY <1>3 DEF AudioHeader, Message, Fitting
<1>4. ASSUME NEW c \in VideoConfigs, m = Key(c) PROVE Fitting(m) /\ m.kind = "key"
  BY <1>4 DEF Key, Message, Fitting
<1>5. ASSUME NEW c \in VideoConfigs, NEW n \in 1 .. MaxGop, m = Inter(c, n)
      PROVE  Fitting(m) /\ m.kind = "inter"
  BY <1>5 DEF Inter, Message, Fitting
<1>6. ASSUME NEW c \in AudioConfigs, m = Audio(c) PROVE Fitting(m) /\ m.kind = "audio"
  BY <1>6 DEF Audio, Message, Fitting
<1> QED BY <1>1, <1>2, <1>3, <1>4, <1>5, <1>6 DEF Messages, MetaData, Message

LEMMA QueuedFit ==
  ASSUME NEW m \in QueuedMessages
  PROVE  Fitting(m) /\ m.kind \in {"meta", "vsh", "ash", "frame"}
<1>1. PICK k \in Messages : m = Queued(k)
  BY DEF QueuedMessages
<1>2. Fitting(k) /\ k.kind \in {"meta", "vsh", "ash", "key", "inter", "audio"}
  BY MessagesFit
<1>3. CASE k.kind \in {"key", "inter", "audio"}
  BY <1>1, <1>3 DEF Queued, Message, Fitting
<1>4. CASE k.kind \notin {"key", "inter", "audio"}
  BY <1>1, <1>2, <1>4 DEF Queued
<1> QED BY <1>3, <1>4

LEMMA QueuedHeaders ==
  ASSUME NEW m \in Messages
  PROVE  /\ Queued(m) \in QueuedMessages
         /\ \A k \in {"vsh", "ash", "meta"} : Queued(m).kind = k <=> m.kind = k
         /\ m.kind \in {"vsh", "ash", "meta"} => Queued(m).cfg = m.cfg
<1>1. m.kind \in {"meta", "vsh", "ash", "key", "inter", "audio"}
  BY MessagesFit
<1>2. CASE m.kind \in {"key", "inter", "audio"}
  BY <1>2 DEF Queued, Message, QueuedMessages
<1>3. CASE m.kind \notin {"key", "inter", "audio"}
  BY <1>1, <1>3 DEF Queued, QueuedMessages
<1> QED BY <1>2, <1>3

\* What a message does to a decoder.
LEMMA DecodeResult ==
  ASSUME NEW d, NEW m, d \in Decoders, Fitting(m)
  PROVE  /\ Decode(d, m) \in Decoders
         /\ Decode(d, m).vcfg = IF m.kind = "vsh" THEN m.cfg ELSE d.vcfg
         /\ Decode(d, m).acfg = IF m.kind = "ash" THEN m.cfg ELSE d.acfg
         /\ Decode(d, m).next =
              CASE m.kind = "vsh" -> IF m.cfg = d.vcfg THEN d.next ELSE None
                [] m.kind = "key" -> IF m.cfg = d.vcfg THEN 1 ELSE None
                [] m.kind = "inter" -> IF m.cfg = d.vcfg /\ m.n = d.next THEN m.n + 1 ELSE None
                [] OTHER -> d.next
<1> USE DeliveryAssumption DEF Decoders
<1>0. MaxGop \in Nat
  OBVIOUS
<1>1. CASE m.kind = "vsh" /\ m.cfg # d.vcfg
  BY <1>1 DEF Decode, Fitting
<1>2. CASE m.kind = "vsh" /\ m.cfg = d.vcfg
  BY <1>2 DEF Decode
<1>3. CASE m.kind = "ash"
  BY <1>3 DEF Decode, Fitting
<1>4. CASE m.kind = "key"
  <2>1. Decode(d, m) = [d EXCEPT !.next = IF m.cfg = d.vcfg THEN 1 ELSE None]
    BY <1>4 DEF Decode
  <2>2. 1 \in 1 .. (MaxGop + 1)
    BY <1>0
  <2> QED BY <1>4, <2>1, <2>2
<1>5. CASE m.kind = "inter"
  <2>1. Decode(d, m) = [d EXCEPT !.next = IF m.cfg = d.vcfg /\ m.n = d.next THEN m.n + 1 ELSE None]
    BY <1>5 DEF Decode
  <2>2. m.n + 1 \in 1 .. (MaxGop + 1)
    BY <1>0, <1>5 DEF Fitting
  <2> QED BY <1>5, <2>1, <2>2
<1>6. CASE m.kind \notin {"vsh", "ash", "key", "inter"}
  BY <1>6 DEF Decode
<1> QED BY <1>1, <1>2, <1>3, <1>4, <1>5, <1>6

\* A decoder goes through a sequence of messages one by one.
LEMMA DecodeAllRun ==
  ASSUME NEW d, NEW ms, NEW M, d \in Decoders, ms \in Seq(M), \A m \in M : Fitting(m)
  PROVE  \E f \in [0 .. Len(ms) -> Decoders] :
           /\ f[0] = d
           /\ \A i \in 1 .. Len(ms) : f[i] = Decode(f[i - 1], ms[i])
           /\ DecodeAll(d, ms) = f[Len(ms)]
<1> DEFINE Body(f) == [i \in 0 .. Len(ms) |-> IF i = 0 THEN d ELSE Decode(f[i - 1], ms[i])]
<1>1. DecodeAll(d, ms) = (CHOOSE f : f = Body(f))[Len(ms)]
  BY DEF DecodeAll
<1>2. PICK n : n = Len(ms)
  OBVIOUS
<1>3. n \in Nat /\ \A i \in 1 .. n : Fitting(ms[i])
  BY <1>2
<1>4. PICK F : F = [x \in Decoders \X (1 .. n) |-> Decode(x[1], ms[x[2]])]
  OBVIOUS
<1>5. \A s \in Decoders : \A i \in 1 .. n : F[<<s, i>>] = Decode(s, ms[i])
  BY <1>4
<1>6. \A s \in Decoders : \A i \in 1 .. n : F[<<s, i>>] \in Decoders
  <2> SUFFICES ASSUME NEW s \in Decoders, NEW i \in 1 .. n PROVE F[<<s, i>>] \in Decoders
    OBVIOUS
  <2>1. PICK m : m = ms[i]
    OBVIOUS
  <2>2. Decode(s, m) \in Decoders
    BY <1>3, <2>1, DecodeResult
  <2> QED BY <1>5, <2>1, <2>2
<1>7. PICK g : Solution(g, n, Decoders, d, F)
  BY <1>3, <1>6, RecursionExists
<1>8. /\ g \in [0 .. n -> Decoders] /\ g[0] = d
      /\ \A i \in 1 .. n : g[i] = Decode(g[i - 1], ms[i])
  <2>1. g \in [0 .. n -> Decoders] /\ g[0] = d /\ \A i \in 1 .. n : g[i] = F[<<g[i - 1], i>>]
    BY <1>7 DEF Solution
  <2>2. \A i \in 1 .. n : g[i - 1] \in Decoders
    BY <1>3, <2>1
  <2> QED BY <1>5, <2>1, <2>2
<1>9. g = Body(g)
  BY <1>2, <1>3, <1>8
<1>10. PICK c : c = CHOOSE f : f = Body(f)
  OBVIOUS
<1>11. c = Body(c)
  BY <1>9, <1>10
<1>12. c[0] = d /\ \A i \in 1 .. n : c[i] = Decode(c[i - 1], ms[i])
  BY <1>2, <1>3, <1>11
<1>13. c \in [0 .. n -> Decoders]
  <2>1. PICK P : P = [i \in 0 .. n |-> Decoders]
    OBVIOUS
  <2>2. c[0] \in P[0]
    BY <1>3, <1>12, <2>1
  <2>3. \A i \in 1 .. n : c[i - 1] \in P[i - 1] => c[i] \in P[i]
    <3> SUFFICES ASSUME NEW i \in 1 .. n, c[i - 1] \in P[i - 1] PROVE c[i] \in P[i]
      OBVIOUS
    <3>1. PICK m, k : m = ms[i] /\ k = c[i - 1]
      OBVIOUS
    <3>2. k \in Decoders
      BY <1>3, <2>1, <3>1
    <3>3. Decode(k, m) \in Decoders
      BY <1>3, <3>1, <3>2, DecodeResult
    <3> QED BY <1>12, <2>1, <3>1, <3>3
  <2>4. \A i \in 0 .. n : c[i] \in P[i]
    BY <1>3, <2>2, <2>3, AlongRun
  <2>5. \A i \in 0 .. n : c[i] \in Decoders
    BY <2>1, <2>4
  <2>6. c = [i \in 0 .. n |-> c[i]]
    BY <1>2, <1>11
  <2> QED BY <2>5, <2>6
<1> QED BY <1>1, <1>2, <1>10, <1>12, <1>13

-----------------------------------------------------------------------------
(* The queue of a consumer *)

\* The last message of a kind is there if there is one.
LEMMA LastOfCases ==
  ASSUME NEW q, NEW kind, q \in Seq(QueuedMessages)
  PROVE  \/ /\ \A i \in 1 .. Len(q) : q[i].kind # kind
            /\ LastOf(q, kind) = <<>>
         \/ \E i \in 1 .. Len(q) :
              /\ q[i].kind = kind
              /\ \A j \in (i + 1) .. Len(q) : q[j].kind # kind
              /\ LastOf(q, kind) = <<q[i]>>
<1>1. PICK n \in Nat : n = Len(q) /\ DOMAIN q = 1 .. n
  OBVIOUS
<1>2. PICK at : at = {i \in DOMAIN q : q[i].kind = kind}
  OBVIOUS
<1>3. LastOf(q, kind) = IF at = {} THEN <<>> ELSE <<q[CHOOSE i \in at : \A j \in at : j <= i]>>
  BY <1>2 DEF LastOf
<1>4. CASE at = {}
  BY <1>1, <1>2, <1>3, <1>4
<1>5. CASE at # {}
  <2> DEFINE T == {n - i : i \in at}
  <2>1. T \in SUBSET Nat /\ T # {}
    BY <1>1, <1>2, <1>5
  <2>2. PICK x \in T : \A y \in T : x <= y
    <3> HIDE DEF T
    <3> QED BY <2>1, LeastElement
  <2>3. PICK i \in at : x = n - i
    OBVIOUS
  <2>4. \A j \in at : j <= i
    <3> SUFFICES ASSUME NEW j \in at PROVE j <= i
      OBVIOUS
    <3>1. x <= n - j
      BY <2>2
    <3> QED BY <1>1, <1>2, <2>3, <3>1
  <2>5. PICK k : k = CHOOSE a \in at : \A j \in at : j <= a
    OBVIOUS
  <2>6. k \in at /\ \A j \in at : j <= k
    BY <2>4, <2>5
  <2>7. LastOf(q, kind) = <<q[k]>>
    BY <1>3, <1>5, <2>5
  <2>8. k \in 1 .. n /\ q[k].kind = kind
    BY <1>1, <1>2, <2>6
  <2>9. \A j \in (k + 1) .. n : q[j].kind # kind
    BY <1>1, <1>2, <2>6, <2>8
  <2> QED BY <1>1, <2>7, <2>8, <2>9
<1> QED BY <1>4, <1>5

LEMMA CfgEmpty ==
  ASSUME NEW kind, NEW before
  PROVE  Cfg(<<>>, kind, before) = before
BY DEF Cfg, LastOf

\* A message more.
LEMMA CfgAppend ==
  ASSUME NEW q, NEW kind, NEW before, NEW m, q \in Seq(QueuedMessages), m \in QueuedMessages
  PROVE  Cfg(Append(q, m), kind, before) = IF m.kind = kind THEN m.cfg ELSE Cfg(q, kind, before)
<1>1. PICK r : r = Append(q, m)
  OBVIOUS
<1>2. PICK n \in Nat : n = Len(q)
  OBVIOUS
<1>3. /\ r \in Seq(QueuedMessages) /\ Len(r) = n + 1 /\ r[n + 1] = m
      /\ \A i \in 1 .. n : r[i] = q[i]
  BY <1>1, <1>2
<1>4. \/ /\ \A i \in 1 .. Len(q) : q[i].kind # kind
         /\ LastOf(q, kind) = <<>>
      \/ \E i \in 1 .. Len(q) :
           /\ q[i].kind = kind
           /\ \A j \in (i + 1) .. Len(q) : q[j].kind # kind
           /\ LastOf(q, kind) = <<q[i]>>
  BY LastOfCases
<1>5. \/ /\ \A i \in 1 .. Len(r) : r[i].kind # kind
         /\ LastOf(r, kind) = <<>>
      \/ \E i \in 1 .. Len(r) :
           /\ r[i].kind = kind
           /\ \A j \in (i + 1) .. Len(r) : r[j].kind # kind
           /\ LastOf(r, kind) = <<r[i]>>
  BY <1>3, LastOfCases
<1>6. CASE m.kind = kind
  <2>1. n + 1 \in 1 .. Len(r) /\ r[n + 1].kind = kind
    BY <1>2, <1>3, <1>6
  <2>2. PICK i \in 1 .. Len(r) :
          /\ r[i].kind = kind
          /\ \A j \in (i + 1) .. Len(r) : r[j].kind # kind
          /\ LastOf(r, kind) = <<r[i]>>
    BY <1>5, <2>1
  <2>3. i = n + 1
    BY <1>2, <1>3, <2>1, <2>2
  <2>4. LastOf(r, kind) = <<m>>
    BY <1>3, <2>2, <2>3
  <2> QED BY <1>1, <1>6, <2>4 DEF Cfg
<1>7. CASE m.kind # kind
  <2>1. LastOf(r, kind) = LastOf(q, kind)
    <3>1. CASE \A i \in 1 .. Len(q) : q[i].kind # kind
      <4>1. \A i \in 1 .. Len(r) : r[i].kind # kind
        BY <1>2, <1>3, <1>7, <3>1
      <4> QED BY <1>4, <1>5, <3>1, <4>1
    <3>2. CASE \E i \in 1 .. Len(q) : q[i].kind = kind
      <4>1. PICK i \in 1 .. Len(q) :
              /\ q[i].kind = kind
              /\ \A j \in (i + 1) .. Len(q) : q[j].kind # kind
              /\ LastOf(q, kind) = <<q[i]>>
        BY <1>4, <3>2
      <4>2. i \in 1 .. Len(r) /\ r[i].kind = kind
        BY <1>2, <1>3, <4>1
      <4>3. PICK k \in 1 .. Len(r) :
              /\ r[k].kind = kind
              /\ \A j \in (k + 1) .. Len(r) : r[j].kind # kind
              /\ LastOf(r, kind) = <<r[k]>>
        BY <1>5, <4>2
      <4>4. k \in 1 .. n
        BY <1>2, <1>3, <1>7, <4>3
      <4>5. q[k].kind = kind
        BY <1>3, <4>3, <4>4
      <4>6. k = i
        BY <1>2, <1>3, <4>1, <4>2, <4>3, <4>4, <4>5
      <4> QED BY <1>3, <4>1, <4>3, <4>4, <4>6
    <3> QED BY <3>1, <3>2
  <2> QED BY <1>1, <1>7, <2>1 DEF Cfg
<1> QED BY <1>6, <1>7

\* Sequences of one message and of two.
LEMMA One ==
  ASSUME NEW x
  PROVE  /\ Append(<<>>, x) = <<x>> /\ <<>> \o <<x>> = <<x>> /\ <<x>> \o <<>> = <<x>>
         /\ <<x>> # <<>> /\ <<x>>[1] = x
<1>1. Append(<<>>, x) = <<x>>
  OBVIOUS
<1>2. <<>> \o <<x>> = <<x>>
  OBVIOUS
<1>3. <<x>> \o <<>> = <<x>>
  OBVIOUS
<1>4. <<x>> # <<>> /\ <<x>>[1] = x
  OBVIOUS
<1> QED BY <1>1, <1>2, <1>3, <1>4

LEMMA Two ==
  ASSUME NEW x, NEW y
  PROVE  <<x>> \o <<y>> = <<x, y>> /\ Append(<<x>>, y) = <<x, y>>
<1>1. PICK a, b, S : a = <<x>> /\ b = <<y>> /\ S = {x, y}
  OBVIOUS
<1>2. a \in Seq(S) /\ b \in Seq(S)
  BY <1>1
<1>3. Len(a) = 1 /\ Len(b) = 1 /\ a[1] = x /\ b[1] = y /\ x \in S /\ y \in S
  BY <1>1
<1>4. PICK q : q = a \o b
  OBVIOUS
<1>5. /\ q \in Seq(S) /\ Len(q) = Len(a) + Len(b)
      /\ \A i \in 1 .. Len(a) + Len(b) : q[i] = IF i <= Len(a) THEN a[i] ELSE b[i - Len(a)]
  BY <1>2, <1>4
<1>6. Len(q) = 2 /\ q[1] = x /\ q[2] = y
  BY <1>3, <1>5
<1>61. q \in Seq(S)
  BY <1>5
<1>7. q = <<x, y>>
  BY <1>6, <1>61
<1>8. PICK r : r = Append(a, y)
  OBVIOUS
<1>81. a \in Seq(S) /\ Len(a) = 1 /\ a[1] = x /\ x \in S /\ y \in S
  BY <1>2, <1>3
<1>82. r \in Seq(S)
  BY <1>8, <1>81
<1>83. Len(r) = 2
  BY <1>8, <1>81
<1>84. r[1] = x
  BY <1>8, <1>81
<1>85. r[2] = y
  <2>1. a \in Seq(S) /\ y \in S
    BY <1>81
  <2>2. r[Len(a) + 1] = y
    BY <1>8, <2>1
  <2> QED BY <1>3, <2>2
<1>9. r \in Seq(S) /\ Len(r) = 2 /\ r[1] = x /\ r[2] = y
  BY <1>82, <1>83, <1>84, <1>85
<1>10. r = <<x, y>>
  BY <1>9
<1> QED BY <1>1, <1>4, <1>7, <1>8, <1>10

\* What a decoder makes of no message, one and two.
LEMMA DecodeNone ==
  ASSUME NEW d, d \in Decoders
  PROVE  DecodeAll(d, <<>>) = d
<1>1. PICK ms, M : ms = <<>> /\ M = {}
  OBVIOUS
<1>2. ms \in Seq(M) /\ \A m \in M : Fitting(m)
  BY <1>1
<1>3. PICK f \in [0 .. Len(ms) -> Decoders] :
        /\ f[0] = d
        /\ \A i \in 1 .. Len(ms) : f[i] = Decode(f[i - 1], ms[i])
        /\ DecodeAll(d, ms) = f[Len(ms)]
  BY <1>2, DecodeAllRun
<1> QED BY <1>1, <1>3

LEMMA DecodeOne ==
  ASSUME NEW d, NEW x, d \in Decoders, Fitting(x)
  PROVE  DecodeAll(d, <<x>>) = Decode(d, x)
<1>1. PICK ms, M : ms = <<x>> /\ M = {x}
  OBVIOUS
<1>2. ms \in Seq(M) /\ \A m \in M : Fitting(m)
  BY <1>1
<1>3. PICK f \in [0 .. Len(ms) -> Decoders] :
        /\ f[0] = d
        /\ \A i \in 1 .. Len(ms) : f[i] = Decode(f[i - 1], ms[i])
        /\ DecodeAll(d, ms) = f[Len(ms)]
  BY <1>2, DecodeAllRun
<1>4. Len(ms) = 1 /\ ms[1] = x
  BY <1>1
<1>5. f[1] = Decode(f[0], x)
  BY <1>3, <1>4
<1> QED BY <1>1, <1>3, <1>4, <1>5

LEMMA DecodeTwo ==
  ASSUME NEW d, NEW x, NEW y, d \in Decoders, Fitting(x), Fitting(y)
  PROVE  DecodeAll(d, <<x, y>>) = Decode(Decode(d, x), y)
<1>1. PICK ms, M : ms = <<x, y>> /\ M = {x, y}
  OBVIOUS
<1>2. ms \in Seq(M) /\ \A m \in M : Fitting(m)
  BY <1>1
<1>3. PICK f \in [0 .. Len(ms) -> Decoders] :
        /\ f[0] = d
        /\ \A i \in 1 .. Len(ms) : f[i] = Decode(f[i - 1], ms[i])
        /\ DecodeAll(d, ms) = f[Len(ms)]
  BY <1>2, DecodeAllRun
<1>4. Len(ms) = 2 /\ ms[1] = x /\ ms[2] = y
  BY <1>1
<1>5. f[1] = Decode(f[0], x)
  BY <1>3, <1>4
<1>6. f[2] = Decode(f[1], y)
  BY <1>3, <1>4
<1> QED BY <1>1, <1>3, <1>4, <1>5, <1>6

LEMMA CfgOne ==
  ASSUME NEW x, NEW kind, NEW before, x \in QueuedMessages
  PROVE  Cfg(<<x>>, kind, before) = IF x.kind = kind THEN x.cfg ELSE before
<1>1. PICK e, q : e = <<>> /\ q = Append(e, x)
  OBVIOUS
<1>2. e \in Seq(QueuedMessages)
  BY <1>1
<1>3. Cfg(Append(e, x), kind, before) = IF x.kind = kind THEN x.cfg ELSE Cfg(e, kind, before)
  BY <1>2, CfgAppend
<1>4. Cfg(e, kind, before) = before
  BY <1>1, CfgEmpty
<1>5. q = <<x>>
  BY <1>1, One
<1> QED BY <1>1, <1>3, <1>4, <1>5

LEMMA CfgTwo ==
  ASSUME NEW x, NEW y, NEW kind, NEW before, x \in QueuedMessages, y \in QueuedMessages
  PROVE  Cfg(<<x, y>>, kind, before) =
           IF y.kind = kind THEN y.cfg ELSE IF x.kind = kind THEN x.cfg ELSE before
<1>1. PICK q : q = <<x>>
  OBVIOUS
<1>2. q \in Seq(QueuedMessages)
  BY <1>1
<1>3. Cfg(Append(q, y), kind, before) = IF y.kind = kind THEN y.cfg ELSE Cfg(q, kind, before)
  BY <1>2, CfgAppend
<1>4. Append(q, y) = <<x, y>>
  BY <1>1, Two
<1>5. Cfg(q, kind, before) = IF x.kind = kind THEN x.cfg ELSE before
  BY <1>1, CfgOne
<1> QED BY <1>3, <1>4, <1>5

\* The last of a kind is a sequence of at most one message of that kind.
LEMMA LastOfShape ==
  ASSUME NEW q, NEW kind, q \in Seq(QueuedMessages)
  PROVE  \/ LastOf(q, kind) = <<>>
         \/ \E m \in QueuedMessages : m.kind = kind /\ LastOf(q, kind) = <<m>>
BY LastOfCases

\* shrink keeps the configurations of the last headers, and a client that gets
\* what is left ends with them.
LEMMA ShrunkResult ==
  ASSUME NEW q, NEW d, q \in Seq(QueuedMessages), d \in Decoders
  PROVE  /\ Shrunk(q) \in Seq(QueuedMessages)
         /\ \A b : Cfg(Shrunk(q), "vsh", b) = Cfg(q, "vsh", b)
         /\ \A b : Cfg(Shrunk(q), "ash", b) = Cfg(q, "ash", b)
         /\ DecodeAll(d, Shrunk(q)) \in Decoders
         /\ DecodeAll(d, Shrunk(q)).vcfg = Cfg(q, "vsh", d.vcfg)
         /\ DecodeAll(d, Shrunk(q)).acfg = Cfg(q, "ash", d.acfg)
<1>0. PICK s : s = Shrunk(q)
  OBVIOUS
<1> SUFFICES /\ s \in Seq(QueuedMessages)
             /\ \A b : Cfg(s, "vsh", b) = Cfg(q, "vsh", b)
             /\ \A b : Cfg(s, "ash", b) = Cfg(q, "ash", b)
             /\ DecodeAll(d, s) \in Decoders
             /\ DecodeAll(d, s).vcfg = Cfg(q, "vsh", d.vcfg)
             /\ DecodeAll(d, s).acfg = Cfg(q, "ash", d.acfg)
  BY <1>0
<1>1. \/ LastOf(q, "vsh") = <<>>
      \/ \E m \in QueuedMessages : m.kind = "vsh" /\ LastOf(q, "vsh") = <<m>>
  BY LastOfShape
<1>2. \/ LastOf(q, "ash") = <<>>
      \/ \E m \in QueuedMessages : m.kind = "ash" /\ LastOf(q, "ash") = <<m>>
  BY LastOfShape
<1>3. <<>> \in Seq(QueuedMessages)
  OBVIOUS
<1>4. CASE LastOf(q, "vsh") = <<>> /\ LastOf(q, "ash") = <<>>
  <2>1. s = <<>>
    BY <1>0, <1>4 DEF Shrunk
  <2>2. \A b : Cfg(q, "vsh", b) = b /\ Cfg(q, "ash", b) = b
    BY <1>4 DEF Cfg
  <2>3. DecodeAll(d, <<>>) = d
    BY DecodeNone
  <2> QED BY <1>3, <2>1, <2>2, <2>3, CfgEmpty
<1>5. ASSUME NEW x \in QueuedMessages, x.kind = "vsh",
             LastOf(q, "vsh") = <<x>>, LastOf(q, "ash") = <<>>
      PROVE  /\ s \in Seq(QueuedMessages)
             /\ \A b : Cfg(s, "vsh", b) = Cfg(q, "vsh", b)
             /\ \A b : Cfg(s, "ash", b) = Cfg(q, "ash", b)
             /\ DecodeAll(d, s) \in Decoders
             /\ DecodeAll(d, s).vcfg = Cfg(q, "vsh", d.vcfg)
             /\ DecodeAll(d, s).acfg = Cfg(q, "ash", d.acfg)
  <2>1. s = <<x>>
    BY <1>0, <1>5, One DEF Shrunk
  <2>2. \A b : Cfg(q, "vsh", b) = x.cfg /\ Cfg(q, "ash", b) = b
    BY <1>5, One DEF Cfg
  <2>3. \A b : Cfg(s, "vsh", b) = x.cfg
    BY <1>5, <2>1, CfgOne
  <2>4. \A b : Cfg(s, "ash", b) = b
    BY <1>5, <2>1, CfgOne
  <2>5. Fitting(x)
    BY QueuedFit
  <2>6. DecodeAll(d, s) = Decode(d, x)
    BY <2>1, <2>5, DecodeOne
  <2>7. Decode(d, x) \in Decoders /\ Decode(d, x).vcfg = x.cfg /\ Decode(d, x).acfg = d.acfg
    BY <1>5, <2>5, DecodeResult
  <2> QED BY <2>1, <2>2, <2>3, <2>4, <2>6, <2>7
<1>6. ASSUME NEW y \in QueuedMessages, y.kind = "ash",
             LastOf(q, "vsh") = <<>>, LastOf(q, "ash") = <<y>>
      PROVE  /\ s \in Seq(QueuedMessages)
             /\ \A b : Cfg(s, "vsh", b) = Cfg(q, "vsh", b)
             /\ \A b : Cfg(s, "ash", b) = Cfg(q, "ash", b)
             /\ DecodeAll(d, s) \in Decoders
             /\ DecodeAll(d, s).vcfg = Cfg(q, "vsh", d.vcfg)
             /\ DecodeAll(d, s).acfg = Cfg(q, "ash", d.acfg)
  <2>1. s = <<y>>
    BY <1>0, <1>6, One DEF Shrunk
  <2>2. \A b : Cfg(q, "vsh", b) = b /\ Cfg(q, "ash", b) = y.cfg
    BY <1>6, One DEF Cfg
  <2>3. \A b : Cfg(s, "vsh", b) = b
    BY <1>6, <2>1, CfgOne
  <2>4. \A b : Cfg(s, "ash", b) = y.cfg
    BY <1>6, <2>1, CfgOne
  <2>5. Fitting(y)
    BY QueuedFit
  <2>6. DecodeAll(d, s) = Decode(d, y)
    BY <2>1, <2>5, DecodeOne
  <2>7. Decode(d, y) \in Decoders /\ Decode(d, y).vcfg = d.vcfg /\ Decode(d, y).acfg = y.cfg
    BY <1>6, <2>5, DecodeResult
  <2> QED BY <2>1, <2>2, <2>3, <2>4, <2>6, <2>7
<1>7. ASSUME NEW x \in QueuedMessages, x.kind = "vsh", LastOf(q, "vsh") = <<x>>,
             NEW y \in QueuedMessages, y.kind = "ash", LastOf(q, "ash") = <<y>>
      PROVE  /\ s \in Seq(QueuedMessages)
             /\ \A b : Cfg(s, "vsh", b) = Cfg(q, "vsh", b)
             /\ \A b : Cfg(s, "ash", b) = Cfg(q, "ash", b)
             /\ DecodeAll(d, s) \in Decoders
             /\ DecodeAll(d, s).vcfg = Cfg(q, "vsh", d.vcfg)
             /\ DecodeAll(d, s).acfg = Cfg(q, "ash", d.acfg)
  <2>1. s = <<x, y>>
    BY <1>0, <1>7, Two DEF Shrunk
  <2>4. \A b : Cfg(q, "vsh", b) = x.cfg /\ Cfg(q, "ash", b) = y.cfg
    BY <1>7, One DEF Cfg
  <2>6. \A b : Cfg(s, "vsh", b) = x.cfg
    BY <1>7, <2>1, CfgTwo
  <2>7. \A b : Cfg(s, "ash", b) = y.cfg
    BY <1>7, <2>1, CfgTwo
  <2>8. Fitting(x)
    BY QueuedFit
  <2>9. Fitting(y)
    BY QueuedFit
  <2>10. DecodeAll(d, s) = Decode(Decode(d, x), y)
    <3>1. DecodeAll(d, <<x, y>>) = Decode(Decode(d, x), y)
      BY <2>8, <2>9, DecodeTwo
    <3> QED BY <2>1, <3>1
  <2>11. PICK e : e = Decode(d, x)
    OBVIOUS
  <2>12. e \in Decoders /\ e.vcfg = x.cfg /\ e.acfg = d.acfg
    BY <1>7, <2>8, <2>11, DecodeResult
  <2>13. Decode(e, y) \in Decoders /\ Decode(e, y).vcfg = e.vcfg /\ Decode(e, y).acfg = y.cfg
    BY <1>7, <2>9, <2>12, DecodeResult
  <2>14. s \in Seq(QueuedMessages)
    BY <2>1
  <2> QED BY <2>4, <2>6, <2>7, <2>10, <2>11, <2>12, <2>13, <2>14
<1> QED BY <1>1, <1>2, <1>4, <1>5, <1>6, <1>7

\* What duration() can be.
Spans == {t \in Int : t <= Far} \cup {None}

Consumers ==
  [queue : Seq(QueuedMessages), span : Spans,
   waiting : BOOLEAN, paused : BOOLEAN, cut : BOOLEAN, metaLast : BOOLEAN,
   client : Decoders, heard : Decoders]

\* What the client has been sent and what is queued for it give what it will
\* have heard, as far as headers go.
Pending(c) ==
  /\ c.heard.vcfg = Cfg(c.queue, "vsh", c.client.vcfg)
  /\ c.heard.acfg = Cfg(c.queue, "ash", c.client.acfg)

\* The queue starts anew after all there was has been sent.
Drained(c) == c.queue = <<>> /\ ~c.metaLast /\ ~c.cut => c.span \in {0, None}

\* A consumer at work.
Regular(c) == c \in Consumers /\ Pending(c) /\ Drained(c)

LEMMA Limits ==
  /\ QueueLength \in Nat /\ QueueLength > 0 /\ Far \in Nat /\ Far > QueueLength
  /\ MaxDump \in Nat /\ MaxDump > 0 /\ MaxBack \in Nat /\ -MaxBack \in Int /\ -MaxBack <= 0
  /\ MwMsgs \in Nat /\ MwSleep \in Nat /\ MwSleep > 0 /\ GuessCount \in Nat
  /\ None \notin Int /\ None \notin VideoConfigs /\ None \notin AudioConfigs
  /\ FrameTimes \subseteq Int /\ MaxGop \in Nat
BY DeliveryAssumption DEF Far

LEMMA LaterType ==
  ASSUME NEW t, NEW d, t \in Int, t <= Far, d \in Int
  PROVE  Later(t, d) \in Int /\ Later(t, d) <= Far
BY Limits DEF Later

\* A new consumer, field by field.
LEMMA ConsumerRecord ==
  ASSUME NEW q, NEW s, NEW w, NEW u, NEW k, NEW l, NEW a, NEW b,
         q \in Seq(QueuedMessages), s \in Spans,
         w \in BOOLEAN, u \in BOOLEAN, k \in BOOLEAN, l \in BOOLEAN,
         a \in Decoders, b \in Decoders
  PROVE  [queue |-> q, span |-> s, waiting |-> w, paused |-> u,
          cut |-> k, metaLast |-> l, client |-> a, heard |-> b] \in Consumers
BY DEF Consumers

LEMMA ConsumerFields ==
  ASSUME NEW c, c \in Consumers
  PROVE  /\ c.queue \in Seq(QueuedMessages) /\ c.span \in Spans
         /\ c.waiting \in BOOLEAN /\ c.paused \in BOOLEAN /\ c.cut \in BOOLEAN
         /\ c.metaLast \in BOOLEAN /\ c.client \in Decoders /\ c.heard \in Decoders
         /\ c = [queue |-> c.queue, span |-> c.span,
                 waiting |-> c.waiting, paused |-> c.paused, cut |-> c.cut,
                 metaLast |-> c.metaLast, client |-> c.client, heard |-> c.heard]
BY DEF Consumers

\* The time the queue spans once m is in it, before it is looked at.
SpanWith(c, m, d) ==
  IF m.kind = "meta" THEN c.span ELSE IF c.span = None THEN 0 ELSE Later(c.span, d)

Overflows(c, m, d) == SpanWith(c, m, d) # None /\ SpanWith(c, m, d) > QueueLength

LEMMA SpanWithType ==
  ASSUME NEW c, NEW m, NEW d, c \in Consumers, d \in Int
  PROVE  SpanWith(c, m, d) \in Spans /\ Overflows(c, m, d) \in BOOLEAN
<1>1. c.span \in Spans
  BY ConsumerFields
<1>2. c.span # None => Later(c.span, d) \in Int /\ Later(c.span, d) <= Far
  BY <1>1, LaterType DEF Spans
<1> QED BY <1>1, <1>2, Limits DEF SpanWith, Overflows, Spans

\* The two outcomes e of enqueue, with all the queue and the message.
Outcome(c, m, d, all, e) ==
  /\ e.paused = c.paused /\ e.metaLast = FALSE /\ e.client = c.client
  /\ e = [queue |-> e.queue, span |-> e.span,
          waiting |-> e.waiting, paused |-> e.paused, cut |-> e.cut,
          metaLast |-> e.metaLast, client |-> e.client, heard |-> e.heard]
  /\ e.waiting = (c.waiting /\ ~Fires(e.queue, e.span))
  /\ Overflows(c, m, d) =>
       /\ e.queue = Shrunk(all) /\ e.span = 0 /\ e.cut = TRUE
       /\ e.heard = DecodeAll(c.client, Shrunk(all))
  /\ ~Overflows(c, m, d) =>
       /\ e.queue = all /\ e.span = SpanWith(c, m, d)
       /\ e.cut = (c.cut /\ m.kind # "key")
       /\ e.heard = Decode(c.heard, m)

LEMMA EnqueueOutcome ==
  ASSUME NEW c, NEW m, NEW d, c \in Consumers
  PROVE  Outcome(c, m, d, Append(c.queue, Queued(m)), Enqueue(c, m, d))
<1>1. PICK all : all = Append(c.queue, Queued(m))
  OBVIOUS
<1>2. PICK over : over = Overflows(c, m, d)
  OBVIOUS
<1>3. PICK queue : queue = IF over THEN Shrunk(all) ELSE all
  OBVIOUS
<1>4. PICK span : span = IF over THEN 0 ELSE SpanWith(c, m, d)
  OBVIOUS
<1>5. PICK heard : heard = IF over THEN DecodeAll(c.client, queue) ELSE Decode(c.heard, m)
  OBVIOUS
<1>6. PICK last : last = FALSE
  OBVIOUS
<1>7. PICK waiting : waiting = (c.waiting /\ ~Fires(queue, span))
  OBVIOUS
<1>8. PICK cut : cut = (over \/ (c.cut /\ m.kind # "key"))
  OBVIOUS
<1>9. PICK e : e = Enqueue(c, m, d)
  OBVIOUS
<1>10. e = [c EXCEPT !.queue = queue, !.span = span, !.waiting = waiting, !.cut = cut,
                     !.metaLast = last, !.heard = heard]
  BY <1>1, <1>2, <1>3, <1>4, <1>5, <1>6, <1>7, <1>8, <1>9
     DEF Enqueue, SpanWith, Overflows
<1>11. c = [queue |-> c.queue, span |-> c.span,
            waiting |-> c.waiting, paused |-> c.paused, cut |-> c.cut,
            metaLast |-> c.metaLast, client |-> c.client, heard |-> c.heard]
  BY ConsumerFields
<1>12. e = [queue |-> queue, span |-> span,
            waiting |-> waiting, paused |-> c.paused, cut |-> cut,
            metaLast |-> last, client |-> c.client, heard |-> heard]
  BY <1>10, <1>11
<1>13. /\ e.queue = queue /\ e.span = span /\ e.waiting = waiting
       /\ e.paused = c.paused /\ e.cut = cut /\ e.metaLast = last
       /\ e.client = c.client /\ e.heard = heard
  BY <1>12
<1>14. over => /\ queue = Shrunk(all) /\ span = 0 /\ cut = TRUE
               /\ heard = DecodeAll(c.client, Shrunk(all))
  BY <1>3, <1>4, <1>5, <1>8
<1>15. ~over => /\ queue = all /\ span = SpanWith(c, m, d)
                /\ cut = (c.cut /\ m.kind # "key") /\ heard = Decode(c.heard, m)
  BY <1>3, <1>4, <1>5, <1>8
<1>16. Outcome(c, m, d, all, e)
  BY <1>2, <1>6, <1>7, <1>12, <1>13, <1>14, <1>15 DEF Outcome
<1> QED BY <1>1, <1>9, <1>16

\* enqueue keeps a consumer in order, whether the message fits or the queue is
\* shrunk: the headers reach the client, and nobody is left asleep.
LEMMA EnqueueRegular ==
  ASSUME NEW c, NEW m, NEW d, Regular(c), m \in Messages, d \in Int
  PROVE  LET e == Enqueue(c, m, d) IN
         /\ Regular(e)
         /\ e.waiting => c.waiting /\ ~Ready(e.queue, e.span)
         /\ e.heard.vcfg = IF m.kind = "vsh" THEN m.cfg ELSE c.heard.vcfg
         /\ e.heard.acfg = IF m.kind = "ash" THEN m.cfg ELSE c.heard.acfg
         /\ ~e.cut => e.heard = Decode(c.heard, m) /\ (c.cut => m.kind = "key")
<1>1. PICK e : e = Enqueue(c, m, d)
  OBVIOUS
<1>2. PICK k : k = Queued(m)
  OBVIOUS
<1>3. PICK all : all = Append(c.queue, k)
  OBVIOUS
<1>4. c \in Consumers /\ Pending(c) /\ Drained(c)
  BY DEF Regular
<1>5. /\ c.queue \in Seq(QueuedMessages) /\ c.span \in Spans
      /\ c.waiting \in BOOLEAN /\ c.paused \in BOOLEAN /\ c.cut \in BOOLEAN
      /\ c.metaLast \in BOOLEAN /\ c.client \in Decoders /\ c.heard \in Decoders
  BY <1>4, ConsumerFields
<1>6. /\ k \in QueuedMessages
      /\ k.kind = "vsh" <=> m.kind = "vsh"
      /\ k.kind = "ash" <=> m.kind = "ash"
      /\ m.kind \in {"vsh", "ash"} => k.cfg = m.cfg
  BY <1>2, QueuedHeaders
<1>7. Fitting(m)
  BY MessagesFit
<1>8. all \in Seq(QueuedMessages) /\ all # <<>>
  BY <1>3, <1>5, <1>6
<1>9. \A b : Cfg(all, "vsh", b) = IF m.kind = "vsh" THEN m.cfg ELSE Cfg(c.queue, "vsh", b)
  <2> TAKE b
  <2>1. Cfg(Append(c.queue, k), "vsh", b) = IF k.kind = "vsh" THEN k.cfg ELSE Cfg(c.queue, "vsh", b)
    BY <1>5, <1>6, CfgAppend
  <2> QED BY <1>3, <1>6, <2>1
<1>10. \A b : Cfg(all, "ash", b) = IF m.kind = "ash" THEN m.cfg ELSE Cfg(c.queue, "ash", b)
  <2> TAKE b
  <2>1. Cfg(Append(c.queue, k), "ash", b) = IF k.kind = "ash" THEN k.cfg ELSE Cfg(c.queue, "ash", b)
    BY <1>5, <1>6, CfgAppend
  <2> QED BY <1>3, <1>6, <2>1
<1>11. /\ c.heard.vcfg = Cfg(c.queue, "vsh", c.client.vcfg)
       /\ c.heard.acfg = Cfg(c.queue, "ash", c.client.acfg)
  BY <1>4 DEF Pending
<1>12. Outcome(c, m, d, all, e)
  <2>1. Outcome(c, m, d, Append(c.queue, Queued(m)), Enqueue(c, m, d))
    BY <1>4, EnqueueOutcome
  <2> QED BY <1>1, <1>2, <1>3, <2>1
<1>13. e.waiting \in BOOLEAN
  BY <1>5, <1>12 DEF Outcome
<1>14. SpanWith(c, m, d) \in Spans
  BY <1>4, SpanWithType
<1>15. /\ e.queue \in Seq(QueuedMessages) /\ e.span \in Spans
       /\ e.cut \in BOOLEAN /\ e.heard \in Decoders
       /\ e.heard.vcfg = IF m.kind = "vsh" THEN m.cfg ELSE c.heard.vcfg
       /\ e.heard.acfg = IF m.kind = "ash" THEN m.cfg ELSE c.heard.acfg
       /\ e.heard.vcfg = Cfg(e.queue, "vsh", c.client.vcfg)
       /\ e.heard.acfg = Cfg(e.queue, "ash", c.client.acfg)
       /\ e.queue = <<>> => e.cut
       /\ ~e.cut => e.heard = Decode(c.heard, m) /\ (c.cut => m.kind = "key")
  <2>1. CASE Overflows(c, m, d)
    <3>1. /\ Shrunk(all) \in Seq(QueuedMessages)
          /\ \A b : Cfg(Shrunk(all), "vsh", b) = Cfg(all, "vsh", b)
          /\ \A b : Cfg(Shrunk(all), "ash", b) = Cfg(all, "ash", b)
          /\ DecodeAll(c.client, Shrunk(all)) \in Decoders
          /\ DecodeAll(c.client, Shrunk(all)).vcfg = Cfg(all, "vsh", c.client.vcfg)
          /\ DecodeAll(c.client, Shrunk(all)).acfg = Cfg(all, "ash", c.client.acfg)
      BY <1>5, <1>8, ShrunkResult
    <3>2. 0 \in Spans
      BY Limits DEF Spans
    <3>3. /\ e.queue = Shrunk(all) /\ e.span = 0 /\ e.cut = TRUE
          /\ e.heard = DecodeAll(c.client, Shrunk(all))
      BY <1>12, <2>1 DEF Outcome
    <3> QED BY <1>9, <1>10, <1>11, <3>1, <3>2, <3>3
  <2>2. CASE ~Overflows(c, m, d)
    <3>1. /\ Decode(c.heard, m) \in Decoders
          /\ Decode(c.heard, m).vcfg = IF m.kind = "vsh" THEN m.cfg ELSE c.heard.vcfg
          /\ Decode(c.heard, m).acfg = IF m.kind = "ash" THEN m.cfg ELSE c.heard.acfg
      BY <1>5, <1>7, DecodeResult
    <3>2. /\ e.queue = all /\ e.span = SpanWith(c, m, d)
          /\ e.cut = (c.cut /\ m.kind # "key") /\ e.heard = Decode(c.heard, m)
      BY <1>12, <2>2 DEF Outcome
    <3>3. e.cut \in BOOLEAN /\ (~e.cut => (c.cut => m.kind = "key"))
      BY <1>5, <3>2
    <3> QED BY <1>8, <1>9, <1>10, <1>11, <1>14, <3>1, <3>2, <3>3
  <2> QED BY <2>1, <2>2
<1>16. e \in Consumers
  <2>1. /\ e.paused \in BOOLEAN /\ e.metaLast \in BOOLEAN /\ e.client \in Decoders
    BY <1>5, <1>12 DEF Outcome
  <2>2. [queue |-> e.queue, span |-> e.span,
         waiting |-> e.waiting, paused |-> e.paused, cut |-> e.cut,
         metaLast |-> e.metaLast, client |-> e.client, heard |-> e.heard] \in Consumers
    BY <1>13, <1>15, <2>1, ConsumerRecord
  <2> QED BY <1>12, <2>2 DEF Outcome
<1>17. Pending(e)
  BY <1>12, <1>15 DEF Pending, Outcome
<1>18. Drained(e)
  BY <1>15 DEF Drained
<1>19. e.waiting => c.waiting /\ ~Ready(e.queue, e.span)
  <2>1. e.span # None => e.span \in Int
    BY <1>15 DEF Spans
  <2>2. Ready(e.queue, e.span) => Fires(e.queue, e.span)
    BY <2>1, Limits DEF Ready, Fires
  <2> QED BY <1>12, <2>2 DEF Outcome
<1>20. Regular(e)
  BY <1>16, <1>17, <1>18 DEF Regular
<1> QED BY <1>1, <1>15, <1>19, <1>20

\* What a client will have heard is as good as what decoder d has heard: the same
\* headers, and the same next frame unless the group was cut.
Tracks(c, d) ==
  /\ d.vcfg # None => c.heard.vcfg = d.vcfg
  /\ d.acfg # None => c.heard.acfg = d.acfg
  /\ d.next # None /\ ~c.cut => c.heard.next = d.next

LEMMA EnqueueTracks ==
  ASSUME NEW c, NEW m, NEW t, NEW d, Regular(c), m \in Messages, t \in Int,
         d \in Decoders, Tracks(c, d)
  PROVE  Tracks(Enqueue(c, m, t), Decode(d, m))
<1>1. PICK e, g : e = Enqueue(c, m, t) /\ g = Decode(d, m)
  OBVIOUS
<1>2. /\ e.heard.vcfg = IF m.kind = "vsh" THEN m.cfg ELSE c.heard.vcfg
      /\ e.heard.acfg = IF m.kind = "ash" THEN m.cfg ELSE c.heard.acfg
      /\ ~e.cut => e.heard = Decode(c.heard, m) /\ (c.cut => m.kind = "key")
  <2>1. LET x == Enqueue(c, m, t) IN
        /\ Regular(x)
        /\ x.waiting => c.waiting /\ ~Ready(x.queue, x.span)
        /\ x.heard.vcfg = IF m.kind = "vsh" THEN m.cfg ELSE c.heard.vcfg
        /\ x.heard.acfg = IF m.kind = "ash" THEN m.cfg ELSE c.heard.acfg
        /\ ~x.cut => x.heard = Decode(c.heard, m) /\ (c.cut => m.kind = "key")
    BY EnqueueRegular
  <2> QED BY <1>1, <2>1
<1>3. c.heard \in Decoders
  BY ConsumerFields DEF Regular
<1>4. Fitting(m)
  BY MessagesFit
<1>5. /\ g.vcfg = IF m.kind = "vsh" THEN m.cfg ELSE d.vcfg
      /\ g.acfg = IF m.kind = "ash" THEN m.cfg ELSE d.acfg
      /\ g.next =
           CASE m.kind = "vsh" -> IF m.cfg = d.vcfg THEN d.next ELSE None
             [] m.kind = "key" -> IF m.cfg = d.vcfg THEN 1 ELSE None
             [] m.kind = "inter" -> IF m.cfg = d.vcfg /\ m.n = d.next THEN m.n + 1 ELSE None
             [] OTHER -> d.next
  BY <1>1, <1>4, DecodeResult
<1>6. Decode(c.heard, m).next =
        CASE m.kind = "vsh" -> IF m.cfg = c.heard.vcfg THEN c.heard.next ELSE None
          [] m.kind = "key" -> IF m.cfg = c.heard.vcfg THEN 1 ELSE None
          [] m.kind = "inter" ->
               IF m.cfg = c.heard.vcfg /\ m.n = c.heard.next THEN m.n + 1 ELSE None
          [] OTHER -> c.heard.next
  BY <1>3, <1>4, DecodeResult
<1>7. m.kind \in {"vsh", "key", "inter"} => m.cfg # None
  BY <1>4, Limits DEF Fitting
<1>8. m.kind = "inter" => m.n # None
  <2>1. m.kind = "inter" => m.n \in Nat
    BY <1>4, Limits DEF Fitting
  <2> QED BY <2>1, Limits
<1>9. /\ d.vcfg # None => c.heard.vcfg = d.vcfg
      /\ d.acfg # None => c.heard.acfg = d.acfg
      /\ d.next # None /\ ~c.cut => c.heard.next = d.next
  BY DEF Tracks
<1>10. ASSUME g.next # None, ~e.cut PROVE e.heard.next = g.next
  <2>1. e.heard = Decode(c.heard, m) /\ (c.cut => m.kind = "key")
    BY <1>2, <1>10
  <2>2. CASE m.kind = "vsh"
    BY <1>5, <1>6, <1>7, <1>9, <1>10, <2>1, <2>2
  <2>3. CASE m.kind = "key"
    BY <1>5, <1>6, <1>7, <1>9, <1>10, <2>1, <2>3
  <2>4. CASE m.kind = "inter"
    BY <1>5, <1>6, <1>7, <1>8, <1>9, <1>10, <2>1, <2>4
  <2>5. CASE m.kind \notin {"vsh", "key", "inter"}
    BY <1>5, <1>6, <1>9, <1>10, <2>1, <2>5
  <2> QED BY <2>2, <2>3, <2>4, <2>5
<1>11. Tracks(e, g)
  BY <1>2, <1>5, <1>9, <1>10 DEF Tracks
<1> QED BY <1>1, <1>11

TimeOf(m, d) == IF IsFrame(m) THEN d ELSE 0

\* A new consumer is given its messages one by one.
IsRun(f, c, ms, d) ==
  /\ f[0] = c
  /\ \A i \in 1 .. Len(ms) : f[i] = Enqueue(f[i - 1], ms[i], TimeOf(ms[i], d))
  /\ \A i \in 0 .. Len(ms) : Regular(f[i])

LEMMA EnqueueAllRun ==
  ASSUME NEW c, NEW ms, NEW d, Regular(c), ms \in Seq(Messages), d \in Int
  PROVE  \E f : IsRun(f, c, ms, d) /\ EnqueueAll(c, ms, d) = f[Len(ms)]
<1> DEFINE Body(f) == [i \in 0 .. Len(ms) |->
                         IF i = 0 THEN c ELSE Enqueue(f[i - 1], ms[i], TimeOf(ms[i], d))]
<1>1. EnqueueAll(c, ms, d) = (CHOOSE f : f = Body(f))[Len(ms)]
  BY DEF EnqueueAll, TimeOf
<1>2. PICK n : n = Len(ms)
  OBVIOUS
<1>3. n \in Nat /\ \A i \in 1 .. n : ms[i] \in Messages /\ TimeOf(ms[i], d) \in Int
  BY <1>2 DEF TimeOf
<1>4. PICK S : S = {x \in Consumers : Regular(x)}
  OBVIOUS
<1>5. \A x : Regular(x) <=> x \in S
  BY <1>4 DEF Regular
<1>6. \A x \in S : \A i \in 1 .. n : Enqueue(x, ms[i], TimeOf(ms[i], d)) \in S
  <2> SUFFICES ASSUME NEW x \in S, NEW i \in 1 .. n
               PROVE  Enqueue(x, ms[i], TimeOf(ms[i], d)) \in S
    OBVIOUS
  <2>1. PICK m, t : m = ms[i] /\ t = TimeOf(ms[i], d)
    OBVIOUS
  <2>2. Regular(x) /\ m \in Messages /\ t \in Int
    BY <1>3, <1>5, <2>1
  <2>3. Regular(Enqueue(x, m, t))
    BY <2>2, EnqueueRegular
  <2> QED BY <1>5, <2>1, <2>3
<1>7. PICK F : F = [x \in S \X (1 .. n) |-> Enqueue(x[1], ms[x[2]], TimeOf(ms[x[2]], d))]
  OBVIOUS
<1>8. \A s \in S : \A i \in 1 .. n : F[<<s, i>>] = Enqueue(s, ms[i], TimeOf(ms[i], d))
  BY <1>7
<1>9. \A s \in S : \A i \in 1 .. n : F[<<s, i>>] \in S
  BY <1>6, <1>8
<1>10. c \in S
  BY <1>5
<1>11. PICK g : Solution(g, n, S, c, F)
  BY <1>3, <1>9, <1>10, RecursionExists
<1>12. /\ g \in [0 .. n -> S] /\ g[0] = c
       /\ \A i \in 1 .. n : g[i] = Enqueue(g[i - 1], ms[i], TimeOf(ms[i], d))
  <2>1. g \in [0 .. n -> S] /\ g[0] = c /\ \A i \in 1 .. n : g[i] = F[<<g[i - 1], i>>]
    BY <1>11 DEF Solution
  <2>2. \A i \in 1 .. n : g[i - 1] \in S
    BY <1>3, <2>1
  <2> QED BY <1>8, <2>1, <2>2
<1>13. g = Body(g)
  BY <1>2, <1>3, <1>12
<1>14. PICK k : k = CHOOSE f : f = Body(f)
  OBVIOUS
<1>15. k = Body(k)
  BY <1>13, <1>14
<1>16. k[0] = c /\ \A i \in 1 .. n : k[i] = Enqueue(k[i - 1], ms[i], TimeOf(ms[i], d))
  BY <1>2, <1>3, <1>15
<1>17. \A i \in 0 .. n : k[i] \in S
  <2>1. PICK P : P = [i \in 0 .. n |-> S]
    OBVIOUS
  <2>2. k[0] \in P[0]
    BY <1>3, <1>10, <1>16, <2>1
  <2>3. \A i \in 1 .. n : k[i - 1] \in P[i - 1] => k[i] \in P[i]
    BY <1>3, <1>6, <1>16, <2>1
  <2>4. \A i \in 0 .. n : k[i] \in P[i]
    BY <1>3, <2>2, <2>3, AlongRun
  <2> QED BY <2>1, <2>4
<1>18. IsRun(k, c, ms, d)
  BY <1>2, <1>5, <1>16, <1>17 DEF IsRun
<1> QED BY <1>1, <1>2, <1>14, <1>18

-----------------------------------------------------------------------------
(* A player joins *)

\* ms are h headers of the meta cache and then the frames of the GOP cache.
Dump(ms, h, me, frames) ==
  /\ ms \in Seq(Messages) /\ h \in Nat /\ Len(ms) = h + Len(frames)
  /\ \A j \in 1 .. Len(frames) : ms[h + j] = frames[j]
  /\ \A i \in 1 .. h : /\ ms[i].kind \in {"meta", "vsh", "ash"}
                       /\ ms[i].kind = "vsh" => ms[i].cfg = me.vsh
                       /\ ms[i].kind = "ash" => ms[i].cfg = me.ash
  /\ me.vsh # None => \E i \in 1 .. h : ms[i].kind = "vsh"
  /\ me.ash # None => \E i \in 1 .. h : ms[i].kind = "ash"

LEMMA DumpedShape ==
  ASSUME NEW me, NEW frames, me = meta, frames = cache.frames, frames \in Seq(Messages),
         me.data \in BOOLEAN, me.vsh \in VideoConfigs \cup {None},
         me.ash \in AudioConfigs \cup {None}
  PROVE  \E h : Dump(Dumped, h, me, frames)
<1>1. PICK a, b, c : /\ a = IF me.data THEN <<MetaData>> ELSE <<>>
                     /\ b = IF me.ash # None THEN <<AudioHeader(me.ash)>> ELSE <<>>
                     /\ c = IF me.vsh # None THEN <<VideoHeader(me.vsh)>> ELSE <<>>
  OBVIOUS
<1>2. Dumped = ((a \o b) \o c) \o frames
  BY <1>1 DEF Dumped
<1>3. /\ MetaData \in Messages /\ MetaData.kind = "meta"
      /\ me.ash # None => AudioHeader(me.ash) \in Messages
      /\ AudioHeader(me.ash).kind = "ash" /\ AudioHeader(me.ash).cfg = me.ash
      /\ me.vsh # None => VideoHeader(me.vsh) \in Messages
      /\ VideoHeader(me.vsh).kind = "vsh" /\ VideoHeader(me.vsh).cfg = me.vsh
  <2>1. MetaData \in Messages /\ MetaData.kind = "meta"
    BY DEF Messages, MetaData, Message
  <2>2. me.ash # None => AudioHeader(me.ash) \in Messages
    BY DEF Messages
  <2>3. me.vsh # None => VideoHeader(me.vsh) \in Messages
    BY DEF Messages
  <2>4. AudioHeader(me.ash).kind = "ash" /\ AudioHeader(me.ash).cfg = me.ash
    BY DEF AudioHeader, Message
  <2>5. VideoHeader(me.vsh).kind = "vsh" /\ VideoHeader(me.vsh).cfg = me.vsh
    BY DEF VideoHeader, Message
  <2> QED BY <2>1, <2>2, <2>3, <2>4, <2>5
<1>4. /\ a \in Seq(Messages) /\ Len(a) \in Nat
      /\ \A i \in 1 .. Len(a) : a[i].kind = "meta"
  BY <1>1, <1>3
<1>5. /\ b \in Seq(Messages) /\ Len(b) \in Nat
      /\ \A i \in 1 .. Len(b) : b[i].kind = "ash" /\ b[i].cfg = me.ash
      /\ me.ash # None => Len(b) = 1
  <2>1. CASE me.ash # None
    BY <1>1, <1>3, <2>1
  <2>2. CASE me.ash = None
    BY <1>1, <2>2
  <2> QED BY <2>1, <2>2
<1>6. /\ c \in Seq(Messages) /\ Len(c) \in Nat
      /\ \A i \in 1 .. Len(c) : c[i].kind = "vsh" /\ c[i].cfg = me.vsh
      /\ me.vsh # None => Len(c) = 1
  <2>1. CASE me.vsh # None
    BY <1>1, <1>3, <2>1
  <2>2. CASE me.vsh = None
    BY <1>1, <2>2
  <2> QED BY <2>1, <2>2
<1>7. PICK p : p = a \o b
  OBVIOUS
<1>8. /\ p \in Seq(Messages) /\ Len(p) = Len(a) + Len(b)
      /\ \A i \in 1 .. Len(a) + Len(b) : p[i] = IF i <= Len(a) THEN a[i] ELSE b[i - Len(a)]
  <2>1. a \in Seq(Messages) /\ b \in Seq(Messages)
    BY <1>4, <1>5
  <2> QED BY <1>7, <2>1
<1>9. PICK q : q = p \o c
  OBVIOUS
<1>10. /\ q \in Seq(Messages) /\ Len(q) = Len(p) + Len(c)
       /\ \A i \in 1 .. Len(p) + Len(c) : q[i] = IF i <= Len(p) THEN p[i] ELSE c[i - Len(p)]
  <2>1. p \in Seq(Messages) /\ c \in Seq(Messages)
    BY <1>6, <1>8
  <2> QED BY <1>9, <2>1
<1>11. PICK ms : ms = q \o frames
  OBVIOUS
<1>12. /\ ms \in Seq(Messages) /\ Len(ms) = Len(q) + Len(frames)
       /\ \A i \in 1 .. Len(q) + Len(frames) :
            ms[i] = IF i <= Len(q) THEN q[i] ELSE frames[i - Len(q)]
  <2>1. q \in Seq(Messages) /\ frames \in Seq(Messages)
    BY <1>10
  <2> QED BY <1>11, <2>1
<1>13. ASSUME NEW i \in 1 .. Len(p)
       PROVE  p[i].kind \in {"meta", "ash"} /\ (p[i].kind = "ash" => p[i].cfg = me.ash)
  <2>1. CASE i <= Len(a)
    <3>1. p[i] = a[i] /\ i \in 1 .. Len(a)
      BY <1>4, <1>5, <1>8, <2>1
    <3> QED BY <1>4, <3>1
  <2>2. CASE ~(i <= Len(a))
    <3>1. p[i] = b[i - Len(a)] /\ i - Len(a) \in 1 .. Len(b)
      BY <1>4, <1>5, <1>8, <2>2
    <3> QED BY <1>5, <3>1
  <2> QED BY <2>1, <2>2
<1>14. me.ash # None => \E i \in 1 .. Len(p) : p[i].kind = "ash"
  <2> SUFFICES ASSUME me.ash # None PROVE \E i \in 1 .. Len(p) : p[i].kind = "ash"
    OBVIOUS
  <2>1. PICK i : i = Len(a) + 1
    OBVIOUS
  <2>0. Len(b) = 1 /\ Len(a) \in Nat /\ Len(p) = Len(a) + Len(b)
    BY <1>4, <1>5, <1>8
  <2>2. /\ i \in 1 .. Len(p) /\ i \in 1 .. Len(a) + Len(b) /\ ~(i <= Len(a))
        /\ i - Len(a) = 1 /\ 1 \in 1 .. Len(b)
    BY <2>0, <2>1
  <2>3. p[i] = b[1]
    BY <1>8, <2>2
  <2> QED BY <1>5, <2>2, <2>3
<1>15. Len(p) \in Nat /\ Len(q) \in Nat /\ Len(frames) \in Nat
  BY <1>4, <1>5, <1>6, <1>8, <1>10
<1>16. ASSUME NEW i \in 1 .. Len(q)
       PROVE  /\ q[i].kind \in {"meta", "vsh", "ash"}
              /\ q[i].kind = "vsh" => q[i].cfg = me.vsh
              /\ q[i].kind = "ash" => q[i].cfg = me.ash
  <2>1. CASE i <= Len(p)
    <3>1. q[i] = p[i] /\ i \in 1 .. Len(p)
      BY <1>6, <1>10, <1>15, <2>1
    <3> QED BY <1>13, <3>1
  <2>2. CASE ~(i <= Len(p))
    <3>1. q[i] = c[i - Len(p)] /\ i - Len(p) \in 1 .. Len(c)
      BY <1>6, <1>10, <1>15, <2>2
    <3> QED BY <1>6, <3>1
  <2> QED BY <2>1, <2>2
<1>17. me.ash # None => \E i \in 1 .. Len(q) : q[i].kind = "ash"
  <2> SUFFICES ASSUME me.ash # None PROVE \E i \in 1 .. Len(q) : q[i].kind = "ash"
    OBVIOUS
  <2>1. PICK i \in 1 .. Len(p) : p[i].kind = "ash"
    BY <1>14
  <2>2. i \in 1 .. Len(q) /\ q[i] = p[i]
    BY <1>6, <1>10, <1>15
  <2> QED BY <2>1, <2>2
<1>18. me.vsh # None => \E i \in 1 .. Len(q) : q[i].kind = "vsh"
  <2> SUFFICES ASSUME me.vsh # None PROVE \E i \in 1 .. Len(q) : q[i].kind = "vsh"
    OBVIOUS
  <2>1. PICK i : i = Len(p) + 1
    OBVIOUS
  <2>0. Len(c) = 1 /\ Len(p) \in Nat /\ Len(q) = Len(p) + Len(c)
    BY <1>6, <1>10, <1>15
  <2>2. /\ i \in 1 .. Len(q) /\ i \in 1 .. Len(p) + Len(c) /\ ~(i <= Len(p))
        /\ i - Len(p) = 1 /\ 1 \in 1 .. Len(c)
    BY <2>0, <2>1
  <2>3. q[i] = c[1]
    BY <1>10, <2>2
  <2> QED BY <1>6, <2>2, <2>3
<1>19. PICK h : h = Len(q)
  OBVIOUS
<1>20. h \in Nat /\ ms \in Seq(Messages) /\ Len(ms) = h + Len(frames)
  BY <1>12, <1>15, <1>19
<1>21. \A i \in 1 .. h : ms[i] = q[i]
  BY <1>12, <1>15, <1>19
<1>22. \A j \in 1 .. Len(frames) : ms[h + j] = frames[j]
  <2> TAKE j \in 1 .. Len(frames)
  <2>1. h + j \in 1 .. Len(q) + Len(frames) /\ ~(h + j <= Len(q)) /\ (h + j) - Len(q) = j
    BY <1>15, <1>19
  <2> QED BY <1>12, <2>1
<1>23. Dump(ms, h, me, frames)
  BY <1>16, <1>17, <1>18, <1>19, <1>20, <1>21, <1>22 DEF Dump
<1> QED BY <1>2, <1>7, <1>9, <1>11, <1>23

HasKey(frames) == \E i \in 1 .. Len(frames) : frames[i].kind = "key"

\* g is what a decoder with d's video header makes of the frames, and it ends
\* where d is.
GopRun(g, frames, d) ==
  /\ g \in [0 .. Len(frames) -> Decoders]
  /\ g[0] = [vcfg |-> d.vcfg, acfg |-> None, next |-> None]
  /\ \A i \in 1 .. Len(frames) : g[i] = Decode(g[i - 1], frames[i])
  /\ g[Len(frames)].vcfg = d.vcfg /\ g[Len(frames)].next = d.next

\* Cached frames with a keyframe bring a decoder where the stream is.
GopTracks(frames, d) ==
  d.next # None /\ HasKey(frames) => \E g : GopRun(g, frames, d)

MetaTracks(me, d) ==
  /\ d.vcfg # None => me.vsh = d.vcfg
  /\ d.acfg # None => me.ash = d.acfg

\* What a message of the run does to the consumer.
LEMMA RunStep ==
  ASSUME NEW f, NEW c, NEW ms, NEW t, NEW i,
         IsRun(f, c, ms, t), ms \in Seq(Messages), t \in Int, i \in 1 .. Len(ms)
  PROVE  /\ Regular(f[i - 1]) /\ Regular(f[i]) /\ ms[i] \in Messages
         /\ TimeOf(ms[i], t) \in Int
         /\ f[i].waiting => f[i - 1].waiting
         /\ f[i].heard.vcfg = IF ms[i].kind = "vsh" THEN ms[i].cfg ELSE f[i - 1].heard.vcfg
         /\ f[i].heard.acfg = IF ms[i].kind = "ash" THEN ms[i].cfg ELSE f[i - 1].heard.acfg
         /\ ~f[i].cut /\ f[i - 1].cut => ms[i].kind = "key"
<1>1. PICK x, m, d : x = f[i - 1] /\ m = ms[i] /\ d = TimeOf(ms[i], t)
  OBVIOUS
<1>2. i \in 0 .. Len(ms) /\ i - 1 \in 0 .. Len(ms)
  OBVIOUS
<1>3. Regular(x) /\ Regular(f[i]) /\ m \in Messages /\ d \in Int
  BY <1>1, <1>2 DEF IsRun, TimeOf
<1>4. f[i] = Enqueue(x, m, d)
  BY <1>1 DEF IsRun
<1>5. LET e == Enqueue(x, m, d) IN
      /\ Regular(e)
      /\ e.waiting => x.waiting /\ ~Ready(e.queue, e.span)
      /\ e.heard.vcfg = IF m.kind = "vsh" THEN m.cfg ELSE x.heard.vcfg
      /\ e.heard.acfg = IF m.kind = "ash" THEN m.cfg ELSE x.heard.acfg
      /\ ~e.cut => e.heard = Decode(x.heard, m) /\ (x.cut => m.kind = "key")
  BY <1>3, EnqueueRegular
<1> QED BY <1>1, <1>3, <1>4, <1>5

\* The headers among the messages are those of the meta cache.
HeadersOf(ms, me) ==
  \A i \in 1 .. Len(ms) : /\ ms[i].kind = "vsh" => ms[i].cfg = me.vsh
                          /\ ms[i].kind = "ash" => ms[i].cfg = me.ash

\* Once they were enqueued, they are what the client will have heard.
HeardOf(f, ms, me) ==
  \A i \in 0 .. Len(ms) :
    /\ (\E j \in 1 .. i : ms[j].kind = "vsh") => f[i].heard.vcfg = me.vsh
    /\ (\E j \in 1 .. i : ms[j].kind = "ash") => f[i].heard.acfg = me.ash

\* The last headers of the run are those of the meta cache.
LEMMA RunHeaders ==
  ASSUME NEW f, NEW c, NEW ms, NEW t, NEW me,
         IsRun(f, c, ms, t), ms \in Seq(Messages), t \in Int, HeadersOf(ms, me)
  PROVE  HeardOf(f, ms, me)
<1>1. PICK n : n = Len(ms)
  OBVIOUS
<1>2. n \in Nat
  BY <1>1
<1> DEFINE Good(i) == {x \in Consumers :
                         /\ (\E j \in 1 .. i : ms[j].kind = "vsh") => x.heard.vcfg = me.vsh
                         /\ (\E j \in 1 .. i : ms[j].kind = "ash") => x.heard.acfg = me.ash}
<1>3. PICK P : P = [i \in 0 .. n |-> Good(i)]
  OBVIOUS
<1>4. \A i \in 0 .. n : f[i] \in Consumers
  BY <1>1 DEF IsRun, Regular
<1>5. f[0] \in P[0]
  BY <1>2, <1>3, <1>4
<1>6. ASSUME NEW i \in 1 .. n, f[i - 1] \in P[i - 1] PROVE f[i] \in P[i]
  <2>1. i - 1 \in 0 .. n /\ i \in 0 .. n
    BY <1>2
  <2>2. /\ (\E j \in 1 .. (i - 1) : ms[j].kind = "vsh") => f[i - 1].heard.vcfg = me.vsh
        /\ (\E j \in 1 .. (i - 1) : ms[j].kind = "ash") => f[i - 1].heard.acfg = me.ash
    BY <1>3, <1>6, <2>1
  <2>3. /\ f[i].heard.vcfg = IF ms[i].kind = "vsh" THEN ms[i].cfg ELSE f[i - 1].heard.vcfg
        /\ f[i].heard.acfg = IF ms[i].kind = "ash" THEN ms[i].cfg ELSE f[i - 1].heard.acfg
    BY <1>1, RunStep
  <2>4. \A j \in 1 .. i : j = i \/ j \in 1 .. (i - 1)
    BY <1>2
  <2>5. (\E j \in 1 .. i : ms[j].kind = "vsh") => f[i].heard.vcfg = me.vsh
    BY <1>1, <2>2, <2>3, <2>4 DEF HeadersOf
  <2>6. (\E j \in 1 .. i : ms[j].kind = "ash") => f[i].heard.acfg = me.ash
    BY <1>1, <2>2, <2>3, <2>4 DEF HeadersOf
  <2>7. f[i] \in Good(i)
    BY <1>4, <2>1, <2>5, <2>6
  <2> QED BY <1>3, <2>1, <2>7
<1>7. \A i \in 0 .. n : f[i] \in P[i]
  <2> HIDE DEF Good
  <2> QED BY <1>2, <1>5, <1>6, AlongRun
<1>8. \A i \in 0 .. n : f[i] \in Good(i)
  <2> HIDE DEF Good
  <2> QED BY <1>3, <1>7
<1> QED BY <1>1, <1>8 DEF HeardOf

\* A run that starts awake stays awake; without a keyframe the group stays cut.
LEMMA RunFlags ==
  ASSUME NEW f, NEW c, NEW ms, NEW t, IsRun(f, c, ms, t), ms \in Seq(Messages), t \in Int
  PROVE  /\ ~c.waiting => ~f[Len(ms)].waiting
         /\ c.cut /\ ~HasKey(ms) => f[Len(ms)].cut
<1>1. PICK n : n = Len(ms)
  OBVIOUS
<1>2. n \in Nat /\ f[0] = c
  BY <1>1 DEF IsRun
<1>3. \A i \in 0 .. n : f[i] \in Consumers
  BY <1>1 DEF IsRun, Regular
<1>4. ASSUME ~c.waiting PROVE ~f[n].waiting
  <2>1. PICK P : P = [i \in 0 .. n |-> {x \in Consumers : ~x.waiting}]
    OBVIOUS
  <2>2. f[0] \in P[0]
    BY <1>2, <1>3, <1>4, <2>1
  <2>3. ASSUME NEW i \in 1 .. n, f[i - 1] \in P[i - 1] PROVE f[i] \in P[i]
    <3>1. i - 1 \in 0 .. n /\ i \in 0 .. n
      BY <1>2
    <3>2. f[i].waiting => f[i - 1].waiting
      BY <1>1, RunStep
    <3> QED BY <1>3, <2>1, <2>3, <3>1, <3>2
  <2>4. \A i \in 0 .. n : f[i] \in P[i]
    BY <1>2, <2>2, <2>3, AlongRun
  <2> QED BY <1>2, <2>1, <2>4
<1>5. ASSUME c.cut, ~HasKey(ms) PROVE f[n].cut
  <2>1. PICK P : P = [i \in 0 .. n |-> {x \in Consumers : x.cut}]
    OBVIOUS
  <2>2. f[0] \in P[0]
    BY <1>2, <1>3, <1>5, <2>1
  <2>3. ASSUME NEW i \in 1 .. n, f[i - 1] \in P[i - 1] PROVE f[i] \in P[i]
    <3>1. i - 1 \in 0 .. n /\ i \in 0 .. n
      BY <1>2
    <3>2. ~f[i].cut /\ f[i - 1].cut => ms[i].kind = "key"
      BY <1>1, RunStep
    <3>3. ms[i].kind # "key"
      BY <1>1, <1>5 DEF HasKey
    <3> QED BY <1>3, <2>1, <2>3, <3>1, <3>2, <3>3
  <2>4. \A i \in 0 .. n : f[i] \in P[i]
    BY <1>2, <2>2, <2>3, AlongRun
  <2> QED BY <1>2, <2>1, <2>4
<1> QED BY <1>1, <1>4, <1>5

\* A player that joins is given what brings it where the stream is.
LEMMA JoinTracks ==
  ASSUME NEW f, NEW c, NEW ms, NEW t, NEW h, NEW me, NEW frames, NEW d,
         IsRun(f, c, ms, t), t \in Int, c.cut,
         Dump(ms, h, me, frames), frames \in Seq(Messages),
         \A i \in 1 .. Len(frames) : IsFrame(frames[i]),
         MetaTracks(me, d), GopTracks(frames, d), d \in Decoders
  PROVE  Tracks(f[Len(ms)], d)
<1>1. PICK n, k : n = Len(ms) /\ k = Len(frames)
  OBVIOUS
<1>2. n \in Nat /\ k \in Nat /\ h \in Nat /\ n = h + k /\ ms \in Seq(Messages)
  BY <1>1 DEF Dump
<1>3. \A j \in 1 .. k : ms[h + j] = frames[j] /\ ms[h + j].kind \notin {"vsh", "ash", "meta"}
  BY <1>1 DEF Dump, IsFrame
<1>4. /\ \A i \in 1 .. h : /\ ms[i].kind \in {"meta", "vsh", "ash"}
                           /\ ms[i].kind = "vsh" => ms[i].cfg = me.vsh
                           /\ ms[i].kind = "ash" => ms[i].cfg = me.ash
      /\ me.vsh # None => \E i \in 1 .. h : ms[i].kind = "vsh"
      /\ me.ash # None => \E i \in 1 .. h : ms[i].kind = "ash"
  BY DEF Dump
<1>5. \A i \in 1 .. n : i \in 1 .. h \/ \E j \in 1 .. k : i = h + j
  <2> TAKE i \in 1 .. n
  <2>1. CASE i <= h
    BY <1>2, <2>1
  <2>2. CASE ~(i <= h)
    <3>1. i - h \in 1 .. k /\ i = h + (i - h)
      BY <1>2, <2>2
    <3> QED BY <3>1
  <2> QED BY <2>1, <2>2
<1>6. HeadersOf(ms, me)
  <2> SUFFICES ASSUME NEW i \in 1 .. n
               PROVE  /\ ms[i].kind = "vsh" => ms[i].cfg = me.vsh
                      /\ ms[i].kind = "ash" => ms[i].cfg = me.ash
    BY <1>1 DEF HeadersOf
  <2>1. CASE i \in 1 .. h
    BY <1>4, <2>1
  <2>2. ASSUME NEW j \in 1 .. k, i = h + j PROVE ms[i].kind \notin {"vsh", "ash"}
    BY <1>3, <2>2
  <2> QED BY <1>5, <2>1, <2>2
<1>7. HeardOf(f, ms, me)
  <2>1. ms \in Seq(Messages)
    BY <1>2
  <2> QED BY <1>6, <2>1, RunHeaders
<1>8. ASSUME NEW i \in h .. n
      PROVE  /\ d.vcfg # None => f[i].heard.vcfg = d.vcfg
             /\ d.acfg # None => f[i].heard.acfg = d.acfg
  <2>1. i \in 0 .. Len(ms) /\ \A j \in 1 .. h : j \in 1 .. i
    BY <1>1, <1>2
  <2> QED BY <1>4, <1>7, <2>1 DEF MetaTracks, HeardOf
<1>9. ASSUME d.next # None, ~f[n].cut PROVE f[n].heard.next = d.next
  <2>1. HasKey(ms)
    BY <1>1, <1>2, <1>9, RunFlags
  <2>2. HasKey(frames)
    <3>1. PICK i \in 1 .. n : ms[i].kind = "key"
      BY <1>1, <2>1 DEF HasKey
    <3>2. i \notin 1 .. h
      BY <1>4, <3>1
    <3>3. PICK j \in 1 .. k : i = h + j
      BY <1>5, <3>2
    <3>4. frames[j].kind = "key"
      BY <1>3, <3>1, <3>3
    <3> QED BY <1>1, <3>4 DEF HasKey
  <2>3. PICK g : GopRun(g, frames, d)
    BY <1>9, <2>2 DEF GopTracks
  <2>4. /\ g \in [0 .. k -> Decoders]
        /\ g[0] = [vcfg |-> d.vcfg, acfg |-> None, next |-> None]
        /\ \A i \in 1 .. k : g[i] = Decode(g[i - 1], frames[i])
        /\ g[k].next = d.next
    BY <1>1, <2>3 DEF GopRun
  <2>5. PICK e : e = [j \in 0 .. k |-> f[h + j]]
    OBVIOUS
  <2>6. PICK P : P = [j \in 0 .. k |-> {x \in Consumers : Tracks(x, g[j])}]
    OBVIOUS
  <2>7. \A j \in 0 .. k : h + j \in 0 .. n /\ e[j] = f[h + j] /\ Regular(e[j]) /\ e[j] \in Consumers
    <3> TAKE j \in 0 .. k
    <3>1. h + j \in 0 .. n
      BY <1>2
    <3>2. Regular(f[h + j])
      BY <1>1, <3>1 DEF IsRun
    <3> QED BY <2>5, <3>1, <3>2 DEF Regular
  <2>8. e[0] \in P[0]
    <3>1. h \in h .. n /\ h + 0 = h /\ 0 \in 0 .. k
      BY <1>2
    <3>2. d.vcfg # None => f[h].heard.vcfg = d.vcfg
      BY <1>8, <3>1
    <3>3. e[0] = f[h] /\ e[0] \in Consumers
      BY <2>7, <3>1
    <3>4. Tracks(e[0], g[0])
      BY <2>4, <3>2, <3>3 DEF Tracks
    <3> QED BY <2>6, <3>1, <3>3, <3>4
  <2>9. ASSUME NEW j \in 1 .. k, e[j - 1] \in P[j - 1] PROVE e[j] \in P[j]
    <3>1. /\ j - 1 \in 0 .. k /\ j \in 0 .. k /\ h + j \in 1 .. Len(ms)
          /\ h + (j - 1) = (h + j) - 1
      BY <1>1, <1>2
    <3>2. PICK x, m, s, y : /\ x = e[j - 1] /\ m = ms[h + j]
                            /\ s = TimeOf(ms[h + j], t) /\ y = g[j - 1]
      OBVIOUS
    <3>3. PICK i : i = h + j
      OBVIOUS
    <3>4. /\ Regular(f[i - 1]) /\ ms[i] \in Messages /\ TimeOf(ms[i], t) \in Int
          /\ f[i] = Enqueue(f[i - 1], ms[i], TimeOf(ms[i], t))
      <4>1. i \in 1 .. Len(ms)
        BY <3>1, <3>3
      <4>2. ms \in Seq(Messages)
        BY <1>2
      <4>3. Regular(f[i - 1]) /\ ms[i] \in Messages /\ TimeOf(ms[i], t) \in Int
        BY <4>1, <4>2, RunStep
      <4>6. f[i] = Enqueue(f[i - 1], ms[i], TimeOf(ms[i], t))
        BY <4>1 DEF IsRun
      <4> QED BY <4>3, <4>6
    <3>5. Regular(x) /\ m \in Messages /\ s \in Int /\ e[j] = Enqueue(x, m, s)
      BY <2>7, <3>1, <3>2, <3>3, <3>4
    <3>6. Tracks(x, y) /\ y \in Decoders
      BY <2>4, <2>6, <2>9, <3>1, <3>2
    <3>7. Tracks(Enqueue(x, m, s), Decode(y, m))
      BY <3>5, <3>6, EnqueueTracks
    <3>8. g[j] = Decode(y, m)
      BY <1>3, <2>4, <3>2
    <3>9. Tracks(e[j], g[j])
      BY <3>5, <3>7, <3>8
    <3> QED BY <2>6, <2>7, <3>1, <3>9
  <2>10. \A j \in 0 .. k : e[j] \in P[j]
    BY <1>2, <2>8, <2>9, AlongRun
  <2>11. Tracks(e[k], g[k]) /\ e[k] = f[n]
    BY <1>2, <2>6, <2>7, <2>10
  <2> QED BY <1>9, <2>4, <2>11 DEF Tracks
<1>10. n \in h .. n
  BY <1>2
<1> QED BY <1>1, <1>8, <1>9, <1>10 DEF Tracks

-----------------------------------------------------------------------------
(* The caches of the source *)

\* Decoders that agree on video are brought to the same place.
LEMMA GopSame ==
  ASSUME NEW frames, NEW d, NEW e, GopTracks(frames, d), e.vcfg = d.vcfg, e.next = d.next
  PROVE  GopTracks(frames, e)
<1> SUFFICES ASSUME e.next # None, HasKey(frames) PROVE \E g : GopRun(g, frames, e)
  BY DEF GopTracks
<1>1. PICK g : GopRun(g, frames, d)
  BY DEF GopTracks
<1>2. GopRun(g, frames, e)
  BY <1>1 DEF GopRun
<1> QED BY <1>2

\* A keyframe starts a group.
LEMMA GopKey ==
  ASSUME NEW d, NEW m, d \in Decoders, m \in Messages, m.kind = "key", m.cfg = d.vcfg
  PROVE  GopTracks(<<m>>, Decode(d, m))
<1>1. PICK e, z, y, frames : /\ e = Decode(d, m)
                             /\ z = [vcfg |-> d.vcfg, acfg |-> None, next |-> None]
                             /\ y = Decode(z, m) /\ frames = <<m>>
  OBVIOUS
<1>2. Fitting(m)
  BY MessagesFit
<1>3. z \in Decoders
  BY <1>1 DEF Decoders
<1>4. e.vcfg = d.vcfg /\ e.next = 1
  BY <1>1, <1>2, DecodeResult
<1>5. y \in Decoders /\ y.vcfg = z.vcfg /\ y.next = 1
  <2>1. z.vcfg = m.cfg
    BY <1>1
  <2> QED BY <1>1, <1>2, <1>3, <2>1, DecodeResult
<1>6. PICK g : g = [i \in 0 .. 1 |-> IF i = 0 THEN z ELSE y]
  OBVIOUS
<1>7. g \in [0 .. 1 -> Decoders] /\ g[0] = z /\ g[1] = y
  BY <1>3, <1>5, <1>6
<1>8. Len(frames) = 1 /\ frames[1] = m
  BY <1>1
<1>9. z.vcfg = d.vcfg /\ z = [vcfg |-> e.vcfg, acfg |-> None, next |-> None]
  BY <1>1, <1>4
<1>10. \A i \in 1 .. 1 : g[i] = Decode(g[i - 1], frames[i])
  BY <1>1, <1>7, <1>8
<1>11. GopRun(g, frames, e)
  BY <1>4, <1>5, <1>7, <1>8, <1>9, <1>10 DEF GopRun
<1> QED BY <1>1, <1>11 DEF GopTracks

\* Another frame goes on with the group.
LEMMA GopMore ==
  ASSUME NEW frames, NEW d, NEW m, frames \in Seq(Messages), d \in Decoders, m \in Messages,
         m.kind \in {"inter", "audio"}, m.kind = "inter" => m.cfg = d.vcfg /\ m.n = d.next,
         GopTracks(frames, d)
  PROVE  GopTracks(Append(frames, m), Decode(d, m))
<1>1. PICK e, more, n : e = Decode(d, m) /\ more = Append(frames, m) /\ n = Len(frames)
  OBVIOUS
<1>2. n \in Nat /\ Len(more) = n + 1 /\ more[n + 1] = m /\ \A i \in 1 .. n : more[i] = frames[i]
  BY <1>1
<1>3. Fitting(m)
  BY MessagesFit
<1>4. /\ e.vcfg = d.vcfg
      /\ e.next = IF m.kind = "inter" THEN m.n + 1 ELSE d.next
  BY <1>1, <1>3, DecodeResult
<1>5. m.kind = "inter" => d.next # None
  <2>1. m.kind = "inter" => m.n \in Nat
    BY <1>3, Limits DEF Fitting
  <2> QED BY <2>1, Limits
<1>6. ASSUME e.next # None, HasKey(more) PROVE \E g : GopRun(g, more, e)
  <2>1. d.next # None
    BY <1>4, <1>5, <1>6
  <2>2. HasKey(frames)
    <3>1. PICK i \in 1 .. n + 1 : more[i].kind = "key"
      BY <1>2, <1>6 DEF HasKey
    <3>2. i \in 1 .. n
      BY <1>2, <3>1
    <3> QED BY <1>1, <1>2, <3>1, <3>2 DEF HasKey
  <2>3. PICK g : GopRun(g, frames, d)
    BY <2>1, <2>2 DEF GopTracks
  <2>4. /\ g \in [0 .. n -> Decoders]
        /\ g[0] = [vcfg |-> d.vcfg, acfg |-> None, next |-> None]
        /\ \A i \in 1 .. n : g[i] = Decode(g[i - 1], frames[i])
        /\ g[n].vcfg = d.vcfg /\ g[n].next = d.next
    BY <1>1, <2>3 DEF GopRun
  <2>5. PICK x, y : x = g[n] /\ y = Decode(g[n], m)
    OBVIOUS
  <2>6. x \in Decoders /\ x.vcfg = d.vcfg /\ x.next = d.next
    BY <1>2, <2>4, <2>5
  <2>7. /\ Decode(x, m) \in Decoders
        /\ Decode(x, m).vcfg = x.vcfg
        /\ Decode(x, m).next = IF m.kind = "inter"
                               THEN IF m.cfg = x.vcfg /\ m.n = x.next THEN m.n + 1 ELSE None
                               ELSE x.next
    BY <1>3, <2>6, DecodeResult
  <2>8. y \in Decoders /\ y.vcfg = e.vcfg /\ y.next = e.next
    BY <1>4, <2>5, <2>6, <2>7
  <2>9. PICK k : k = [i \in 0 .. (n + 1) |-> IF i = n + 1 THEN y ELSE g[i]]
    OBVIOUS
  <2>10. /\ k \in [0 .. (n + 1) -> Decoders] /\ k[0] = g[0] /\ k[n + 1] = y
         /\ \A i \in 0 .. n : k[i] = g[i]
    BY <1>2, <2>4, <2>8, <2>9
  <2>11. ASSUME NEW i \in 1 .. (n + 1) PROVE k[i] = Decode(k[i - 1], more[i])
    <3>1. CASE i = n + 1
      <4>1. i - 1 = n /\ n \in 0 .. n
        BY <1>2, <3>1
      <4> QED BY <1>2, <2>5, <2>10, <3>1, <4>1
    <3>2. CASE i # n + 1
      <4>1. i \in 1 .. n /\ i \in 0 .. n /\ i - 1 \in 0 .. n
        BY <1>2, <3>2
      <4> QED BY <1>2, <2>4, <2>10, <4>1
    <3> QED BY <3>1, <3>2
  <2>12. GopRun(k, more, e)
    BY <1>2, <1>4, <2>4, <2>8, <2>10, <2>11 DEF GopRun
  <2> QED BY <2>12
<1> QED BY <1>1, <1>6 DEF GopTracks

\* What a new consumer is.
LEMMA NewIsRegular ==
  /\ Regular(NewConsumer) /\ NewConsumer.cut /\ ~NewConsumer.waiting
  /\ NewDecoder \in Decoders
  /\ NewDecoder.vcfg = None /\ NewDecoder.acfg = None /\ NewDecoder.next = None
<1>1. /\ NewDecoder \in Decoders
      /\ NewDecoder.vcfg = None /\ NewDecoder.acfg = None /\ NewDecoder.next = None
  BY DEF NewDecoder, Decoders
<1>2. PICK e : e = <<>>
  OBVIOUS
<1>3. e \in Seq(QueuedMessages) /\ None \in Spans
  BY <1>2 DEF Spans
<1>4. PICK t, f, d : t = TRUE /\ f = FALSE /\ d = NewDecoder
  OBVIOUS
<1>5. [queue |-> e, span |-> None, waiting |-> f, paused |-> f,
       cut |-> t, metaLast |-> f, client |-> d, heard |-> d] \in Consumers
  BY <1>1, <1>3, <1>4, ConsumerRecord
<1>6. PICK c : c = NewConsumer
  OBVIOUS
<1>7. c = [queue |-> e, span |-> None, waiting |-> f, paused |-> f,
           cut |-> t, metaLast |-> f, client |-> d, heard |-> d]
  BY <1>2, <1>4, <1>6 DEF NewConsumer
<1>8. /\ c.queue = <<>> /\ c.cut = TRUE /\ c.waiting = FALSE /\ c.client = NewDecoder
      /\ c.heard = NewDecoder
  BY <1>2, <1>4, <1>7
<1>9. Pending(c)
  <2>1. \A b : Cfg(<<>>, "vsh", b) = b /\ Cfg(<<>>, "ash", b) = b
    BY CfgEmpty
  <2> QED BY <1>8, <2>1 DEF Pending
<1>10. Drained(c)
  BY <1>8 DEF Drained
<1> QED BY <1>1, <1>5, <1>6, <1>7, <1>8, <1>9, <1>10 DEF Regular

\* Any consumer is where a decoder is that has seen nothing.
LEMMA TracksNew ==
  ASSUME NEW c
  PROVE  Tracks(c, NewDecoder)
BY NewIsRegular DEF Tracks

-----------------------------------------------------------------------------
(* The consumer of one player *)

\* c is the consumer of a player that is at w, of a stream published or not.
PlayerOK(c, w, pub, d) ==
  /\ Regular(c)
  /\ c.waiting => w = "asleep" /\ ~Ready(c.queue, c.span)
  /\ pub /\ w # "away" => Tracks(c, d)

\* The flags of a consumer, set by its player and its receive coroutine.
Flagged(c, w, u) == [c EXCEPT !.waiting = w, !.paused = u]

LEMMA FlaggedFields ==
  ASSUME NEW c, NEW w, NEW u, Regular(c), w \in BOOLEAN, u \in BOOLEAN
  PROVE  LET x == Flagged(c, w, u) IN
         /\ Regular(x) /\ x.waiting = w /\ x.paused = u
         /\ x.queue = c.queue /\ x.span = c.span /\ x.cut = c.cut /\ x.heard = c.heard
         /\ x.metaLast = c.metaLast
<1>1. PICK x : x = Flagged(c, w, u)
  OBVIOUS
<1>2. c \in Consumers
  BY DEF Regular
<1>3. /\ c.queue \in Seq(QueuedMessages) /\ c.span \in Spans
      /\ c.cut \in BOOLEAN
      /\ c.metaLast \in BOOLEAN /\ c.client \in Decoders /\ c.heard \in Decoders
  BY <1>2, ConsumerFields
<1>4. c = [queue |-> c.queue, span |-> c.span,
           waiting |-> c.waiting, paused |-> c.paused, cut |-> c.cut,
           metaLast |-> c.metaLast, client |-> c.client, heard |-> c.heard]
  BY <1>2, ConsumerFields
<1>5. x = [queue |-> c.queue, span |-> c.span,
           waiting |-> w, paused |-> u, cut |-> c.cut,
           metaLast |-> c.metaLast, client |-> c.client, heard |-> c.heard]
  BY <1>1, <1>4 DEF Flagged
<1>6. [queue |-> c.queue, span |-> c.span,
       waiting |-> w, paused |-> u, cut |-> c.cut,
       metaLast |-> c.metaLast, client |-> c.client, heard |-> c.heard] \in Consumers
  BY <1>3, ConsumerRecord
<1>7. /\ x.queue = c.queue /\ x.span = c.span /\ x.waiting = w /\ x.paused = u
      /\ x.cut = c.cut /\ x.metaLast = c.metaLast /\ x.client = c.client /\ x.heard = c.heard
  BY <1>5
<1>8. Pending(x) /\ Drained(x)
  BY <1>7 DEF Regular, Pending, Drained
<1>9. Regular(x)
  BY <1>5, <1>6, <1>8 DEF Regular
<1> QED BY <1>1, <1>7, <1>9

\* The flags do not touch what the client hears.
LEMMA FlaggedOK ==
  ASSUME NEW c, NEW w, NEW u, NEW v, NEW y, NEW pub, NEW d, PlayerOK(c, v, pub, d),
         w \in BOOLEAN, u \in BOOLEAN, v # "away",
         w => y = "asleep" /\ ~Ready(c.queue, c.span)
  PROVE  PlayerOK(Flagged(c, w, u), y, pub, d)
<1>1. PICK x : x = Flagged(c, w, u)
  OBVIOUS
<1>2. Regular(c)
  BY DEF PlayerOK
<1>3. LET z == Flagged(c, w, u) IN
      /\ Regular(z) /\ z.waiting = w /\ z.paused = u
      /\ z.queue = c.queue /\ z.span = c.span /\ z.cut = c.cut /\ z.heard = c.heard
      /\ z.metaLast = c.metaLast
  BY <1>2, FlaggedFields
<1>4. /\ Regular(x) /\ x.waiting = w
      /\ x.queue = c.queue /\ x.span = c.span /\ x.cut = c.cut /\ x.heard = c.heard
  BY <1>1, <1>3
<1>5. pub => Tracks(x, d)
  BY <1>4 DEF PlayerOK, Tracks
<1>6. PlayerOK(x, y, pub, d)
  BY <1>4, <1>5 DEF PlayerOK
<1> QED BY <1>1, <1>6

\* The last message of a kind in q, which has n messages.
LastCases(q, kind, n) ==
  \/ /\ \A i \in 1 .. n : q[i].kind # kind
     /\ LastOf(q, kind) = <<>>
  \/ \E i \in 1 .. n :
       /\ q[i].kind = kind
       /\ \A j \in (i + 1) .. n : q[j].kind # kind
       /\ LastOf(q, kind) = <<q[i]>>

LEMMA LastOfLength ==
  ASSUME NEW q, NEW kind, q \in Seq(QueuedMessages)
  PROVE  LastCases(q, kind, Len(q))
BY LastOfCases DEF LastCases

\* q1 and q2 are the first n messages of q and the others.
Parts(q, n, q1, q2) == q1 = SubSeq(q, 1, n) /\ q2 = SubSeq(q, n + 1, Len(q))

\* The part of a queue that is taken and what is left give the headers one after
\* the other.
LEMMA CfgParts ==
  ASSUME NEW q, NEW n, NEW kind, NEW before, NEW q1, NEW q2,
         q \in Seq(QueuedMessages), n \in 1 .. Len(q), Parts(q, n, q1, q2)
  PROVE  /\ q1 \in Seq(QueuedMessages) /\ q2 \in Seq(QueuedMessages)
         /\ Cfg(q2, kind, Cfg(q1, kind, before)) = Cfg(q, kind, before)
<1>1. PICK l \in Nat : l = Len(q) /\ n \in 1 .. l
  OBVIOUS
<1>2. /\ q1 \in Seq(QueuedMessages) /\ Len(q1) = n
      /\ \A i \in 1 .. n : q1[i] = q[i]
  BY <1>1 DEF Parts
<1>3. /\ q2 \in Seq(QueuedMessages) /\ Len(q2) = l - n
      /\ \A i \in 1 .. (l - n) : q2[i] = q[n + i]
  BY <1>1 DEF Parts
<1>4. \/ /\ \A i \in 1 .. l : q[i].kind # kind
         /\ LastOf(q, kind) = <<>>
      \/ \E i \in 1 .. l :
           /\ q[i].kind = kind
           /\ \A j \in (i + 1) .. l : q[j].kind # kind
           /\ LastOf(q, kind) = <<q[i]>>
  <2>1. LastCases(q, kind, l)
    BY <1>1, LastOfLength
  <2> QED BY <2>1 DEF LastCases
<1>5. \/ /\ \A i \in 1 .. n : q1[i].kind # kind
         /\ LastOf(q1, kind) = <<>>
      \/ \E i \in 1 .. n :
           /\ q1[i].kind = kind
           /\ \A j \in (i + 1) .. n : q1[j].kind # kind
           /\ LastOf(q1, kind) = <<q1[i]>>
  <2>1. LastCases(q1, kind, n)
    BY <1>2, LastOfLength
  <2> QED BY <2>1 DEF LastCases
<1>6. \/ /\ \A i \in 1 .. (l - n) : q2[i].kind # kind
         /\ LastOf(q2, kind) = <<>>
      \/ \E i \in 1 .. (l - n) :
           /\ q2[i].kind = kind
           /\ \A j \in (i + 1) .. (l - n) : q2[j].kind # kind
           /\ LastOf(q2, kind) = <<q2[i]>>
  <2>1. PICK r : r = l - n
    OBVIOUS
  <2>2. q2 \in Seq(QueuedMessages) /\ r = Len(q2)
    BY <1>3, <2>1
  <2>3. LastCases(q2, kind, r)
    BY <2>2, LastOfLength
  <2> QED BY <2>1, <2>3 DEF LastCases
<1>7. CASE \E i \in 1 .. (l - n) : q2[i].kind = kind
  <2>1. PICK i \in 1 .. (l - n) :
          /\ q2[i].kind = kind
          /\ \A j \in (i + 1) .. (l - n) : q2[j].kind # kind
          /\ LastOf(q2, kind) = <<q2[i]>>
    BY <1>6, <1>7
  <2>2. n + i \in 1 .. l /\ q[n + i].kind = kind
    BY <1>1, <1>3, <2>1
  <2>3. PICK k \in 1 .. l :
          /\ q[k].kind = kind
          /\ \A j \in (k + 1) .. l : q[j].kind # kind
          /\ LastOf(q, kind) = <<q[k]>>
    BY <1>4, <2>2
  <2>4. k >= n + i
    BY <1>1, <2>2, <2>3
  <2>5. k - n \in 1 .. (l - n) /\ n + (k - n) = k
    BY <1>1, <2>3, <2>4
  <2>6. q2[k - n].kind = kind
    BY <1>3, <2>3, <2>5
  <2>7. k - n = i
    <3>1. PICK j : j = k - n
      OBVIOUS
    <3>2. j \in 1 .. (l - n) /\ q2[j].kind = kind /\ j >= i
      BY <1>1, <2>1, <2>4, <2>5, <2>6, <3>1
    <3>3. ~(j \in (i + 1) .. (l - n))
      BY <2>1, <3>2
    <3> QED BY <1>1, <3>1, <3>2, <3>3
  <2>8. q2[i] = q[k]
    <3>1. q2[i] = q[n + i] /\ n + i = k
      BY <1>1, <1>3, <2>1, <2>3, <2>7
    <3> QED BY <3>1
  <2>9. PICK m : m = q[k]
    OBVIOUS
  <2>10. LastOf(q2, kind) = <<m>> /\ LastOf(q, kind) = <<m>>
    BY <2>1, <2>3, <2>8, <2>9
  <2>11. <<m>> # <<>>
    OBVIOUS
  <2>12. Cfg(q2, kind, Cfg(q1, kind, before)) = Cfg(q, kind, before)
    <3>1. \A b : Cfg(q2, kind, b) = <<m>>[1].cfg /\ Cfg(q, kind, b) = <<m>>[1].cfg
      BY <2>10, <2>11 DEF Cfg
    <3> QED BY <3>1
  <2> QED BY <1>2, <1>3, <2>12
<1>8. CASE \A i \in 1 .. (l - n) : q2[i].kind # kind
  <2>1. Cfg(q2, kind, Cfg(q1, kind, before)) = Cfg(q1, kind, before)
    BY <1>6, <1>8 DEF Cfg
  <2>2. \A i \in 1 .. l : i > n => q[i].kind # kind
    <3> SUFFICES ASSUME NEW i \in 1 .. l, i > n PROVE q[i].kind # kind
      OBVIOUS
    <3>1. i - n \in 1 .. (l - n) /\ n + (i - n) = i
      BY <1>1
    <3>2. q2[i - n] = q[i]
      BY <1>3, <3>1
    <3> QED BY <1>8, <3>1, <3>2
  <2>3. LastOf(q1, kind) = LastOf(q, kind)
    <3>1. CASE \A i \in 1 .. n : q1[i].kind # kind
      <4>1. \A i \in 1 .. l : q[i].kind # kind
        BY <1>1, <1>2, <2>2, <3>1
      <4> QED BY <1>4, <1>5, <3>1, <4>1
    <3>2. CASE \E i \in 1 .. n : q1[i].kind = kind
      <4>1. PICK i \in 1 .. n :
              /\ q1[i].kind = kind
              /\ \A j \in (i + 1) .. n : q1[j].kind # kind
              /\ LastOf(q1, kind) = <<q1[i]>>
        BY <1>5, <3>2
      <4>2. i \in 1 .. l /\ q[i].kind = kind
        BY <1>1, <1>2, <4>1
      <4>3. PICK k \in 1 .. l :
              /\ q[k].kind = kind
              /\ \A j \in (k + 1) .. l : q[j].kind # kind
              /\ LastOf(q, kind) = <<q[k]>>
        BY <1>4, <4>2
      <4>4. k <= n /\ k >= i
        BY <1>1, <2>2, <4>2, <4>3
      <4>5. k \in 1 .. n /\ q1[k].kind = kind
        BY <1>1, <1>2, <4>3, <4>4
      <4>6. k = i
        BY <1>1, <4>1, <4>4, <4>5
      <4> QED BY <1>2, <4>1, <4>3, <4>6
    <3> QED BY <3>1, <3>2
  <2> QED BY <1>2, <1>3, <2>1, <2>3 DEF Cfg
<1> QED BY <1>2, <1>3, <1>7, <1>8

\* The headers after some messages are configurations.
LEMMA CfgType ==
  ASSUME NEW q, NEW d, q \in Seq(QueuedMessages), d \in Decoders
  PROVE  /\ Cfg(q, "vsh", d.vcfg) \in VideoConfigs \cup {None}
         /\ Cfg(q, "ash", d.acfg) \in AudioConfigs \cup {None}
<1>1. d.vcfg \in VideoConfigs \cup {None} /\ d.acfg \in AudioConfigs \cup {None}
  BY DEF Decoders
<1>2. PICK v, a : v = "vsh" /\ a = "ash"
  OBVIOUS
<1>3. Cfg(q, v, d.vcfg) \in VideoConfigs \cup {None}
  <2>1. \/ LastOf(q, v) = <<>>
        \/ \E i \in 1 .. Len(q) : q[i].kind = v /\ LastOf(q, v) = <<q[i]>>
    BY LastOfCases
  <2>2. ASSUME NEW i \in 1 .. Len(q), q[i].kind = v PROVE q[i].cfg \in VideoConfigs
    BY <1>2, <2>2, QueuedFit DEF Fitting
  <2> QED BY <1>1, <2>1, <2>2 DEF Cfg
<1>4. Cfg(q, a, d.acfg) \in AudioConfigs \cup {None}
  <2>1. \/ LastOf(q, a) = <<>>
        \/ \E i \in 1 .. Len(q) : q[i].kind = a /\ LastOf(q, a) = <<q[i]>>
    BY LastOfCases
  <2>2. ASSUME NEW i \in 1 .. Len(q), q[i].kind = a PROVE q[i].cfg \in AudioConfigs
    BY <1>2, <2>2, QueuedFit DEF Fitting
  <2> QED BY <1>1, <2>1, <2>2 DEF Cfg
<1> QED BY <1>2, <1>3, <1>4

\* What dump_packets takes, and the times left.
LEMMA TakenType ==
  ASSUME NEW q, NEW s, q \in Seq(QueuedMessages), q # <<>>, s \in SpansLeft(q)
  PROVE  /\ Taken(q) \in 1 .. Len(q) /\ MetaIsLast(q) \in BOOLEAN /\ s \in Spans
         /\ SubSeq(q, Taken(q) + 1, Len(q)) = <<>> /\ ~MetaIsLast(q) => s = 0
<1>1. PICK l \in Nat : l = Len(q) /\ l > 0
  OBVIOUS
<1>2. PICK n : n = Taken(q)
  OBVIOUS
<1>3. n \in 1 .. l /\ (l > MaxDump => n < l)
  BY <1>1, <1>2, Limits DEF Taken
<1>4. MetaIsLast(q) \in BOOLEAN
  BY DEF MetaIsLast
<1>5. s \in Spans
  <2>1. 0 .. Far \subseteq Spans /\ 0 \in Spans
    BY Limits DEF Spans
  <2>2. -MaxBack .. Far \subseteq Spans
    BY Limits DEF Spans
  <2> QED BY <1>1, <2>1, <2>2 DEF SpansLeft
<1>6. ASSUME SubSeq(q, n + 1, l) = <<>>, ~MetaIsLast(q) PROVE s = 0
  <2>1. PICK z : z = SubSeq(q, n + 1, l)
    OBVIOUS
  <2>2. l = n
    <3>1. Len(z) = l - n
      BY <1>1, <1>3, <2>1
    <3>2. z = <<>>
      BY <1>6, <2>1
    <3>3. Len(z) = 0
      BY <3>2
    <3> QED BY <1>1, <1>3, <3>1, <3>3
  <2>3. ~(Len(q) > MaxDump)
    BY <1>1, <1>3, <2>2
  <2>4. SpansLeft(q) = {0}
    BY <1>6, <2>3 DEF SpansLeft
  <2> QED BY <2>4
<1> QED BY <1>1, <1>2, <1>3, <1>4, <1>5, <1>6

\* dump_packets hands over the front of the queue: the headers the client will have
\* heard are those it has been sent and those left, and a queue that was emptied
\* starts at the last timestamp.
LEMMA DumpPacketsOK ==
  ASSUME NEW c, NEW s, NEW v, NEW y, NEW pub, NEW d, PlayerOK(c, v, pub, d), v # "away",
         ~c.waiting, c.queue # <<>>, s \in SpansLeft(c.queue)
  PROVE  PlayerOK(DumpPackets(c, s), y, pub, d) /\ DumpPackets(c, s).cut = c.cut
<1>1. PICK x : x = DumpPackets(c, s)
  OBVIOUS
<1>2. Regular(c) /\ c \in Consumers /\ Pending(c)
  BY DEF Regular, PlayerOK
<1>3. /\ c.queue \in Seq(QueuedMessages) /\ c.span \in Spans
      /\ c.waiting \in BOOLEAN /\ c.paused \in BOOLEAN /\ c.cut \in BOOLEAN
      /\ c.metaLast \in BOOLEAN /\ c.client \in Decoders /\ c.heard \in Decoders
  BY <1>2, ConsumerFields
<1>4. c = [queue |-> c.queue, span |-> c.span,
           waiting |-> c.waiting, paused |-> c.paused, cut |-> c.cut,
           metaLast |-> c.metaLast, client |-> c.client, heard |-> c.heard]
  BY <1>2, ConsumerFields
<1>5. PICK q, n, last : q = c.queue /\ n = Taken(q) /\ last = MetaIsLast(q)
  OBVIOUS
<1>6. PICK q1, q2 : q1 = SubSeq(q, 1, n) /\ q2 = SubSeq(q, n + 1, Len(q))
  OBVIOUS
<1>7. PICK k : k = Given(c.client, q1)
  OBVIOUS
<1>8. /\ n \in 1 .. Len(q) /\ last \in BOOLEAN /\ s \in Spans
      /\ q2 = <<>> /\ ~last => s = 0
  <2>1. q \in Seq(QueuedMessages) /\ q # <<>> /\ s \in SpansLeft(q)
    BY <1>3, <1>5
  <2>2. /\ Taken(q) \in 1 .. Len(q) /\ MetaIsLast(q) \in BOOLEAN /\ s \in Spans
        /\ SubSeq(q, Taken(q) + 1, Len(q)) = <<>> /\ ~MetaIsLast(q) => s = 0
    BY <2>1, TakenType
  <2> QED BY <1>5, <1>6, <2>2
<1>9. /\ q1 \in Seq(QueuedMessages) /\ q2 \in Seq(QueuedMessages)
      /\ \A kind, b : Cfg(q2, kind, Cfg(q1, kind, b)) = Cfg(q, kind, b)
  <2>1. q \in Seq(QueuedMessages) /\ n \in 1 .. Len(q)
    BY <1>3, <1>5, <1>8
  <2>2. ASSUME NEW kind, NEW b
        PROVE  /\ q1 \in Seq(QueuedMessages) /\ q2 \in Seq(QueuedMessages)
               /\ Cfg(q2, kind, Cfg(q1, kind, b)) = Cfg(q, kind, b)
    <3>1. Parts(q, n, q1, q2)
      BY <1>6 DEF Parts
    <3> QED BY <2>1, <3>1, CfgParts
  <2> QED BY <2>2
<1>10. /\ k \in Decoders
       /\ k.vcfg = Cfg(q1, "vsh", c.client.vcfg) /\ k.acfg = Cfg(q1, "ash", c.client.acfg)
  <2>1. PICK e, a, b : e = c.client /\ a = Cfg(q1, "vsh", e.vcfg) /\ b = Cfg(q1, "ash", e.acfg)
    OBVIOUS
  <2>2. /\ Cfg(q1, "vsh", e.vcfg) \in VideoConfigs \cup {None}
        /\ Cfg(q1, "ash", e.acfg) \in AudioConfigs \cup {None}
    BY <1>3, <1>9, <2>1, CfgType
  <2>3. e \in Decoders /\ k = [e EXCEPT !.vcfg = a, !.acfg = b]
    BY <1>3, <1>7, <2>1 DEF Given
  <2>4. k \in Decoders /\ k.vcfg = a /\ k.acfg = b
    BY <2>1, <2>2, <2>3 DEF Decoders
  <2> QED BY <2>1, <2>4
<1>11. x = [c EXCEPT !.queue = q2, !.span = s, !.metaLast = last, !.client = k]
  <2>1. x = [c EXCEPT !.queue = SubSeq(c.queue, Taken(c.queue) + 1, Len(c.queue)), !.span = s,
                      !.metaLast = MetaIsLast(c.queue),
                      !.client = Given(c.client, SubSeq(c.queue, 1, Taken(c.queue)))]
    BY <1>1 DEF DumpPackets
  <2>2. /\ SubSeq(c.queue, Taken(c.queue) + 1, Len(c.queue)) = q2
        /\ SubSeq(c.queue, 1, Taken(c.queue)) = q1 /\ MetaIsLast(c.queue) = last
    BY <1>5, <1>6
  <2> QED BY <1>7, <2>1, <2>2
<1>12. x = [queue |-> q2, span |-> s,
            waiting |-> c.waiting, paused |-> c.paused, cut |-> c.cut,
            metaLast |-> last, client |-> k, heard |-> c.heard]
  BY <1>4, <1>11
<1>13. [queue |-> q2, span |-> s,
        waiting |-> c.waiting, paused |-> c.paused, cut |-> c.cut,
        metaLast |-> last, client |-> k, heard |-> c.heard] \in Consumers
  BY <1>3, <1>8, <1>9, <1>10, ConsumerRecord
<1>14. /\ x.queue = q2 /\ x.span = s /\ x.waiting = c.waiting /\ x.cut = c.cut
       /\ x.metaLast = last /\ x.client = k /\ x.heard = c.heard
  BY <1>12
<1>15. Pending(x)
  <2>1. /\ c.heard.vcfg = Cfg(q, "vsh", c.client.vcfg)
        /\ c.heard.acfg = Cfg(q, "ash", c.client.acfg)
    BY <1>2, <1>5 DEF Pending
  <2>2. /\ c.heard.vcfg = Cfg(q2, "vsh", k.vcfg)
        /\ c.heard.acfg = Cfg(q2, "ash", k.acfg)
    BY <1>9, <1>10, <2>1
  <2> QED BY <1>14, <2>2 DEF Pending
<1>16. Drained(x)
  BY <1>8, <1>14 DEF Drained
<1>17. Regular(x)
  BY <1>12, <1>13, <1>15, <1>16 DEF Regular
<1>18. pub => Tracks(x, d)
  BY <1>14 DEF PlayerOK, Tracks
<1>19. PlayerOK(x, y, pub, d) /\ x.cut = c.cut
  BY <1>14, <1>17, <1>18 DEF PlayerOK
<1> QED BY <1>1, <1>19

\* A player given a message of the stream stays where the stream is.
LEMMA EnqueueOK ==
  ASSUME NEW c, NEW w, NEW m, NEW t, NEW d, NEW pub, NEW e,
         PlayerOK(c, w, TRUE, d), w # "away", m \in Messages, t \in Int, d \in Decoders,
         pub => e = Decode(d, m)
  PROVE  PlayerOK(Enqueue(c, m, t), w, pub, e)
<1>1. PICK x : x = Enqueue(c, m, t)
  OBVIOUS
<1>2. Regular(c) /\ Tracks(c, d)
  BY DEF PlayerOK
<1>3. LET z == Enqueue(c, m, t) IN
      /\ Regular(z)
      /\ z.waiting => c.waiting /\ ~Ready(z.queue, z.span)
      /\ z.heard.vcfg = IF m.kind = "vsh" THEN m.cfg ELSE c.heard.vcfg
      /\ z.heard.acfg = IF m.kind = "ash" THEN m.cfg ELSE c.heard.acfg
      /\ ~z.cut => z.heard = Decode(c.heard, m) /\ (c.cut => m.kind = "key")
  BY <1>2, EnqueueRegular
<1>4. Tracks(Enqueue(c, m, t), Decode(d, m))
  BY <1>2, EnqueueTracks
<1>5. Regular(x) /\ (x.waiting => c.waiting /\ ~Ready(x.queue, x.span)) /\ (pub => Tracks(x, e))
  BY <1>1, <1>3, <1>4
<1>6. PlayerOK(x, w, pub, e)
  BY <1>5 DEF PlayerOK
<1> QED BY <1>1, <1>6

LEMMA NewOK ==
  ASSUME NEW pub, NEW d
  PROVE  PlayerOK(NewConsumer, "away", pub, d)
BY NewIsRegular DEF PlayerOK

-----------------------------------------------------------------------------
(* The inductive invariant *)

Places == {"away", "loop", "pause", "play", "asleep", "sending"}
Metas == [data : BOOLEAN, vsh : VideoConfigs \cup {None}, ash : AudioConfigs \cup {None}]
Caches == [frames : Seq(Messages), video : BOOLEAN, audios : 0 .. GuessCount]

\* The caches ca hold frames only, and bring a player where the stream is.
FramesOK(ca, pub, d) ==
  /\ ca \in Caches
  /\ \A i \in 1 .. Len(ca.frames) : IsFrame(ca.frames[i])
  /\ ~GopCache => ca.frames = <<>>
  /\ pub => GopTracks(ca.frames, d)

SourceOK(pub, d, me, ca) ==
  /\ pub \in BOOLEAN /\ d \in Decoders /\ me \in Metas
  /\ ~pub => d = NewDecoder
  /\ pub => MetaTracks(me, d)
  /\ FramesOK(ca, pub, d)

PlayersOK(cs, ws, pub, d) ==
  /\ cs \in [Players -> Consumers] /\ ws \in [Players -> Places]
  /\ \A p \in Players : PlayerOK(cs[p], ws[p], pub, d)

ClientsOK ==
  /\ control \in [Players -> {"pause", "play", "close", None}]
  /\ recvError \in [Players -> BOOLEAN]

IInv ==
  /\ SourceOK(published, stream, meta, cache)
  /\ PlayersOK(consumer, pc, published, stream)
  /\ ClientsOK

LEMMA NewCacheOK ==
  ASSUME NEW pub, NEW d
  PROVE  FramesOK(NewCache, pub, d)
<1>1. PICK ca : ca = NewCache
  OBVIOUS
<1>2. ca.frames = <<>> /\ ca \in Caches
  BY <1>1, Limits DEF NewCache, Caches
<1>3. Len(<<>>) = 0 /\ 1 .. 0 = {}
  OBVIOUS
<1>4. GopTracks(ca.frames, d)
  BY <1>2, <1>3 DEF GopTracks, HasKey
<1>5. FramesOK(ca, pub, d)
  BY <1>2, <1>3, <1>4 DEF FramesOK
<1> QED BY <1>1, <1>5

\* Nothing is published.
LEMMA ClosedOK ==
  ASSUME NEW me, me \in Metas
  PROVE  SourceOK(FALSE, NewDecoder, me, NewCache)
BY NewCacheOK, NewIsRegular DEF SourceOK

LEMMA InitOK == Init => IInv
<1> SUFFICES ASSUME Init PROVE IInv
  OBVIOUS
<1>1. published = FALSE /\ stream = NewDecoder /\ meta = NewMeta /\ cache = NewCache
  BY DEF Init
<1>2. NewMeta \in Metas
  BY DEF NewMeta, Metas
<1>3. SourceOK(FALSE, NewDecoder, NewMeta, NewCache)
  BY <1>2, ClosedOK
<1>4. SourceOK(published, stream, meta, cache)
  BY <1>1, <1>3
<1>5. NewConsumer \in Consumers
  BY NewIsRegular DEF Regular
<1>6. consumer \in [Players -> Consumers] /\ pc \in [Players -> Places]
  BY <1>5 DEF Init, Places
<1>7. ASSUME NEW p \in Players PROVE PlayerOK(consumer[p], pc[p], published, stream)
  <2>1. consumer[p] = NewConsumer /\ pc[p] = "away"
    BY DEF Init
  <2>2. PlayerOK(NewConsumer, "away", published, stream)
    BY NewOK
  <2> QED BY <2>1, <2>2
<1>8. PlayersOK(consumer, pc, published, stream)
  BY <1>6, <1>7 DEF PlayersOK
<1>9. ClientsOK
  BY DEF Init, ClientsOK
<1> QED BY <1>4, <1>8, <1>9 DEF IInv

\* One player moves on.
LEMMA OneMoves ==
  ASSUME NEW cs, NEW ws, NEW pub, NEW d, NEW p, NEW x, NEW y,
         PlayersOK(cs, ws, pub, d), p \in Players, PlayerOK(x, y, pub, d), y \in Places
  PROVE  PlayersOK([cs EXCEPT ![p] = x], [ws EXCEPT ![p] = y], pub, d)
<1>1. PICK es, vs : es = [cs EXCEPT ![p] = x] /\ vs = [ws EXCEPT ![p] = y]
  OBVIOUS
<1>2. cs \in [Players -> Consumers] /\ ws \in [Players -> Places]
  BY DEF PlayersOK
<1>3. x \in Consumers
  BY DEF PlayerOK, Regular
<1>4. es \in [Players -> Consumers] /\ vs \in [Players -> Places]
  BY <1>1, <1>2, <1>3
<1>5. ASSUME NEW q \in Players PROVE PlayerOK(es[q], vs[q], pub, d)
  <2>1. CASE q = p
    BY <1>1, <1>2, <2>1
  <2>2. CASE q # p
    <3>1. PlayerOK(cs[q], ws[q], pub, d)
      BY DEF PlayersOK
    <3>2. es[q] = cs[q] /\ vs[q] = ws[q]
      BY <1>1, <1>2, <2>2
    <3> QED BY <3>1, <3>2
  <2> QED BY <2>1, <2>2
<1>6. PlayersOK(es, vs, pub, d)
  BY <1>4, <1>5 DEF PlayersOK
<1> QED BY <1>1, <1>6

\* The stream begins, or is over.
LEMMA AnotherStream ==
  ASSUME NEW cs, NEW ws, NEW pub, NEW d, NEW any, PlayersOK(cs, ws, pub, d)
  PROVE  PlayersOK(cs, ws, any, NewDecoder)
<1>1. cs \in [Players -> Consumers] /\ ws \in [Players -> Places]
  BY DEF PlayersOK
<1>2. ASSUME NEW p \in Players PROVE PlayerOK(cs[p], ws[p], any, NewDecoder)
  <2>1. PlayerOK(cs[p], ws[p], pub, d)
    BY DEF PlayersOK
  <2>2. Tracks(cs[p], NewDecoder)
    BY TracksNew
  <2> QED BY <2>1, <2>2 DEF PlayerOK
<1> QED BY <1>1, <1>2 DEF PlayersOK

\* Every player is given m, of a stream that goes on or ends with it.
LEMMA AllAreGiven ==
  ASSUME NEW m, NEW t, NEW pub, NEW e, PlayersOK(consumer, pc, TRUE, stream),
         m \in Messages, t \in Int, stream \in Decoders, pub => e = Decode(stream, m),
         ToConsumers(m, t)
  PROVE  PlayersOK(consumer', pc, pub, e)
<1>1. consumer \in [Players -> Consumers] /\ pc \in [Players -> Places]
  BY DEF PlayersOK
<1>2. ASSUME NEW p \in Players PROVE PlayerOK(consumer'[p], pc[p], pub, e)
  <2>1. PlayerOK(consumer[p], pc[p], TRUE, stream)
    BY DEF PlayersOK
  <2>2. CASE pc[p] = "away"
    <3>1. consumer'[p] = consumer[p]
      BY <2>2 DEF ToConsumers
    <3> QED BY <2>1, <2>2, <3>1 DEF PlayerOK
  <2>3. CASE pc[p] # "away"
    <3>1. consumer'[p] = Enqueue(consumer[p], m, t)
      BY <2>3 DEF ToConsumers
    <3>2. PlayerOK(Enqueue(consumer[p], m, t), pc[p], pub, e)
      BY <2>1, <2>3, EnqueueOK
    <3> QED BY <3>1, <3>2
  <2> QED BY <2>2, <2>3
<1>3. consumer' \in [Players -> Consumers]
  <2>1. \A p \in Players : consumer'[p] \in Consumers
    BY <1>2 DEF PlayerOK, Regular
  <2>2. PICK g : g = consumer'
    OBVIOUS
  <2>3. g = [p \in Players |-> g[p]]
    BY <2>2 DEF ToConsumers
  <2> QED BY <2>1, <2>2, <2>3
<1> QED BY <1>1, <1>2, <1>3 DEF PlayersOK


-----------------------------------------------------------------------------
(* The steps of the source *)

\* SrsMetaCache remembers the headers in use.
LEMMA RememberedOK ==
  ASSUME NEW m, NEW me, NEW d, me = meta, me \in Metas, m \in Messages, d \in Decoders
  PROVE  /\ Remembered(m) \in Metas
         /\ MetaTracks(me, d) => MetaTracks(Remembered(m), Decode(d, m))
<1>1. PICK e, k : e = Decode(d, m) /\ k = Remembered(m)
  OBVIOUS
<1>2. Fitting(m) /\ m.kind \in {"meta", "vsh", "ash", "key", "inter", "audio"}
  BY MessagesFit
<1>3. /\ e.vcfg = IF m.kind = "vsh" THEN m.cfg ELSE d.vcfg
      /\ e.acfg = IF m.kind = "ash" THEN m.cfg ELSE d.acfg
  BY <1>1, <1>2, DecodeResult
<1>4. k = CASE m.kind = "meta" -> [me EXCEPT !.data = TRUE]
            [] m.kind = "vsh" -> [me EXCEPT !.vsh = m.cfg]
            [] m.kind = "ash" -> [me EXCEPT !.ash = m.cfg]
            [] OTHER -> me
  BY <1>1 DEF Remembered
<1>5. /\ k \in Metas
      /\ k.vsh = IF m.kind = "vsh" THEN m.cfg ELSE me.vsh
      /\ k.ash = IF m.kind = "ash" THEN m.cfg ELSE me.ash
  BY <1>2, <1>4 DEF Metas, Fitting
<1>6. MetaTracks(me, d) => MetaTracks(k, e)
  BY <1>3, <1>5 DEF MetaTracks
<1> QED BY <1>1, <1>5, <1>6

\* What SrsGopCache makes of a frame: nothing, an empty cache or a longer one.
LEMMA CachedCases ==
  ASSUME NEW m, NEW ca, ca = cache, ca \in Caches, m \in Messages, IsFrame(m)
  PROVE  \/ Cached(m) = ca /\ (~GopCache \/ m.kind = "audio")
         \/ Cached(m) = NewCache
         \/ \E fs : /\ GopCache /\ Cached(m) \in Caches /\ Cached(m).frames = fs
                    /\ fs = IF m.kind = "key" THEN <<m>> ELSE Append(ca.frames, m)
<1>1. PICK k, a, fs : /\ k = Cached(m) /\ a = IF IsVideo(m) THEN 0 ELSE ca.audios + 1
                      /\ fs = IF m.kind = "key" THEN <<m>> ELSE Append(ca.frames, m)
  OBVIOUS
<1>2. k = IF ~GopCache \/ (~IsVideo(m) /\ ~ca.video) THEN ca
          ELSE IF a > GuessCount \/ (GopMaxFrames > 0 /\ Len(fs) > GopMaxFrames)
            THEN NewCache
          ELSE [frames |-> fs, video |-> TRUE, audios |-> a]
  BY <1>1 DEF Cached
<1>3. CASE ~GopCache \/ (~IsVideo(m) /\ ~ca.video)
  <2>1. k = ca
    BY <1>2, <1>3
  <2> QED BY <1>1, <1>3, <2>1 DEF IsVideo, IsFrame
<1>4. CASE /\ ~(~GopCache \/ (~IsVideo(m) /\ ~ca.video))
           /\ a > GuessCount \/ (GopMaxFrames > 0 /\ Len(fs) > GopMaxFrames)
  BY <1>1, <1>2, <1>4
<1>6. CASE /\ ~(~GopCache \/ (~IsVideo(m) /\ ~ca.video))
           /\ ~(a > GuessCount \/ (GopMaxFrames > 0 /\ Len(fs) > GopMaxFrames))
  <2>1. k = [frames |-> fs, video |-> TRUE, audios |-> a]
    BY <1>2, <1>6
  <2>2. ca.frames \in Seq(Messages) /\ ca.audios \in 0 .. GuessCount
    BY DEF Caches
  <2>3. <<m>> \in Seq(Messages) /\ Append(ca.frames, m) \in Seq(Messages)
    BY <2>2
  <2>4. fs \in Seq(Messages)
    BY <1>1, <2>3
  <2>5. a \in 0 .. GuessCount
    BY <1>1, <1>6, <2>2, Limits
  <2>6. k \in Caches /\ k.frames = fs
    BY <2>1, <2>4, <2>5 DEF Caches
  <2> QED BY <1>1, <1>6, <2>6
<1> QED BY <1>3, <1>4, <1>6

\* SrsGopCache goes on bringing players where the stream is.
LEMMA CachedOK ==
  ASSUME NEW m, NEW ca, NEW d, ca = cache, FramesOK(ca, TRUE, d), m \in Messages,
         d \in Decoders, IsFrame(m),
         m.kind = "key" => m.cfg = d.vcfg,
         m.kind = "inter" => m.cfg = d.vcfg /\ m.n = d.next
  PROVE  FramesOK(Cached(m), TRUE, Decode(d, m))
<1>1. PICK k, e : k = Cached(m) /\ e = Decode(d, m)
  OBVIOUS
<1>2. /\ ca \in Caches /\ ca.frames \in Seq(Messages)
      /\ \A i \in 1 .. Len(ca.frames) : IsFrame(ca.frames[i])
      /\ ~GopCache => ca.frames = <<>>
      /\ GopTracks(ca.frames, d)
  BY DEF FramesOK, Caches
<1>3. Fitting(m) /\ m.kind \in {"key", "inter", "audio"}
  BY MessagesFit DEF IsFrame
<1>4. CASE k = ca /\ (~GopCache \/ m.kind = "audio")
  <2>1. CASE ~GopCache
    <3>1. Len(<<>>) = 0 /\ 1 .. 0 = {}
      OBVIOUS
    <3>2. GopTracks(ca.frames, e)
      BY <1>2, <2>1, <3>1 DEF GopTracks, HasKey
    <3> QED BY <1>1, <1>2, <1>4, <3>2 DEF FramesOK
  <2>2. CASE m.kind = "audio"
    <3>1. e.vcfg = d.vcfg /\ e.next = d.next
      BY <1>1, <1>3, <2>2, DecodeResult
    <3>2. PICK fs : fs = ca.frames
      OBVIOUS
    <3>3. GopTracks(fs, d)
      BY <1>2, <3>2
    <3>4. GopTracks(fs, e)
      BY <3>1, <3>3, GopSame
    <3> QED BY <1>1, <1>2, <1>4, <3>2, <3>4 DEF FramesOK
  <2> QED BY <1>4, <2>1, <2>2
<1>5. CASE k = NewCache
  BY <1>1, <1>5, NewCacheOK
<1>6. ASSUME NEW fs, GopCache, k \in Caches, k.frames = fs,
             fs = IF m.kind = "key" THEN <<m>> ELSE Append(ca.frames, m)
      PROVE  FramesOK(k, TRUE, e)
  <2>1. CASE m.kind = "key"
    <3>1. GopTracks(<<m>>, Decode(d, m))
      BY <2>1, GopKey
    <3>2. fs = <<m>>
      BY <1>6, <2>1
    <3>3. \A i \in 1 .. Len(<<m>>) : <<m>>[i] = m
      OBVIOUS
    <3> QED BY <1>1, <1>6, <3>1, <3>2, <3>3 DEF FramesOK
  <2>2. CASE m.kind # "key"
    <3>1. PICK old : old = ca.frames
      OBVIOUS
    <3>2. old \in Seq(Messages) /\ GopTracks(old, d) /\ m.kind \in {"inter", "audio"}
      BY <1>2, <1>3, <2>2, <3>1
    <3>3. GopTracks(Append(old, m), Decode(d, m))
      BY <3>2, GopMore
    <3>4. fs = Append(old, m)
      BY <1>6, <2>2, <3>1
    <3>5. \A i \in 1 .. Len(Append(old, m)) :
            Append(old, m)[i] = m \/ (i \in 1 .. Len(old) /\ Append(old, m)[i] = old[i])
      BY <3>2
    <3> QED BY <1>1, <1>2, <1>6, <3>1, <3>3, <3>4, <3>5 DEF FramesOK
  <2> QED BY <2>1, <2>2
<1>7. \/ k = ca /\ (~GopCache \/ m.kind = "audio")
      \/ k = NewCache
      \/ \E fs : /\ GopCache /\ k \in Caches /\ k.frames = fs
                 /\ fs = IF m.kind = "key" THEN <<m>> ELSE Append(ca.frames, m)
  <2>1. \/ Cached(m) = ca /\ (~GopCache \/ m.kind = "audio")
        \/ Cached(m) = NewCache
        \/ \E fs : /\ GopCache /\ Cached(m) \in Caches /\ Cached(m).frames = fs
                   /\ fs = IF m.kind = "key" THEN <<m>> ELSE Append(ca.frames, m)
    BY <1>2, CachedCases
  <2> QED BY <1>1, <2>1
<1>8. FramesOK(k, TRUE, e)
  BY <1>1, <1>4, <1>5, <1>6, <1>7
<1> QED BY <1>1, <1>8

\* A header leaves the group alone, or ends it.
LEMMA HeaderOK ==
  ASSUME NEW m, NEW ca, NEW d, FramesOK(ca, TRUE, d), m \in Messages,
         d \in Decoders, ~IsFrame(m)
  PROVE  FramesOK(ca, TRUE, Decode(d, m))
<1>1. PICK e, fs : e = Decode(d, m) /\ fs = ca.frames
  OBVIOUS
<1>2. Fitting(m) /\ m.kind \notin {"key", "inter", "audio"}
  BY MessagesFit DEF IsFrame
<1>3. /\ e.vcfg = IF m.kind = "vsh" THEN m.cfg ELSE d.vcfg
      /\ e.next = IF m.kind = "vsh" THEN IF m.cfg = d.vcfg THEN d.next ELSE None ELSE d.next
  BY <1>1, <1>2, DecodeResult
<1>4. GopTracks(fs, d)
  BY <1>1 DEF FramesOK
<1>5. GopTracks(fs, e)
  <2>1. CASE e.next = None
    BY <2>1 DEF GopTracks
  <2>2. CASE e.next # None
    <3>1. e.vcfg = d.vcfg /\ e.next = d.next
      BY <1>3, <2>2
    <3> QED BY <1>4, <3>1, GopSame
  <2> QED BY <2>1, <2>2
<1> QED BY <1>1, <1>5 DEF FramesOK


LEMMA InvParts ==
  ASSUME IInv
  PROVE  /\ published \in BOOLEAN /\ stream \in Decoders /\ meta \in Metas
         /\ ~published => stream = NewDecoder
         /\ published => MetaTracks(meta, stream)
         /\ FramesOK(cache, published, stream) /\ cache \in Caches
         /\ PlayersOK(consumer, pc, published, stream)
BY DEF IInv, SourceOK, FramesOK

LEMMA OnPublishOK ==
  ASSUME IInv, OnPublish
  PROVE  IInv'
<1>1. /\ ~published /\ published' = TRUE /\ meta' = NewMeta /\ stream' = stream
      /\ cache' = cache /\ consumer' = consumer /\ pc' = pc
  BY DEF OnPublish, playerVars
<1>2. stream = NewDecoder /\ FramesOK(cache, published, stream)
  BY <1>1, InvParts
<1>3. FramesOK(cache, TRUE, NewDecoder)
  BY <1>2, NewIsRegular DEF FramesOK, GopTracks
<1>4. NewMeta \in Metas
  BY DEF NewMeta, Metas
<1>5. MetaTracks(NewMeta, NewDecoder)
  BY NewIsRegular DEF MetaTracks
<1>6. SourceOK(TRUE, NewDecoder, NewMeta, cache)
  BY <1>3, <1>4, <1>5, NewIsRegular DEF SourceOK
<1>7. SourceOK(published', stream', meta', cache')
  BY <1>1, <1>2, <1>6
<1>8. PlayersOK(consumer, pc, TRUE, NewDecoder)
  <2>1. PlayersOK(consumer, pc, published, stream)
    BY InvParts
  <2> QED BY <2>1, AnotherStream
<1>9. PlayersOK(consumer', pc', published', stream')
  BY <1>1, <1>2, <1>8
<1>10. ClientsOK'
  BY DEF IInv, ClientsOK, OnPublish, playerVars
<1> QED BY <1>7, <1>9, <1>10 DEF IInv

LEMMA OnUnpublishOK ==
  ASSUME IInv, OnUnpublish
  PROVE  IInv'
<1>1. /\ published' = FALSE /\ meta' = meta /\ stream' = NewDecoder
      /\ cache' = NewCache /\ consumer' = consumer /\ pc' = pc
  BY DEF OnUnpublish, Unpublish, playerVars
<1>2. meta \in Metas
  BY InvParts
<1>3. SourceOK(FALSE, NewDecoder, meta, NewCache)
  BY <1>2, ClosedOK
<1>4. SourceOK(published', stream', meta', cache')
  BY <1>1, <1>3
<1>5. PlayersOK(consumer, pc, FALSE, NewDecoder)
  <2>1. PlayersOK(consumer, pc, published, stream)
    BY InvParts
  <2> QED BY <2>1, AnotherStream
<1>6. PlayersOK(consumer', pc', published', stream')
  BY <1>1, <1>5
<1>7. ClientsOK'
  BY DEF IInv, ClientsOK, OnUnpublish, playerVars
<1> QED BY <1>4, <1>6, <1>7 DEF IInv

LEMMA OnMessageOK ==
  ASSUME IInv, NEW m \in Messages, NEW t \in FrameTimes \cup {0}, OnMessage(m, t)
  PROVE  IInv'
<1>1. /\ published /\ Sends(m) /\ published' = published /\ pc' = pc
      /\ stream' = Decode(stream, m) /\ meta' = Remembered(m)
      /\ cache' = IF IsFrame(m) THEN Cached(m) ELSE cache
      /\ ToConsumers(m, t)
  BY DEF OnMessage
<1>2. published = TRUE /\ t \in Int
  BY <1>1, InvParts, Limits
<1>3. /\ stream \in Decoders /\ meta \in Metas /\ MetaTracks(meta, stream)
      /\ FramesOK(cache, TRUE, stream) /\ PlayersOK(consumer, pc, TRUE, stream)
  BY <1>2, InvParts
<1>4. Remembered(m) \in Metas /\ MetaTracks(Remembered(m), Decode(stream, m))
  <2>1. PICK me : me = meta
    OBVIOUS
  <2>2. me \in Metas /\ MetaTracks(me, stream)
    BY <1>3, <2>1
  <2>3. /\ Remembered(m) \in Metas
        /\ MetaTracks(me, stream) => MetaTracks(Remembered(m), Decode(stream, m))
    BY <1>3, <2>1, <2>2, RememberedOK
  <2> QED BY <2>2, <2>3
<1>5. FramesOK(cache', TRUE, Decode(stream, m))
  <2>1. CASE IsFrame(m)
    <3>1. /\ m.kind = "key" => m.cfg = stream.vcfg
          /\ m.kind = "inter" => m.cfg = stream.vcfg /\ m.n = stream.next
      BY <1>1 DEF Sends
    <3>2. PICK ca, d : ca = cache /\ d = stream
      OBVIOUS
    <3>3. /\ FramesOK(ca, TRUE, d) /\ d \in Decoders
          /\ m.kind = "key" => m.cfg = d.vcfg
          /\ m.kind = "inter" => m.cfg = d.vcfg /\ m.n = d.next
      BY <1>3, <3>1, <3>2
    <3>4. FramesOK(Cached(m), TRUE, Decode(d, m))
      BY <2>1, <3>2, <3>3, CachedOK
    <3> QED BY <1>1, <2>1, <3>2, <3>4
  <2>2. CASE ~IsFrame(m)
    <3>1. FramesOK(cache, TRUE, Decode(stream, m))
      BY <1>3, <2>2, HeaderOK
    <3> QED BY <1>1, <2>2, <3>1
  <2> QED BY <2>1, <2>2
<1>6. Decode(stream, m) \in Decoders
  BY <1>3, MessagesFit, DecodeResult
<1>7. SourceOK(TRUE, Decode(stream, m), Remembered(m), cache')
  BY <1>4, <1>5, <1>6 DEF SourceOK
<1>8. SourceOK(published', stream', meta', cache')
  BY <1>1, <1>2, <1>7
<1>9. PlayersOK(consumer', pc, TRUE, Decode(stream, m))
  BY <1>1, <1>2, <1>3, AllAreGiven
<1>10. PlayersOK(consumer', pc', published', stream')
  BY <1>1, <1>2, <1>9
<1>11. ClientsOK'
  BY DEF IInv, ClientsOK, OnMessage
<1> QED BY <1>8, <1>10, <1>11 DEF IInv

LEMMA HubFailsOK ==
  ASSUME IInv, NEW m \in Messages, HubFails(m)
  PROVE  IInv'
<1>1. /\ published /\ published' = FALSE /\ stream' = NewDecoder /\ cache' = NewCache
      /\ meta' = IF m.kind \in {"meta", "vsh"} THEN Remembered(m) ELSE meta
      /\ pc' = pc
      /\ IF m.kind = "meta" THEN ToConsumers(m, 0) ELSE consumer' = consumer
  BY DEF HubFails, Unpublish
<1>2. published = TRUE
  BY <1>1, InvParts
<1>3. stream \in Decoders /\ meta \in Metas /\ PlayersOK(consumer, pc, TRUE, stream)
  BY <1>2, InvParts
<1>4. meta' \in Metas
  <2>1. PICK me : me = meta
    OBVIOUS
  <2>2. me \in Metas
    BY <1>3, <2>1
  <2>3. Remembered(m) \in Metas
    BY <1>3, <2>1, <2>2, RememberedOK
  <2> QED BY <1>1, <1>3, <2>3
<1>5. SourceOK(FALSE, NewDecoder, meta', NewCache)
  BY <1>4, ClosedOK
<1>6. SourceOK(published', stream', meta', cache')
  BY <1>1, <1>5
<1>7. PlayersOK(consumer', pc, FALSE, NewDecoder)
  <2>1. CASE m.kind = "meta"
    <3>1. ToConsumers(m, 0) /\ 0 \in Int
      BY <1>1, <2>1
    <3>2. PICK none, e : none = FALSE /\ e = NewDecoder
      OBVIOUS
    <3>3. none => e = Decode(stream, m)
      BY <3>2
    <3>4. PlayersOK(consumer', pc, none, e)
      BY <1>3, <3>1, <3>3, AllAreGiven
    <3> QED BY <3>2, <3>4
  <2>2. CASE m.kind # "meta"
    <3>1. PlayersOK(consumer, pc, FALSE, NewDecoder)
      BY <1>3, AnotherStream
    <3> QED BY <1>1, <2>2, <3>1
  <2> QED BY <2>1, <2>2
<1>8. PlayersOK(consumer', pc', published', stream')
  BY <1>1, <1>7
<1>9. ClientsOK'
  BY DEF IInv, ClientsOK, HubFails
<1> QED BY <1>6, <1>8, <1>9 DEF IInv


-----------------------------------------------------------------------------
(* The steps of a player *)

LEMMA PlayerParts ==
  ASSUME IInv, NEW p \in Players
  PROVE  /\ PlayerOK(consumer[p], pc[p], published, stream)
         /\ consumer[p] \in Consumers /\ pc[p] \in Places
         /\ consumer[p].paused \in BOOLEAN /\ consumer[p].waiting \in BOOLEAN
         /\ consumer[p].waiting => pc[p] = "asleep"
         /\ control[p] \in {"pause", "play", "close", None}
<1>1. PlayersOK(consumer, pc, published, stream) /\ ClientsOK
  BY DEF IInv
<1>2. PlayerOK(consumer[p], pc[p], published, stream) /\ pc[p] \in Places
  BY <1>1 DEF PlayersOK
<1>3. consumer[p] \in Consumers /\ (consumer[p].waiting => pc[p] = "asleep")
  BY <1>2 DEF PlayerOK, Regular
<1>4. consumer[p].paused \in BOOLEAN /\ consumer[p].waiting \in BOOLEAN
  BY <1>3, ConsumerFields
<1> QED BY <1>1, <1>2, <1>3, <1>4 DEF ClientsOK

\* One player moves and its consumer becomes x.
LEMMA MoveOK ==
  ASSUME IInv, NEW p, NEW x, NEW y, p \in Players, y \in Places,
         PlayerOK(x, y, published, stream),
         consumer' = [consumer EXCEPT ![p] = x], pc' = [pc EXCEPT ![p] = y],
         UNCHANGED sourceVars, ClientsOK'
  PROVE  IInv'
<1>1. PlayersOK(consumer, pc, published, stream) /\ SourceOK(published, stream, meta, cache)
  BY DEF IInv
<1>2. PlayersOK([consumer EXCEPT ![p] = x], [pc EXCEPT ![p] = y], published, stream)
  BY <1>1, OneMoves
<1>3. published' = published /\ stream' = stream /\ meta' = meta /\ cache' = cache
  BY DEF sourceVars
<1>4. PlayersOK(consumer', pc', published', stream')
  BY <1>2, <1>3
<1>5. SourceOK(published', stream', meta', cache')
  BY <1>1, <1>3
<1> QED BY <1>4, <1>5 DEF IInv

\* The ways the flags are set.
LEMMA FlagForms ==
  ASSUME NEW c, NEW w, NEW u, c \in Consumers
  PROVE  /\ [c EXCEPT !.paused = u] = Flagged(c, c.waiting, u)
         /\ [c EXCEPT !.waiting = w] = Flagged(c, w, c.paused)
BY DEF Flagged, Consumers

LEMMA LeaveOK ==
  ASSUME IInv, NEW p \in Players, Leave(p), UNCHANGED sourceVars
  PROVE  IInv'
<1>1. PlayerOK(NewConsumer, "away", published, stream) /\ "away" \in Places
  BY NewOK DEF Places
<1>2. ClientsOK'
  BY DEF IInv, ClientsOK, Leave
<1>3. consumer' = [consumer EXCEPT ![p] = NewConsumer] /\ pc' = [pc EXCEPT ![p] = "away"]
  BY DEF Leave
<1> QED BY <1>1, <1>2, <1>3, MoveOK

\* A player goes on to y without a change of its consumer.
LEMMA StayOK ==
  ASSUME IInv, NEW p, NEW y, p \in Players, y \in Places, pc[p] # "away",
         ~consumer[p].waiting, consumer' = consumer, pc' = [pc EXCEPT ![p] = y],
         UNCHANGED sourceVars, ClientsOK'
  PROVE  IInv'
<1>1. PICK c : c = consumer[p]
  OBVIOUS
<1>2. PlayerOK(c, pc[p], published, stream) /\ ~c.waiting
  BY <1>1, PlayerParts
<1>3. PlayerOK(c, y, published, stream)
  BY <1>2 DEF PlayerOK
<1>4. consumer \in [Players -> Consumers]
  BY InvParts DEF PlayersOK
<1>5. consumer' = [consumer EXCEPT ![p] = c]
  BY <1>1, <1>4
<1> QED BY <1>3, <1>5, MoveOK

\* A player goes on to y with its flags changed.
LEMMA FlagOK ==
  ASSUME IInv, NEW p, NEW w, NEW u, NEW y, p \in Players, w \in BOOLEAN, u \in BOOLEAN,
         y \in Places, pc[p] # "away",
         w => y = "asleep" /\ ~Ready(consumer[p].queue, consumer[p].span),
         consumer' = [consumer EXCEPT ![p] = Flagged(consumer[p], w, u)],
         pc' = [pc EXCEPT ![p] = y], UNCHANGED sourceVars, ClientsOK'
  PROVE  IInv'
<1>1. PICK c, v : c = consumer[p] /\ v = pc[p]
  OBVIOUS
<1>2. /\ PlayerOK(c, v, published, stream) /\ v # "away"
      /\ w => y = "asleep" /\ ~Ready(c.queue, c.span)
  BY <1>1, PlayerParts
<1>3. PlayerOK(Flagged(c, w, u), y, published, stream)
  BY <1>2, FlaggedOK
<1>4. PICK x : x = Flagged(c, w, u)
  OBVIOUS
<1>5. PlayerOK(x, y, published, stream) /\ consumer' = [consumer EXCEPT ![p] = x]
  BY <1>1, <1>3, <1>4
<1> QED BY <1>5, MoveOK

LEMMA ProceedOK ==
  ASSUME IInv, NEW p \in Players, pc[p] # "away", ~consumer[p].waiting, Proceed(p),
         UNCHANGED sourceVars
  PROVE  IInv'
<1>1. CASE recvError[p] /\ Leave(p)
  BY <1>1, LeaveOK
<1>2. CASE /\ pc' = [pc EXCEPT ![p] = "loop"]
           /\ UNCHANGED <<consumer, control, recvError>>
  <2>1. PICK y : y = "loop"
    OBVIOUS
  <2>2. y \in Places /\ pc' = [pc EXCEPT ![p] = y] /\ consumer' = consumer
    BY <1>2, <2>1 DEF Places
  <2>3. ClientsOK'
    BY <1>2 DEF IInv, ClientsOK
  <2> QED BY <2>2, <2>3, StayOK
<1>3. CASE /\ consumer[p].queue # <<>>
           /\ pc' = [pc EXCEPT ![p] = "sending"]
           /\ \E s \in SpansLeft(consumer[p].queue) :
                consumer' = [consumer EXCEPT ![p] = DumpPackets(consumer[p], s)]
           /\ UNCHANGED <<control, recvError>>
  <2>1. PICK s \in SpansLeft(consumer[p].queue) :
          consumer' = [consumer EXCEPT ![p] = DumpPackets(consumer[p], s)]
    BY <1>3
  <2>2. PICK c, v, y, x : /\ c = consumer[p] /\ v = pc[p] /\ y = "sending"
                          /\ x = DumpPackets(c, s)
    OBVIOUS
  <2>3. /\ PlayerOK(c, v, published, stream) /\ v # "away" /\ ~c.waiting
        /\ c.queue # <<>> /\ s \in SpansLeft(c.queue)
    BY <1>3, <2>1, <2>2, PlayerParts
  <2>4. PlayerOK(DumpPackets(c, s), y, published, stream)
    BY <2>3, DumpPacketsOK
  <2>5. PlayerOK(x, y, published, stream) /\ y \in Places
    BY <2>2, <2>4 DEF Places
  <2>6. ClientsOK'
    BY <1>3 DEF IInv, ClientsOK
  <2>7. consumer' = [consumer EXCEPT ![p] = x] /\ pc' = [pc EXCEPT ![p] = y]
    BY <1>3, <2>1, <2>2
  <2> QED BY <2>5, <2>6, <2>7, MoveOK
<1> QED BY <1>1, <1>2, <1>3 DEF Proceed

\* A control message is taken out of the receive queue.
LEMMA PumpOK ==
  ASSUME IInv, NEW p \in Players, Pump(p)
  PROVE  IInv'
<1>1. pc[p] = "loop" /\ control[p] # None /\ UNCHANGED sourceVars
  BY DEF Pump
<1>2. CASE Leave(p)
  BY <1>1, <1>2, LeaveOK
<1>3. CASE /\ control[p] # "close" /\ pc' = [pc EXCEPT ![p] = control[p]]
           /\ control' = [control EXCEPT ![p] = None]
           /\ UNCHANGED <<consumer, recvError>>
  <2>1. PICK y : y = control[p]
    OBVIOUS
  <2>2. y \in Places /\ ~consumer[p].waiting
    BY <1>1, <1>3, <2>1, PlayerParts DEF Places
  <2>3. ClientsOK'
    BY <1>3 DEF IInv, ClientsOK
  <2>4. pc' = [pc EXCEPT ![p] = y] /\ consumer' = consumer
    BY <1>3, <2>1
  <2> QED BY <1>1, <2>2, <2>3, <2>4, StayOK
<1> QED BY <1>2, <1>3 DEF Pump

\* A pause or a play takes effect.
LEMMA AnsweredOK ==
  ASSUME IInv, NEW p \in Players, Answered(p)
  PROVE  IInv' /\ consumer'[p].cut = consumer[p].cut
<1>1. PICK c, w, u, y : c = consumer[p] /\ w = FALSE /\ u = (pc[p] = "pause") /\ y = "loop"
  OBVIOUS
<1>2. /\ pc[p] # "away" /\ c \in Consumers /\ c.waiting = w /\ w \in BOOLEAN /\ u \in BOOLEAN
      /\ PlayerOK(c, pc[p], published, stream)
  <2>1. pc[p] \in {"pause", "play"}
    BY DEF Answered
  <2>2. /\ consumer[p] \in Consumers /\ consumer[p].waiting \in BOOLEAN
        /\ consumer[p].waiting => pc[p] = "asleep"
        /\ PlayerOK(consumer[p], pc[p], published, stream)
    BY PlayerParts
  <2> QED BY <1>1, <2>1, <2>2
<1>3. [c EXCEPT !.paused = u] = Flagged(c, c.waiting, u)
  BY <1>2, FlagForms
<1>4. consumer \in [Players -> Consumers]
  BY InvParts DEF PlayersOK
<1>5. consumer' = [consumer EXCEPT ![p] = [c EXCEPT !.paused = u]]
  BY <1>1, <1>4 DEF Answered
<1>6. consumer' = [consumer EXCEPT ![p] = Flagged(c, w, u)]
  BY <1>2, <1>3, <1>5
<1>7. consumer' = [consumer EXCEPT ![p] = Flagged(consumer[p], w, u)]
  BY <1>1, <1>6
<1>8. /\ pc' = [pc EXCEPT ![p] = y] /\ y \in Places /\ UNCHANGED sourceVars /\ ClientsOK'
  BY <1>1 DEF Answered, Places, IInv, ClientsOK
<1>9. w => y = "asleep" /\ ~Ready(consumer[p].queue, consumer[p].span)
  BY <1>1
<1>10. IInv'
  BY <1>2, <1>7, <1>8, <1>9, FlagOK
<1>11. Flagged(c, w, u).cut = c.cut
  BY <1>2 DEF Flagged, Consumers
<1> QED BY <1>1, <1>4, <1>6, <1>10, <1>11

\* The player goes to sleep, or for a nap.
LEMMA SleepOK ==
  ASSUME IInv, NEW p \in Players, pc[p] = "loop",
         consumer[p].paused \/ ~Ready(consumer[p].queue, consumer[p].span),
         pc' = [pc EXCEPT ![p] = "asleep"],
         consumer' = [consumer EXCEPT ![p].waiting = ~consumer[p].paused],
         UNCHANGED sourceVars, ClientsOK'
  PROVE  IInv'
<1>1. PICK c, w, u, y : c = consumer[p] /\ w = (~c.paused) /\ u = c.paused /\ y = "asleep"
  OBVIOUS
<1>2. c \in Consumers /\ u \in BOOLEAN
  BY <1>1, PlayerParts
<1>3. w \in BOOLEAN /\ (w => ~Ready(c.queue, c.span))
  BY <1>1, <1>2
<1>4. [c EXCEPT !.waiting = w] = Flagged(c, w, c.paused)
  BY <1>2, FlagForms
<1>5. consumer \in [Players -> Consumers]
  BY InvParts DEF PlayersOK
<1>6. consumer' = [consumer EXCEPT ![p] = [c EXCEPT !.waiting = w]]
  BY <1>1, <1>5
<1>7. consumer' = [consumer EXCEPT ![p] = Flagged(c, w, u)]
  BY <1>1, <1>4, <1>6
<1>8. consumer' = [consumer EXCEPT ![p] = Flagged(consumer[p], w, u)]
  BY <1>1, <1>7
<1>9. pc' = [pc EXCEPT ![p] = y] /\ y \in Places /\ pc[p] # "away"
  BY <1>1 DEF Places
<1>10. w => y = "asleep" /\ ~Ready(consumer[p].queue, consumer[p].span)
  BY <1>1, <1>3
<1>11. IInv'
  BY <1>2, <1>3, <1>8, <1>9, <1>10, FlagOK
<1> QED BY <1>11

LEMMA WaitOK ==
  ASSUME IInv, NEW p \in Players, Wait(p)
  PROVE  IInv'
<1>1. pc[p] = "loop" /\ UNCHANGED sourceVars
  BY DEF Wait
<1>2. CASE Proceed(p)
  <2>1. ~consumer[p].waiting
    BY <1>1, PlayerParts
  <2> QED BY <1>1, <1>2, <2>1, ProceedOK
<1>3. CASE /\ consumer[p].paused \/ ~Ready(consumer[p].queue, consumer[p].span)
           /\ pc' = [pc EXCEPT ![p] = "asleep"]
           /\ consumer' = [consumer EXCEPT ![p].waiting = ~consumer[p].paused]
           /\ UNCHANGED <<control, recvError>>
  <2>1. ClientsOK'
    BY <1>3 DEF IInv, ClientsOK
  <2> QED BY <1>1, <1>3, <2>1, SleepOK
<1> QED BY <1>2, <1>3 DEF Wait

LEMMA WakesOK ==
  ASSUME IInv, NEW p \in Players, Wakes(p)
  PROVE  IInv'
<1>1. pc[p] # "away" /\ ~consumer[p].waiting /\ Proceed(p) /\ UNCHANGED sourceVars
  BY DEF Wakes
<1> QED BY <1>1, ProceedOK

LEMMA SentOK ==
  ASSUME IInv, NEW p \in Players, Sent(p)
  PROVE  IInv'
<1>1. PICK y : y = "loop"
  OBVIOUS
<1>2. pc[p] # "away" /\ ~consumer[p].waiting
  BY PlayerParts DEF Sent
<1>3. /\ y \in Places /\ pc' = [pc EXCEPT ![p] = y] /\ consumer' = consumer
      /\ ClientsOK' /\ UNCHANGED sourceVars
  BY <1>1 DEF Sent, IInv, ClientsOK, Places
<1> QED BY <1>2, <1>3, StayOK

\* The receive coroutine signals the player.
LEMMA WakeUpOK ==
  ASSUME IInv, NEW p \in Players, pc[p] # "away", WakeUp(p), UNCHANGED <<sourceVars, pc>>,
         ClientsOK'
  PROVE  IInv'
<1>1. PICK c, w, u, y : c = consumer[p] /\ w = FALSE /\ u = c.paused /\ y = pc[p]
  OBVIOUS
<1>2. c \in Consumers /\ u \in BOOLEAN /\ y \in Places
  BY <1>1, PlayerParts
<1>3. [c EXCEPT !.waiting = w] = Flagged(c, w, c.paused)
  BY <1>2, FlagForms
<1>4. consumer \in [Players -> Consumers] /\ pc \in [Players -> Places]
  BY InvParts DEF PlayersOK
<1>5. consumer' = [consumer EXCEPT ![p] = [c EXCEPT !.waiting = w]]
  BY <1>1, <1>4 DEF WakeUp
<1>6. consumer' = [consumer EXCEPT ![p] = Flagged(c, w, u)]
  BY <1>1, <1>3, <1>5
<1>7. consumer' = [consumer EXCEPT ![p] = Flagged(consumer[p], w, u)]
  BY <1>1, <1>6
<1>8. pc' = [pc EXCEPT ![p] = y] /\ UNCHANGED sourceVars
  BY <1>1, <1>4
<1>9. w \in BOOLEAN /\ (w => y = "asleep" /\ ~Ready(consumer[p].queue, consumer[p].span))
  BY <1>1
<1> QED BY <1>2, <1>7, <1>8, <1>9, FlagOK

LEMMA ReceivesOK ==
  ASSUME IInv, NEW p \in Players,
         (\E m \in {"pause", "play", "close"} : Receives(p, m)) \/ ReceiveFails(p)
  PROVE  IInv'
<1>1. pc[p] # "away" /\ WakeUp(p) /\ UNCHANGED <<sourceVars, pc>>
  BY DEF Receives, ReceiveFails
<1>2. ClientsOK'
  BY DEF Receives, ReceiveFails, IInv, ClientsOK
<1> QED BY <1>1, <1>2, WakeUpOK

LEMMA StartPlayingOK ==
  ASSUME IInv, NEW p \in Players, NEW t \in FrameTimes, StartPlaying(p, t)
  PROVE  IInv'
<1>1. PICK c, ms, x, y, frames, me, d :
        /\ c = NewConsumer /\ ms = IF published THEN Dumped ELSE <<>>
        /\ x = EnqueueAll(c, ms, t) /\ y = "loop"
        /\ frames = cache.frames /\ me = meta /\ d = stream
  OBVIOUS
<1>2. Regular(c) /\ c.cut /\ ~c.waiting
  BY <1>1, NewIsRegular
<1>3. t \in Int
  BY Limits
<1>4. /\ frames \in Seq(Messages) /\ me.data \in BOOLEAN
      /\ me.vsh \in VideoConfigs \cup {None} /\ me.ash \in AudioConfigs \cup {None}
  BY <1>1, InvParts DEF Metas, Caches
<1>5. PICK h : Dump(Dumped, h, me, frames)
  BY <1>1, <1>4, DumpedShape
<1>6. ms \in Seq(Messages)
  <2>1. Dumped \in Seq(Messages) /\ <<>> \in Seq(Messages)
    BY <1>5 DEF Dump
  <2> QED BY <1>1, <2>1
<1>7. PICK f : IsRun(f, c, ms, t) /\ EnqueueAll(c, ms, t) = f[Len(ms)]
  BY <1>2, <1>3, <1>6, EnqueueAllRun
<1>8. x = f[Len(ms)] /\ Regular(x)
  <2>1. Len(ms) \in 0 .. Len(ms)
    BY <1>6
  <2> QED BY <1>1, <1>7, <2>1 DEF IsRun
<1>9. ~x.waiting
  BY <1>2, <1>3, <1>6, <1>7, <1>8, RunFlags
<1>10. ASSUME published PROVE Tracks(x, d)
  <2>1. Dump(ms, h, me, frames)
    BY <1>1, <1>5, <1>10
  <2>2. /\ MetaTracks(me, d) /\ GopTracks(frames, d) /\ d \in Decoders
        /\ \A i \in 1 .. Len(frames) : IsFrame(frames[i])
    BY <1>1, <1>10, InvParts DEF FramesOK
  <2>3. Tracks(f[Len(ms)], d)
    BY <1>2, <1>3, <1>4, <1>7, <2>1, <2>2, JoinTracks
  <2> QED BY <1>8, <2>3
<1>11. PlayerOK(x, y, published, stream) /\ y \in Places
  BY <1>1, <1>8, <1>9, <1>10 DEF PlayerOK, Places
<1>12. consumer' = [consumer EXCEPT ![p] = x] /\ pc' = [pc EXCEPT ![p] = y]
  BY <1>1 DEF StartPlaying
<1>13. ClientsOK' /\ UNCHANGED sourceVars
  BY DEF StartPlaying, IInv, ClientsOK
<1> QED BY <1>11, <1>12, <1>13, MoveOK


-----------------------------------------------------------------------------
(* The theorems *)

LEMMA NextOK == IInv /\ [Next]_vars => IInv'
<1> SUFFICES ASSUME IInv, [Next]_vars PROVE IInv'
  OBVIOUS
<1>1. CASE UNCHANGED vars
  BY <1>1 DEF vars, sourceVars, playerVars, IInv, ClientsOK
<1>2. CASE OnPublish
  BY <1>2, OnPublishOK
<1>3. CASE OnUnpublish
  BY <1>3, OnUnpublishOK
<1>4. CASE \E m \in Messages, t \in FrameTimes \cup {0} : OnMessage(m, t)
  BY <1>4, OnMessageOK
<1>5. CASE \E m \in Messages : HubFails(m)
  BY <1>5, HubFailsOK
<1>6. ASSUME NEW p \in Players,
             \/ \E t \in FrameTimes : StartPlaying(p, t)
             \/ PlayerStep(p)
             \/ SendFails(p)
             \/ \E m \in {"pause", "play", "close"} : Receives(p, m)
             \/ ReceiveFails(p)
      PROVE  IInv'
  <2>1. CASE \E t \in FrameTimes : StartPlaying(p, t)
    BY <2>1, StartPlayingOK
  <2>2. CASE PlayerStep(p)
    BY <2>2, PumpOK, AnsweredOK, WaitOK, WakesOK, SentOK DEF PlayerStep
  <2>3. CASE SendFails(p)
    BY <2>3, LeaveOK DEF SendFails
  <2>4. CASE (\E m \in {"pause", "play", "close"} : Receives(p, m)) \/ ReceiveFails(p)
    BY <2>4, ReceivesOK
  <2> QED BY <1>6, <2>1, <2>2, <2>3, <2>4
<1> QED BY <1>1, <1>2, <1>3, <1>4, <1>5, <1>6 DEF Next

LEMMA Invariant == Spec => []IInv
BY InitOK, NextOK, PTL DEF Spec

\* The caches, queues and coroutines keep their types, only a player asleep in
\* wait has a consumer that waits, and none sleeps over more than mw_latency of
\* the stream (SrsLiveConsumer::enqueue, wait and wakeup).
THEOREM DeliveryCorrect == Spec => []DeliveryInv
<1>1. IInv => DeliveryInv
  <2> SUFFICES ASSUME IInv PROVE DeliveryInv
    OBVIOUS
  <2>1. /\ published \in BOOLEAN /\ stream \in Decoders
        /\ meta \in [data : BOOLEAN, vsh : VideoConfigs \cup {None},
                     ash : AudioConfigs \cup {None}]
        /\ cache.frames \in Seq(Messages)
        /\ cache.video \in BOOLEAN /\ cache.audios \in 0 .. GuessCount
    BY InvParts DEF Metas, Caches
  <2>2. ASSUME NEW p \in Players
        PROVE  /\ consumer[p].queue \in Seq({Queued(m) : m \in Messages})
               /\ consumer[p].span # None => consumer[p].span \in Int /\ consumer[p].span <= Far
               /\ consumer[p].client \in Decoders /\ consumer[p].heard \in Decoders
               /\ pc[p] \in {"away", "loop", "pause", "play", "asleep", "sending"}
               /\ consumer[p].waiting => pc[p] = "asleep"
               /\ consumer[p].waiting => ~Ready(consumer[p].queue, consumer[p].span)
    <3>1. /\ PlayerOK(consumer[p], pc[p], published, stream)
          /\ consumer[p] \in Consumers /\ pc[p] \in Places
      BY PlayerParts
    <3>2. /\ consumer[p].queue \in Seq(QueuedMessages)
          /\ consumer[p].span \in Spans
          /\ consumer[p].client \in Decoders /\ consumer[p].heard \in Decoders
      BY <3>1, ConsumerFields
    <3>3. consumer[p].span # None => consumer[p].span \in Int /\ consumer[p].span <= Far
      BY <3>2 DEF Spans
    <3> QED BY <3>1, <3>2, <3>3 DEF QueuedMessages, Places, PlayerOK
  <2>3. /\ control \in [Players -> {"pause", "play", "close", None}]
        /\ recvError \in [Players -> BOOLEAN]
    BY DEF IInv, ClientsOK
  <2>4. TypeOK
    BY <2>1, <2>2, <2>3 DEF TypeOK
  <2>5. SleepersAreShort
    BY <2>2 DEF SleepersAreShort
  <2> QED BY <2>4, <2>5 DEF DeliveryInv
<1> QED BY <1>1, Invariant, PTL

\* Whenever a player joined and whatever its queue had to drop, it ends up with
\* the sequence headers the publisher uses (SrsMetaCache::dumps, shrink).
THEOREM HeadersArrive == Spec => []HeadersReach
<1>1. IInv => HeadersReach
  <2> SUFFICES ASSUME IInv, NEW p \in Players, published, pc[p] # "away"
               PROVE  /\ stream.vcfg # None => consumer[p].heard.vcfg = stream.vcfg
                      /\ stream.acfg # None => consumer[p].heard.acfg = stream.acfg
    BY DEF HeadersReach
  <2>1. PlayerOK(consumer[p], pc[p], published, stream)
    BY PlayerParts
  <2> QED BY <2>1 DEF PlayerOK, Tracks
<1> QED BY <1>1, Invariant, PTL

\* A player whose group was not cut decodes the publisher's next frame, also one
\* that joined in the middle of the group (SrsGopCache, consumer_dumps).
THEOREM PlayersInStep == Spec => []InStep
<1>1. IInv => InStep
  <2> SUFFICES ASSUME IInv, NEW p \in Players, published, pc[p] # "away",
                      stream.next # None, ~consumer[p].cut
               PROVE  consumer[p].heard.next = stream.next
    BY DEF InStep
  <2>1. PlayerOK(consumer[p], pc[p], published, stream)
    BY PlayerParts
  <2> QED BY <2>1 DEF PlayerOK, Tracks
<1> QED BY <1>1, Invariant, PTL

\* A message does not overflow a queue that has been emptied.
LEMMA EmptyHasRoom ==
  ASSUME NEW c, NEW m, NEW t, Regular(c), m \in Messages, t \in Int, t <= QueueLength,
         c.queue = <<>>, ~c.metaLast, ~c.cut
  PROVE  ~Enqueue(c, m, t).cut
<1>1. PICK e, all : e = Enqueue(c, m, t) /\ all = Append(c.queue, Queued(m))
  OBVIOUS
<1>2. c \in Consumers /\ c.span \in {0, None}
  BY DEF Regular, Drained
<1>3. Outcome(c, m, t, Append(c.queue, Queued(m)), Enqueue(c, m, t))
  BY <1>2, EnqueueOutcome
<1>4. Outcome(c, m, t, all, e)
  BY <1>1, <1>3
<1>5. Later(0, t) <= QueueLength /\ Later(0, t) \in Int
  BY Limits DEF Later
<1>6. SpanWith(c, m, t) \in {0, None, Later(0, t)}
  BY <1>2 DEF SpanWith
<1>7. ~Overflows(c, m, t)
  BY <1>5, <1>6, Limits DEF Overflows
<1>8. e.cut = (c.cut /\ m.kind # "key")
  BY <1>4, <1>7 DEF Outcome
<1> QED BY <1>1, <1>8

LEMMA CutStays ==
  ASSUME IInv, Next, \A t \in FrameTimes : t <= QueueLength,
         NEW p \in Players, pc[p] # "away", consumer[p].queue = <<>>,
         ~consumer[p].metaLast, ~consumer[p].cut
  PROVE  ~consumer'[p].cut \/ pc'[p] = "away"
<1> DEFINE Goal == ~consumer'[p].cut \/ pc'[p] = "away"
<1>1. /\ consumer \in [Players -> Consumers] /\ pc \in [Players -> Places]
  BY InvParts DEF PlayersOK
<1>2. Regular(consumer[p])
  BY PlayerParts DEF PlayerOK
<1>3. CASE consumer' = consumer
  BY <1>3
<1>4. ASSUME NEW m \in Messages, NEW t \in Int, t <= QueueLength, ToConsumers(m, t)
      PROVE  Goal
  <2>1. consumer'[p] = Enqueue(consumer[p], m, t)
    BY <1>4 DEF ToConsumers
  <2>2. ~Enqueue(consumer[p], m, t).cut
    BY <1>2, <1>4, EmptyHasRoom
  <2> QED BY <2>1, <2>2
<1>5. CASE OnPublish \/ OnUnpublish
  BY <1>3, <1>5 DEF OnPublish, OnUnpublish, playerVars
<1>6. CASE \E m \in Messages, t \in FrameTimes \cup {0} : OnMessage(m, t)
  <2>1. PICK m \in Messages, t \in FrameTimes \cup {0} : ToConsumers(m, t)
    BY <1>6 DEF OnMessage
  <2>2. t \in Int /\ t <= QueueLength
    <3>1. CASE t \in FrameTimes
      BY <3>1, Limits
    <3>2. CASE t = 0
      BY <3>2, Limits
    <3> QED BY <3>1, <3>2
  <2> QED BY <1>4, <2>1, <2>2
<1>7. CASE \E m \in Messages : HubFails(m)
  <2>1. PICK m \in Messages : ToConsumers(m, 0) \/ consumer' = consumer
    BY <1>7 DEF HubFails
  <2>2. 0 \in Int /\ 0 <= QueueLength
    BY Limits
  <2> QED BY <1>3, <1>4, <2>1, <2>2
<1>8. ASSUME NEW q \in Players, NEW x, NEW y, consumer' = [consumer EXCEPT ![q] = x],
             pc' = [pc EXCEPT ![q] = y], q = p => ~x.cut \/ y = "away"
      PROVE  Goal
  BY <1>1, <1>8
<1>9. ASSUME NEW q \in Players, Leave(q) PROVE Goal
  <2>1. PICK x, y : x = NewConsumer /\ y = "away"
    OBVIOUS
  <2>2. consumer' = [consumer EXCEPT ![q] = x] /\ pc' = [pc EXCEPT ![q] = y]
    BY <1>9, <2>1 DEF Leave
  <2> QED BY <1>8, <2>1, <2>2
<1>10. ASSUME NEW q \in Players, Proceed(q), pc[q] # "away", ~consumer[q].waiting
       PROVE  Goal
  <2>1. CASE Leave(q)
    BY <1>9, <2>1
  <2>2. CASE consumer' = consumer
    BY <1>3, <2>2
  <2>3. CASE /\ consumer[q].queue # <<>>
             /\ \E s \in SpansLeft(consumer[q].queue) :
                  consumer' = [consumer EXCEPT ![q] = DumpPackets(consumer[q], s)]
    <3>1. q # p
      BY <2>3
    <3>2. consumer'[p] = consumer[p]
      BY <1>1, <2>3, <3>1
    <3> QED BY <3>2
  <2> QED BY <1>10, <2>1, <2>2, <2>3 DEF Proceed
<1>11. ASSUME NEW q \in Players, NEW t \in FrameTimes, StartPlaying(q, t) PROVE Goal
  <2>1. q # p
    BY <1>11 DEF StartPlaying
  <2>2. consumer'[p] = consumer[p]
    BY <1>1, <1>11, <2>1 DEF StartPlaying
  <2> QED BY <2>2
<1>12. ASSUME NEW q \in Players, Pump(q) \/ Answered(q) PROVE Goal
  <2>1. CASE Leave(q)
    BY <1>9, <2>1
  <2>2. CASE consumer' = consumer
    BY <1>3, <2>2
  <2>3. CASE Answered(q)
    <3>1. consumer'[q].cut = consumer[q].cut
      BY <2>3, AnsweredOK
    <3>2. q # p => consumer'[p] = consumer[p]
      BY <1>1, <2>3 DEF Answered
    <3> QED BY <3>1, <3>2
  <2> QED BY <1>12, <2>1, <2>2, <2>3 DEF Pump
<1>13. ASSUME NEW q \in Players, Wait(q) \/ Wakes(q) PROVE Goal
  <2>1. pc[q] # "away" /\ (Proceed(q) => ~consumer[q].waiting)
    BY <1>13, PlayerParts DEF Wait, Wakes
  <2>2. CASE Proceed(q)
    BY <1>10, <2>1, <2>2
  <2>3. CASE consumer' = [consumer EXCEPT ![q].waiting = ~consumer[q].paused]
    <3>1. consumer'[p].cut = consumer[p].cut
      BY <1>1, <2>3 DEF Consumers
    <3> QED BY <3>1
  <2> QED BY <1>13, <2>2, <2>3 DEF Wait, Wakes
<1>14. ASSUME NEW q \in Players, Sent(q) PROVE Goal
  BY <1>3, <1>14 DEF Sent
<1>15. ASSUME NEW q \in Players, WakeUp(q) PROVE Goal
  <2>1. consumer'[p].cut = consumer[p].cut
    BY <1>1, <1>15 DEF WakeUp, Consumers
  <2> QED BY <2>1
<1>16. ASSUME NEW q \in Players,
             \/ \E t \in FrameTimes : StartPlaying(q, t)
             \/ PlayerStep(q)
             \/ SendFails(q)
             \/ \E m \in {"pause", "play", "close"} : Receives(q, m)
             \/ ReceiveFails(q)
       PROVE Goal
  <2>1. CASE \E t \in FrameTimes : StartPlaying(q, t)
    BY <1>11, <2>1
  <2>2. CASE PlayerStep(q)
    BY <1>12, <1>13, <1>14, <2>2 DEF PlayerStep
  <2>3. CASE SendFails(q)
    BY <1>9, <2>3 DEF SendFails
  <2>4. CASE (\E m \in {"pause", "play", "close"} : Receives(q, m)) \/ ReceiveFails(q)
    BY <1>15, <2>4 DEF Receives, ReceiveFails
  <2> QED BY <1>16, <2>1, <2>2, <2>3, <2>4
<1> QED BY <1>5, <1>6, <1>7, <1>16 DEF Next

\* A player that has been sent all there was loses nothing with the next message,
\* as long as one frame takes no longer than queue_length: SrsRtmpJitter turns
\* larger steps into small ones, and queue_length is in seconds
\* (dump_packets moves av_start_time_ to the last timestamp).
THEOREM PromptPlayersLoseNothing ==
  ASSUME \A t \in FrameTimes : t <= QueueLength
  PROVE  Spec => PromptLoseNothing
<1>1. IInv /\ [Next]_vars =>
        [\A p \in Players :
           LET c == consumer[p] IN
           pc[p] # "away" /\ c.queue = <<>> /\ ~c.metaLast /\ ~c.cut
             => ~consumer'[p].cut \/ pc'[p] = "away"]_vars
  <2> SUFFICES ASSUME IInv, Next, NEW p \in Players, pc[p] # "away",
                      consumer[p].queue = <<>>, ~consumer[p].metaLast, ~consumer[p].cut
               PROVE  ~consumer'[p].cut \/ pc'[p] = "away"
    OBVIOUS
  <2> QED BY CutStays
<1> QED BY <1>1, Invariant, PTL DEF Spec, PromptLoseNothing
=============================================================================
