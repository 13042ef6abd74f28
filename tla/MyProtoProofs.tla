---------------------------- MODULE MyProtoProofs ----------------------------
(***************************************************************************)
(* Proofs about MyProtoAdapter for every stream of frames, every way to    *)
(* cut it into datagrams, every loss and every configuration.  ParserInv   *)
(* says that the bytes in flight belong to frames that were sent and that  *)
(* the payload under construction fits its header; StreamInv relates what  *)
(* was handed to the source to lastDts and to the heartbeat.  Undisturbed  *)
(* says, as long as no byte was lost, that the parser stands where the     *)
(* bytes it took end in the stream that was sent: the rest of that stream  *)
(* is what is in its input and on the wire.                                *)
(***************************************************************************)
EXTENDS MyProtoAdapter, SequenceTheorems, TLAPS

ByteSet == (1 .. Len(sent)) \X Nat
Output == [frame : Nat, dts : Nat]

BytesOK ==
  input \in Seq(ByteSet) /\ wire \in Seq(ByteSet) /\ payload \in Seq(ByteSet)

PayloadFits ==
  state # "HEADER" =>
    /\ sent[header].length <= MaxPayload
    /\ Len(payload) <= sent[header].length

ParserInv == TypeOK /\ BytesOK /\ PayloadFits

PushedBehind ==
  /\ pushed \in Seq(Output)
  /\ \A i \in 1 .. Len(pushed) : pushed[i].dts <= lastDts

\* While feed runs, a started stream was heard within the heartbeat.
GateHolds ==
  (started /\ ~config.hotStart) =>
    /\ silence # None
    /\ (busy /\ Heartbeat > 0) => silence <= Heartbeat

StreamInv == PushedBehind /\ DtsMonotone /\ GateHolds

-----------------------------------------------------------------------------
\* Headers sent by the client are frames.
LEMMA SentFrame ==
  ASSUME TypeOK, NEW k \in 1 .. Len(sent)
  PROVE  /\ sent[k] \in FrameType
         /\ sent[k].length \in Nat /\ sent[k].timestamp \in Nat
         /\ sent[k].sets \subseteq ParameterSets
<1>1. sent \in Seq(Frames)
  BY DEF TypeOK
<1>2. sent[k] \in Frames
  BY <1>1, ElementOfSeq
<1>3. QED BY <1>2, MyProtoAssumption DEF MyProtoAssumption, FrameType

\* A part of a sequence.
LEMMA PartOf ==
  ASSUME NEW S, NEW s \in Seq(S), NEW m \in Nat \ {0}, NEW n \in 0 .. Len(s)
  PROVE  /\ SubSeq(s, m, n) \in Seq(S)
         /\ Len(SubSeq(s, m, n)) = IF m <= n THEN n - m + 1 ELSE 0
<1>1. \A i \in m .. n : s[i] \in S
  BY ElementOfSeq
<1>2. QED BY <1>1, SubSeqProperties

\* Appending one datagram to another buffer.
LEMMA Joined ==
  ASSUME NEW S, NEW s \in Seq(S), NEW t \in Seq(S)
  PROVE  s \o t \in Seq(S) /\ Len(s \o t) = Len(s) + Len(t)
BY ConcatProperties

\* Compose only adds bytes of the new frame.
LEMMA ComposeParser ==
  ASSUME ParserInv, NEW f \in Frames, Compose(f)
  PROVE  ParserInv'
<1> DEFINE k == Len(sent) + 1
           new == Bytes(k, 0, HeaderSize + f.length)
<1>1. /\ sent \in Seq(Frames) /\ Len(sent) \in Nat
      /\ input \in Seq(ByteSet) /\ wire \in Seq(ByteSet) /\ payload \in Seq(ByteSet)
  BY LenProperties DEF ParserInv, TypeOK, BytesOK
<1>2. /\ sent' \in Seq(Frames) /\ Len(sent') = k
      /\ \A i \in 1 .. Len(sent) : sent'[i] = sent[i]
  BY <1>1, AppendProperties DEF Compose
<1>3. ByteSet \subseteq ByteSet'
  BY <1>1, <1>2 DEF ByteSet
<1>4. HeaderSize \in Nat /\ f.length \in Nat
  BY MyProtoAssumption DEF MyProtoAssumption, FrameType
<1>5. new \in Seq(ByteSet')
  <2>1. \A i \in 1 .. (HeaderSize + f.length) : <<k, 0 + i - 1>> \in ByteSet'
    BY <1>1, <1>2, <1>4 DEF ByteSet
  <2>2. new = [i \in 1 .. (HeaderSize + f.length) |-> <<k, 0 + i - 1>>]
    BY <1>4 DEF Bytes
  <2> HIDE DEF new
  <2>3. new \in [1 .. (HeaderSize + f.length) -> ByteSet']
    BY <2>1, <2>2
  <2>4. HeaderSize + f.length \in Nat
    BY <1>4
  <2>5. QED BY <2>3, <2>4, SeqDef
<1>6. input \in Seq(ByteSet') /\ wire \in Seq(ByteSet') /\ payload \in Seq(ByteSet')
  BY <1>1, <1>3, SeqMonotonic
<1>7. BytesOK'
  <2>1. wire' = wire \o new /\ input' = input /\ payload' = payload
    BY DEF Compose, parserVars
  <2> HIDE DEF new
  <2>2. wire \o new \in Seq(ByteSet')
    BY <1>5, <1>6, ConcatProperties
  <2>3. QED BY <1>6, <2>1, <2>2 DEF BytesOK
<1>8. TypeOK'
  <2>1. faults' \in Nat
    BY DEF ParserInv, TypeOK, Compose, Fault
  <2>2. QED BY <1>1, <1>2, <2>1 DEF ParserInv, TypeOK, Compose, parserVars, streamVars
<1>9. PayloadFits'
  BY <1>1, <1>2 DEF ParserInv, TypeOK, PayloadFits, Compose, parserVars
<1>10. QED BY <1>7, <1>8, <1>9 DEF ParserInv

\* A datagram is a part of the client's bytes.
LEMMA DatagramParser ==
  ASSUME ParserInv, NEW n \in Sizes
  PROVE  /\ SubSeq(wire, 1, n) \in Seq(ByteSet)
         /\ SubSeq(wire, n + 1, Len(wire)) \in Seq(ByteSet)
<1>1. wire \in Seq(ByteSet) /\ Len(wire) \in Nat
  BY LenProperties DEF ParserInv, BytesOK
<1>2. n \in 1 .. Len(wire)
  BY <1>1, MyProtoAssumption DEF Sizes, MyProtoAssumption
<1>3. QED BY <1>1, <1>2, PartOf

\* feed appends the datagram.
LEMMA FeedParser ==
  ASSUME ParserInv, NEW n \in Sizes, Feed(n)
  PROVE  ParserInv'
<1>1. /\ input \in Seq(ByteSet) /\ Len(input) \in Nat
      /\ SubSeq(wire, 1, n) \in Seq(ByteSet) /\ Len(SubSeq(wire, 1, n)) \in Nat
      /\ SubSeq(wire, n + 1, Len(wire)) \in Seq(ByteSet)
  BY DatagramParser, LenProperties DEF ParserInv, BytesOK
<1>2. input' \in Seq(ByteSet) /\ Len(input') >= Len(input) /\ Len(input') \in Nat
  <2>1. input' = input \o SubSeq(wire, 1, n)
    BY DEF Feed
  <2>2. /\ input' \in Seq(ByteSet)
        /\ Len(input') = Len(input) + Len(SubSeq(wire, 1, n))
    BY <1>1, <2>1, Joined
  <2>3. QED BY <1>1, <2>2
<1>3. ByteSet' = ByteSet
  BY DEF ByteSet, Feed
<1>4. BytesOK'
  BY <1>1, <1>2, <1>3 DEF ParserInv, BytesOK, Feed
<1>5. TypeOK'
  BY <1>1, <1>2 DEF ParserInv, TypeOK, Feed
<1>6. PayloadFits'
  BY DEF ParserInv, PayloadFits, Feed
<1>7. QED BY <1>4, <1>5, <1>6 DEF ParserInv

\* A lost datagram only leaves the client.
LEMMA LoseParser ==
  ASSUME ParserInv, NEW n \in Sizes, Lose(n)
  PROVE  ParserInv'
<1>1. SubSeq(wire, n + 1, Len(wire)) \in Seq(ByteSet)
  BY DatagramParser
<1>2. ByteSet' = ByteSet
  BY DEF ByteSet, Lose
<1>3. BytesOK'
  BY <1>1, <1>2 DEF ParserInv, BytesOK, Lose, parserVars
<1>4. TypeOK'
  BY DEF ParserInv, TypeOK, Lose, Fault, parserVars, streamVars
<1>5. PayloadFits'
  BY DEF ParserInv, PayloadFits, Lose, parserVars
<1>6. QED BY <1>3, <1>4, <1>5 DEF ParserInv

\* parseHeader: an accepted header names a frame that was sent.
LEMMA ParseHeaderParser ==
  ASSUME ParserInv, ParseHeader
  PROVE  ParserInv'
<1> DEFINE first == input[pos + 1]
<1>1. /\ input \in Seq(ByteSet) /\ Len(input) \in Nat /\ pos \in 0 .. Len(input)
      /\ Len(sent) \in Nat
  BY LenProperties DEF ParserInv, TypeOK, BytesOK
<1>2. HeaderSize \in Nat /\ StructSize \in Nat /\ HeaderSize <= StructSize
      /\ MaxPayload \in Nat
  BY MyProtoAssumption DEF MyProtoAssumption
<1>3. /\ Left > 0 /\ state = "HEADER" /\ config' = config /\ streamVars' = streamVars
      /\ clientVars' = clientVars /\ input' = input
  BY DEF ParseHeader, InLoop, clientVars, parserVars, streamVars
<1>4. first[1] \in 1 .. Len(sent)
  <2>1. pos + 1 \in 1 .. Len(input)
    BY <1>1, <1>3 DEF Left
  <2>2. first \in ByteSet
    BY <1>1, <2>1, ElementOfSeq
  <2>3. QED BY <2>2 DEF ByteSet
<1>5. ByteSet' = ByteSet
  BY <1>3 DEF ByteSet, clientVars
<1>6. CASE Left < StructSize
  <2>1. parserVars' = parserVars
    BY <1>6 DEF ParseHeader, parserVars
  <2>2. QED BY <1>3, <1>5, <2>1 DEF ParserInv, TypeOK, BytesOK, PayloadFits,
              clientVars, parserVars, streamVars
<1>7. CASE Left >= StructSize /\ Accepts(first)
  <2>1. /\ pos' = pos + HeaderSize /\ header' = first[1] /\ payload' = <<>>
        /\ state' = "PAYLOAD" /\ busy' = busy
    BY <1>1, <1>2, <1>7 DEF ParseHeader, Left
  <2>2. pos' \in 0 .. Len(input)
    BY <1>1, <1>2, <1>7, <2>1 DEF Left
  <2>3. sent[first[1]].length \in Nat /\ sent[first[1]].length <= MaxPayload
    BY <1>4, <1>7, SentFrame DEF Accepts, ParserInv
  <2> HIDE DEF first
  <2>4. BytesOK'
    BY <1>3, <1>5, <2>1, EmptySeq DEF ParserInv, BytesOK, clientVars
  <2>5. TypeOK'
    BY <1>1, <1>2, <1>3, <1>4, <2>1, <2>2 DEF ParserInv, TypeOK, States,
       clientVars, streamVars
  <2>6. PayloadFits'
    BY <1>3, <2>1, <2>3 DEF PayloadFits, clientVars
  <2>7. QED BY <2>4, <2>5, <2>6 DEF ParserInv
<1>8. CASE Left >= StructSize /\ ~Accepts(first)
  <2>1. /\ pos' = 0 /\ busy' = FALSE /\ header' = header /\ payload' = payload
        /\ state' = state
    BY <1>1, <1>2, <1>8 DEF ParseHeader, Left
  <2>2. busy' \in BOOLEAN /\ pos' \in 0 .. Len(input)
    <3>1. busy' \in BOOLEAN
      BY <2>1, Zenon
    <3>2. QED BY <1>1, <2>1, <3>1
  <2>3. /\ header' = header /\ payload' = payload /\ state' = state
    BY <2>1
  <2>4. TypeOK'
    BY <1>3, <2>2, <2>3 DEF ParserInv, TypeOK, clientVars, streamVars
  <2>5. BytesOK' /\ PayloadFits'
    BY <1>3, <1>5, <2>3 DEF ParserInv, BytesOK, PayloadFits, clientVars
  <2>6. QED BY <2>4, <2>5 DEF ParserInv
<1>9. QED BY <1>1, <1>2, <1>6, <1>7, <1>8 DEF Left

\* parsePayload never takes more than the header announced.
LEMMA ParsePayloadParser ==
  ASSUME ParserInv, ParsePayload
  PROVE  ParserInv'
<1> DEFINE n == IF Needed < Left THEN Needed ELSE Left
           part == SubSeq(input, pos + 1, pos + n)
<1>1. /\ input \in Seq(ByteSet) /\ Len(input) \in Nat /\ pos \in 0 .. Len(input)
      /\ payload \in Seq(ByteSet) /\ Len(payload) \in Nat /\ Len(sent) \in Nat
  BY LenProperties DEF ParserInv, TypeOK, BytesOK
<1>2. /\ Left > 0 /\ state = "PAYLOAD" /\ config' = config /\ streamVars' = streamVars
      /\ clientVars' = clientVars /\ input' = input /\ busy' = busy /\ header' = header
      /\ payload' = payload \o part /\ pos' = pos + n
      /\ state' \in {"PAYLOAD", "COMPLETE"}
  BY DEF ParsePayload, InLoop
<1>3. /\ header \in 1 .. Len(sent) /\ sent[header].length <= MaxPayload
      /\ Len(payload) <= sent[header].length
  BY <1>1, <1>2 DEF ParserInv, TypeOK, PayloadFits
<1>4. sent[header].length \in Nat /\ MaxPayload \in Nat
  BY <1>3, SentFrame, MyProtoAssumption DEF ParserInv, MyProtoAssumption
<1>5. n \in Nat /\ n <= sent[header].length - Len(payload) /\ pos + n \in 0 .. Len(input)
  <2>1. Left = Len(input) - pos /\ Left \in Nat
    BY <1>1 DEF Left
  <2>2. Needed = sent[header].length - Len(payload) /\ Needed \in Nat
    BY <1>1, <1>3, <1>4 DEF Needed
  <2>3. n \in Nat /\ n <= Needed /\ n <= Left
    BY <2>1, <2>2
  <2> HIDE DEF n
  <2>4. QED BY <1>1, <2>1, <2>2, <2>3
<1> HIDE DEF n
<1>6. part \in Seq(ByteSet) /\ Len(part) = n
  BY <1>1, <1>5, PartOf
<1> HIDE DEF part
<1>7. payload' \in Seq(ByteSet) /\ Len(payload') <= sent[header].length
  <2>1. payload' \in Seq(ByteSet) /\ Len(payload') = Len(payload) + n
    BY <1>1, <1>2, <1>6, Joined
  <2>2. QED BY <1>1, <1>4, <1>5, <2>1
<1>8. Len(payload') \in Nat
  BY <1>7, LenProperties
<1>9. ByteSet' = ByteSet
  BY <1>2 DEF ByteSet, clientVars
<1>10. BytesOK'
  BY <1>2, <1>7, <1>9 DEF ParserInv, BytesOK, clientVars
<1>11. TypeOK'
  BY <1>2, <1>3, <1>4, <1>5, <1>7, <1>8 DEF ParserInv, TypeOK, States,
     clientVars, streamVars
<1>12. PayloadFits'
  BY <1>2, <1>3, <1>7 DEF PayloadFits, clientVars
<1>13. QED BY <1>10, <1>11, <1>12 DEF ParserInv

\* The end of feed erases what was taken apart.
LEMMA ReturnParser ==
  ASSUME ParserInv, Return
  PROVE  ParserInv'
<1>1. input \in Seq(ByteSet) /\ Len(input) \in Nat /\ pos \in 0 .. Len(input)
  BY LenProperties DEF ParserInv, TypeOK, BytesOK
<1>2. input' \in Seq(ByteSet) /\ Len(input') \in Nat
  <2>1. SubSeq(input, pos + 1, Len(input)) \in Seq(ByteSet)
    BY <1>1, PartOf
  <2>2. QED BY <2>1, LenProperties DEF Return
<1>3. ByteSet' = ByteSet
  BY DEF ByteSet, Return, clientVars
<1>4. BytesOK'
  BY <1>2, <1>3 DEF ParserInv, BytesOK, Return, clientVars
<1>5. TypeOK'
  <2>1. busy' \in BOOLEAN /\ pos' \in 0 .. Len(input')
    <3>1. busy' \in BOOLEAN
      BY Zenon DEF Return
    <3>2. QED BY <1>2, <3>1 DEF Return
  <2>2. /\ config' = config /\ clientVars' = clientVars /\ state' = state
        /\ header' = header /\ payload' = payload /\ streamVars' = streamVars
    BY DEF Return, clientVars, streamVars
  <2>3. QED BY <2>1, <2>2 DEF ParserInv, TypeOK, clientVars, streamVars
<1>6. PayloadFits'
  BY DEF ParserInv, PayloadFits, Return, clientVars
<1>7. QED BY <1>4, <1>5, <1>6 DEF ParserInv

-----------------------------------------------------------------------------
\* The effect of createStdFrame on timestamps, gate and output.
LEMMA CreateResult ==
  ASSUME TypeOK, Complete
  PROVE  LET f == sent[header] IN
         /\ header \in 1 .. Len(sent)
         /\ base' \in Nat /\ (\A s \in DOMAIN params' : params'[s] \in 1 .. Len(sent))
         /\ DOMAIN params' \subseteq ParameterSets
         /\ \/ /\ UNCHANGED <<lastDts, silence, pushed>>
               /\ (started' /\ ~config.hotStart) => started
            \/ /\ lastDts' \in Nat /\ lastDts' >= lastDts /\ silence' = 0
               /\ pushed' = pushed \o Handed(header, lastDts', params')
               /\ (~started /\ ~config.hotStart) => IsKey(f)
<1> DEFINE f == sent[header]
           origin == IF base = None THEN f.timestamp ELSE base
           dts == f.timestamp - origin
           pts == IF f.bFrame THEN dts + BFrameDelay ELSE dts
           valid == ValidTimestamp(dts, pts)
           open == started \/ config.hotStart \/ IsKey(f)
           dropped == config.dropB /\ f.bFrame /\ ~IsKey(f)
<1>1. header \in 1 .. Len(sent)
  <2>1. Len(sent) \in Nat
    BY LenProperties DEF TypeOK
  <2>2. QED BY <2>1 DEF TypeOK, Complete, InLoop
<1>2. /\ f.timestamp \in Nat /\ f.sets \subseteq ParameterSets
  BY <1>1, SentFrame
<1>3. /\ base' = origin
      /\ params' = IF valid THEN Learned(header) ELSE params
      /\ started' = (started \/ (valid /\ open))
      /\ IF valid /\ open /\ ~dropped
           THEN /\ lastDts' = dts
                /\ silence' = 0
                /\ pushed' = pushed \o Handed(header, dts, params')
           ELSE UNCHANGED <<lastDts, silence, pushed>>
  BY DEF Complete, CreateStdFrame
<1>4. origin \in Nat /\ dts \in Int /\ lastDts \in Nat
  BY <1>2 DEF TypeOK, None
<1>5. /\ \A s \in DOMAIN params' : params'[s] \in 1 .. Len(sent)
      /\ DOMAIN params' \subseteq ParameterSets
  <2>1. /\ DOMAIN params \subseteq ParameterSets
        /\ \A s \in DOMAIN params : params[s] \in 1 .. Len(sent)
    BY DEF TypeOK
  <2>2. CASE params' = params
    BY <2>1, <2>2 DEF TypeOK
  <2>3. CASE params' = [s \in DOMAIN params \cup f.sets |->
                          IF s \in f.sets THEN header ELSE params[s]]
    <3>1. DOMAIN params' = DOMAIN params \cup f.sets
      BY <2>3
    <3>2. QED BY <1>1, <1>2, <2>1, <2>3, <3>1
  <2>4. QED BY <1>3, <2>2, <2>3 DEF Learned, Updated
<1>6. CASE valid /\ open /\ ~dropped
  <2>1. dts >= 0 /\ dts >= lastDts
    BY <1>4, <1>6 DEF ValidTimestamp
  <2>2. lastDts' = dts /\ silence' = 0 /\ pushed' = pushed \o Handed(header, dts, params')
    BY <1>3, <1>6
  <2>3. (~started /\ ~config.hotStart) => IsKey(f)
    BY <1>6
  <2>4. base' \in Nat
    BY <1>3, <1>4
  <2> HIDE DEF dts
  <2>5. QED BY <1>1, <1>4, <1>5, <2>1, <2>2, <2>3, <2>4
<1>7. CASE ~(valid /\ open /\ ~dropped)
  <2>1. (started' /\ ~config.hotStart) => started
    BY <1>3, <1>7
  <2>2. QED BY <1>1, <1>3, <1>4, <1>5, <1>7, <2>1
<1>8. QED BY <1>6, <1>7

\* createStdFrame leaves the bytes alone.
LEMMA CompleteParser ==
  ASSUME ParserInv, Complete
  PROVE  ParserInv'
<1>1. /\ config' = config /\ clientVars' = clientVars /\ input' = input /\ pos' = pos
      /\ busy' = busy /\ header' = header /\ payload' = payload
      /\ state' = "HEADER" /\ made' = header
  BY DEF Complete, clientVars
<1>2. /\ header \in 1 .. Len(sent) /\ base' \in Nat
      /\ (\A s \in DOMAIN params' : params'[s] \in 1 .. Len(sent))
      /\ DOMAIN params' \subseteq ParameterSets
      /\ lastDts' \in Nat /\ silence' \in 0 .. (Heartbeat + 1) \cup {None}
  <2>1. TypeOK /\ Heartbeat \in Nat /\ lastDts \in Nat
        /\ silence \in 0 .. (Heartbeat + 1) \cup {None}
    BY MyProtoAssumption DEF ParserInv, TypeOK, MyProtoAssumption
  <2>2. QED BY <2>1, CreateResult
<1>3. started' \in BOOLEAN
  <2>1. started \in BOOLEAN
    BY DEF ParserInv, TypeOK
  <2>2. QED BY <2>1 DEF Complete, CreateStdFrame
<1>4. ByteSet' = ByteSet
  BY <1>1 DEF ByteSet, clientVars
<1>5. TypeOK'
  <2>1. Len(sent) \in Nat
    BY LenProperties DEF ParserInv, TypeOK
  <2>2. QED BY <1>1, <1>2, <1>3, <2>1 DEF ParserInv, TypeOK, States, clientVars
<1>6. BytesOK' /\ PayloadFits'
  BY <1>1, <1>4 DEF ParserInv, BytesOK, PayloadFits, clientVars
<1>7. QED BY <1>5, <1>6 DEF ParserInv

\* A new adapter starts from nothing.
LEMMA ReplaceParser ==
  ASSUME ParserInv, Replace
  PROVE  ParserInv'
<1>1. Len(sent) \in Nat /\ MaxPayload \in Nat /\ Len(<<>>) = 0
  BY LenProperties, MyProtoAssumption DEF ParserInv, TypeOK, MyProtoAssumption
<1>2. started' \in BOOLEAN
  BY Zenon DEF Replace
<1>3. faults' \in Nat
  BY DEF ParserInv, TypeOK, Replace, Fault
<1>4. /\ pos' = 0 /\ input' = <<>> /\ payload' = <<>> /\ state' = "HEADER"
      /\ header' = 0 /\ made' = 0 /\ base' = None /\ lastDts' = 0 /\ silence' = None
      /\ config' = config /\ sent' = sent /\ wire' = wire /\ busy' = busy
      /\ DOMAIN params' = {}
  BY DEF Replace
<1>5. TypeOK'
  BY <1>1, <1>2, <1>3, <1>4 DEF ParserInv, TypeOK, States
<1>6. ByteSet' = ByteSet
  BY <1>4 DEF ByteSet
<1>7. BytesOK' /\ PayloadFits'
  BY <1>4, <1>6, EmptySeq DEF ParserInv, BytesOK, PayloadFits
<1>8. QED BY <1>5, <1>7 DEF ParserInv

\* Time touches the silence only.
LEMMA TickParser ==
  ASSUME ParserInv, Tick
  PROVE  ParserInv'
<1>1. Heartbeat \in Nat
  BY MyProtoAssumption DEF MyProtoAssumption
<1>2. silence' \in 0 .. (Heartbeat + 1) \cup {None}
  BY <1>1 DEF ParserInv, TypeOK, Tick, None
<1>3. /\ config' = config /\ clientVars' = clientVars /\ parserVars' = parserVars
      /\ made' = made /\ started' = started /\ base' = base /\ lastDts' = lastDts
      /\ params' = params
  BY DEF Tick, clientVars, parserVars
<1>4. TypeOK'
  BY <1>2, <1>3 DEF ParserInv, TypeOK, clientVars, parserVars
<1>5. ByteSet' = ByteSet
  BY <1>3 DEF ByteSet, clientVars
<1>6. BytesOK' /\ PayloadFits'
  BY <1>3, <1>5 DEF ParserInv, BytesOK, PayloadFits, clientVars, parserVars
<1>7. QED BY <1>4, <1>6 DEF ParserInv

\* Nothing sent and nothing read.
LEMMA InitParser ==
  ASSUME Init
  PROVE  ParserInv
<1>1. /\ sent = <<>> /\ wire = <<>> /\ faults = 0 /\ input = <<>> /\ pos = 0
      /\ state = "HEADER" /\ header = 0 /\ payload = <<>> /\ made = 0
      /\ base = None /\ lastDts = 0 /\ silence = None /\ DOMAIN params = {}
      /\ config \in Configs
  BY DEF Init
<1>2. busy \in BOOLEAN /\ started \in BOOLEAN
  BY Zenon DEF Init
<1>3. MaxPayload \in Nat /\ Len(<<>>) = 0
  BY MyProtoAssumption DEF MyProtoAssumption
<1>4. TypeOK
  BY <1>1, <1>2, <1>3 DEF TypeOK, States
<1>5. BytesOK /\ PayloadFits
  BY <1>1, EmptySeq DEF BytesOK, PayloadFits
<1>6. QED BY <1>4, <1>5 DEF ParserInv

\* Every step keeps the parser's invariant.
LEMMA NextParser ==
  ASSUME ParserInv, [Next]_vars
  PROVE  ParserInv'
<1>1. CASE \E f \in Frames : Compose(f)
  BY <1>1, ComposeParser
<1>2. CASE \E n \in Sizes : Feed(n)
  BY <1>2, FeedParser
<1>3. CASE \E n \in Sizes : Lose(n)
  BY <1>3, LoseParser
<1>4. CASE Loop
  BY <1>4, ParseHeaderParser, ParsePayloadParser, CompleteParser, ReturnParser DEF Loop
<1>5. CASE Replace
  BY <1>5, ReplaceParser
<1>6. CASE Tick
  BY <1>6, TickParser
<1>7. CASE UNCHANGED vars
  <2>1. /\ config' = config /\ clientVars' = clientVars /\ parserVars' = parserVars
        /\ streamVars' = streamVars
    BY <1>7 DEF vars, clientVars, parserVars, streamVars
  <2>2. ByteSet' = ByteSet
    BY <2>1 DEF ByteSet, clientVars
  <2>3. QED BY <2>1, <2>2 DEF ParserInv, TypeOK, BytesOK, PayloadFits,
              clientVars, parserVars, streamVars
<1>8. QED BY <1>1, <1>2, <1>3, <1>4, <1>5, <1>6, <1>7 DEF Next

\* The parser's invariant holds in every reachable state.
LEMMA SpecParser == Spec => []ParserInv
<1>1. Init => ParserInv
  BY InitParser
<1>2. ParserInv /\ [Next]_vars => ParserInv'
  BY NextParser
<1>3. QED BY <1>1, <1>2, PTL DEF Spec

\* The adapter's members keep their types, and no payload outgrows the limit
\* parseHeader checks (parseHeader, parsePayload).
THEOREM MyProtoTypeCorrect == Spec => []TypeOK
<1>1. ParserInv => TypeOK
  BY DEF ParserInv
<1>2. QED BY <1>1, SpecParser, PTL

-----------------------------------------------------------------------------
\* Everything handed out for one frame has its dts, the frame itself last.
LEMMA HandedResult ==
  ASSUME NEW k \in Nat, NEW d \in Nat, NEW known,
         \A s \in DOMAIN known : known[s] \in Nat
  PROVE  LET h == Handed(k, d, known) IN
         /\ h \in Seq(Output) /\ Len(h) >= 1 /\ Len(h) \in Nat
         /\ \A i \in 1 .. Len(h) : h[i].dts = d
         /\ h[Len(h)].frame = k
<1> DEFINE Same == {o \in Output : o.dts = d}
           again == IF config.hotStart /\ IsKey(sent[k])
                      THEN Resent("SPS", d, known) \o Resent("PPS", d, known) ELSE <<>>
           own == <<[frame |-> k, dts |-> d]>>
           h == again \o own
<1>1. Resent("SPS", d, known) \in Seq(Same) /\ Resent("PPS", d, known) \in Seq(Same)
  <2>1. SUFFICES ASSUME NEW s PROVE Resent(s, d, known) \in Seq(Same)
    OBVIOUS
  <2>2. CASE s \in DOMAIN known
    <3>1. [frame |-> known[s], dts |-> d] \in Same
      BY <2>2 DEF Output
    <3> HIDE DEF Same
    <3>2. QED BY <2>2, <3>1 DEF Resent
  <2>3. CASE s \notin DOMAIN known
    BY <2>3, EmptySeq DEF Resent
  <2>4. QED BY <2>2, <2>3
<1>2. again \in Seq(Same)
  BY <1>1, ConcatProperties, EmptySeq
<1>3. own \in Seq(Same) /\ Len(own) = 1 /\ own[1].frame = k
  BY DEF Output
<1> HIDE DEF again, own
<1>4. /\ h \in Seq(Same) /\ Len(h) = Len(again) + 1 /\ Len(again) \in Nat
      /\ h[Len(again) + 1] = own[1]
  <2> HIDE DEF Same
  <2>1. Len(again) \in Nat
    BY <1>2, LenProperties
  <2>2. /\ h \in Seq(Same) /\ Len(h) = Len(again) + Len(own)
        /\ \A i \in 1 .. Len(again) + Len(own) :
             h[i] = IF i <= Len(again) THEN again[i] ELSE own[i - Len(again)]
    BY <1>2, <1>3, ConcatProperties
  <2>3. h[Len(again) + 1] = own[(Len(again) + 1) - Len(again)]
    BY <1>3, <2>1, <2>2
  <2>4. (Len(again) + 1) - Len(again) = 1
    BY <2>1
  <2>5. QED BY <1>3, <2>1, <2>2, <2>3, <2>4
<1> HIDE DEF h
<1>5. h \in Seq(Output)
  BY <1>4, SeqMonotonic
<1>6. \A i \in 1 .. Len(h) : h[i].dts = d
  BY <1>4, ElementOfSeq
<1>7. h[Len(h)].frame = k
  BY <1>3, <1>4
<1>8. Handed(k, d, known) = h
  BY DEF Handed, h, again, own
<1>9. QED BY <1>4, <1>5, <1>6, <1>7, <1>8

\* createStdFrame keeps the order of the timestamps and passes the gate only
\* with a keyframe.
LEMMA CompleteStream ==
  ASSUME ParserInv, StreamInv, Complete
  PROVE  StreamInv' /\ ResumesWithKey
<1> DEFINE h == Handed(header, lastDts', params')
           n == Len(pushed)
<1>1. TypeOK /\ Len(sent) \in Nat /\ pushed \in Seq(Output) /\ n \in Nat
      /\ lastDts \in Nat /\ Heartbeat \in Nat
  BY LenProperties, MyProtoAssumption
     DEF ParserInv, TypeOK, StreamInv, PushedBehind, MyProtoAssumption
<1>2. config' = config /\ sent' = sent /\ busy' = busy
  BY DEF Complete, clientVars
<1>3. busy
  BY DEF Complete, InLoop
<1>4. CASE /\ UNCHANGED <<lastDts, silence, pushed>>
           /\ (started' /\ ~config.hotStart) => started
  <2>1. PushedBehind' /\ DtsMonotone'
    BY <1>4 DEF StreamInv, PushedBehind, DtsMonotone
  <2>2. GateHolds'
    BY <1>2, <1>4 DEF StreamInv, GateHolds
  <2>3. ResumesWithKey
    BY <1>1, <1>4 DEF ResumesWithKey
  <2>4. QED BY <2>1, <2>2, <2>3 DEF StreamInv
<1>5. CASE /\ lastDts' \in Nat /\ lastDts' >= lastDts /\ silence' = 0
           /\ pushed' = pushed \o h
           /\ (~started /\ ~config.hotStart) => IsKey(sent[header])
  <2>1. /\ h \in Seq(Output) /\ Len(h) >= 1 /\ Len(h) \in Nat
        /\ \A i \in 1 .. Len(h) : h[i].dts = lastDts'
        /\ h[Len(h)].frame = header
    <3>1. /\ header \in Nat /\ \A s \in DOMAIN params' : params'[s] \in Nat
      BY <1>1, CreateResult
    <3>2. QED BY <1>5, <3>1, HandedResult
  <2> HIDE DEF h
  <2>2. /\ pushed' \in Seq(Output) /\ Len(pushed') = n + Len(h)
        /\ \A i \in 1 .. (n + Len(h)) :
             pushed'[i] = IF i <= n THEN pushed[i] ELSE h[i - n]
    BY <1>1, <1>5, <2>1, ConcatProperties
  <2>3. \A i \in 1 .. n : pushed[i].dts <= lastDts /\ pushed[i].dts \in Nat
    <3>1. \A i \in 1 .. n : pushed[i] \in Output
      BY <1>1, ElementOfSeq
    <3>2. QED BY <3>1 DEF StreamInv, PushedBehind, Output
  <2>4. \A i \in 1 .. (n + Len(h)) :
          /\ i <= n => pushed'[i].dts = pushed[i].dts
          /\ i > n => pushed'[i].dts = lastDts'
    <3>1. SUFFICES ASSUME NEW i \in 1 .. (n + Len(h))
                   PROVE  /\ i <= n => pushed'[i].dts = pushed[i].dts
                          /\ i > n => pushed'[i].dts = lastDts'
      OBVIOUS
    <3>2. CASE i <= n
      BY <1>1, <2>2, <3>2
    <3>3. CASE i > n
      <4>1. i - n \in 1 .. Len(h) /\ pushed'[i] = h[i - n]
        BY <1>1, <2>1, <2>2, <3>3
      <4>2. QED BY <1>1, <2>1, <3>3, <4>1
    <3>4. QED BY <1>1, <3>2, <3>3
  <2>5. PushedBehind'
    <3>1. SUFFICES ASSUME NEW i \in 1 .. (n + Len(h))
                   PROVE  pushed'[i].dts <= lastDts'
      BY <2>2 DEF PushedBehind
    <3>2. CASE i <= n
      <4>1. i \in 1 .. n
        BY <1>1, <2>1, <3>2
      <4>2. pushed[i].dts <= lastDts /\ pushed[i].dts \in Nat
        BY <2>3, <4>1
      <4>3. pushed'[i].dts = pushed[i].dts
        BY <2>4, <3>2
      <4>4. QED BY <1>1, <1>5, <4>2, <4>3
    <3>3. CASE i > n
      <4>1. pushed'[i].dts = lastDts'
        BY <2>4, <3>3
      <4>2. QED BY <1>5, <4>1
    <3>4. QED BY <1>1, <2>1, <3>2, <3>3
  <2>6. DtsMonotone'
    <3>1. \A i \in 2 .. n : pushed[i - 1].dts <= pushed[i].dts
      BY DEF StreamInv, DtsMonotone
    <3>2. SUFFICES ASSUME NEW i \in 2 .. Len(pushed')
                   PROVE  pushed'[i - 1].dts <= pushed'[i].dts
      BY DEF DtsMonotone
    <3>3. i \in 1 .. (n + Len(h)) /\ i - 1 \in 1 .. (n + Len(h))
      BY <1>1, <2>1, <2>2
    <3>4. CASE i <= n
      <4>1. pushed'[i].dts = pushed[i].dts /\ pushed'[i - 1].dts = pushed[i - 1].dts
        BY <1>1, <2>4, <3>3, <3>4
      <4>2. QED BY <1>1, <3>1, <3>4, <4>1
    <3>5. CASE i > n /\ i - 1 <= n
      <4>1. pushed'[i].dts = lastDts' /\ pushed'[i - 1].dts = pushed[i - 1].dts
        BY <1>1, <2>4, <3>3, <3>5
      <4>2. pushed[i - 1].dts <= lastDts /\ pushed[i - 1].dts \in Nat
        BY <1>1, <2>3, <3>3, <3>5
      <4>3. QED BY <1>1, <1>5, <4>1, <4>2
    <3>6. CASE i - 1 > n
      <4>1. pushed'[i].dts = lastDts' /\ pushed'[i - 1].dts = lastDts'
        BY <1>1, <2>4, <3>3, <3>6
      <4>2. QED BY <1>5, <4>1
    <3>7. QED BY <1>1, <3>3, <3>4, <3>5, <3>6
  <2>7. GateHolds'
    BY <1>1, <1>5 DEF GateHolds, None
  <2>8. ResumesWithKey
    <3>1. pushed'[Len(pushed')].frame = header
      <4>1. pushed'[n + Len(h)] = h[Len(h)]
        <5>1. n + Len(h) \in 1 .. (n + Len(h)) /\ ~(n + Len(h) <= n)
              /\ (n + Len(h)) - n = Len(h)
          BY <1>1, <2>1
        <5>2. pushed'[n + Len(h)] = h[(n + Len(h)) - n]
          BY <2>2, <5>1
        <5>3. QED BY <5>1, <5>2
      <4>2. QED BY <2>1, <2>2, <4>1
    <3>2. (silence = None \/ (Heartbeat > 0 /\ silence > Heartbeat))
            => (config.hotStart \/ ~started)
      <4>1. silence \in Int
        BY <1>1 DEF TypeOK, None
      <4>2. QED BY <1>1, <1>3, <4>1 DEF StreamInv, GateHolds
    <3>3. QED BY <1>5, <3>1, <3>2 DEF ResumesWithKey
  <2>9. QED BY <2>5, <2>6, <2>7, <2>8 DEF StreamInv
<1>6. QED BY <1>1, <1>4, <1>5, CreateResult

\* Every step keeps the stream's invariant.
LEMMA NextStream ==
  ASSUME ParserInv, StreamInv, [Next]_vars
  PROVE  StreamInv' /\ ResumesWithKey
<1>1. Heartbeat \in Nat /\ silence \in Int /\ Len(pushed) \in Nat
  BY MyProtoAssumption, LenProperties
     DEF ParserInv, TypeOK, None, MyProtoAssumption, StreamInv, PushedBehind
<1>2. ASSUME UNCHANGED <<config, streamVars>>, busy' => busy
      PROVE  StreamInv' /\ ResumesWithKey
  BY <1>1, <1>2 DEF StreamInv, PushedBehind, DtsMonotone, GateHolds, ResumesWithKey,
     streamVars
<1>3. CASE \E f \in Frames : Compose(f)
  BY <1>2, <1>3 DEF Compose, parserVars
<1>4. CASE \E n \in Sizes : Lose(n)
  BY <1>2, <1>4 DEF Lose, parserVars
<1>5. CASE ParseHeader \/ ParsePayload \/ Return
  BY <1>2, <1>5 DEF ParseHeader, ParsePayload, Return, InLoop, parserVars
<1>6. CASE Complete
  BY <1>6, CompleteStream
<1>7. CASE \E n \in Sizes : Feed(n)
  <2>1. /\ config' = config /\ lastDts' = lastDts /\ silence' = silence
        /\ pushed' = pushed
    BY <1>7 DEF Feed
  <2>2. started' => started /\ ~TimedOut
    BY <1>7 DEF Feed
  <2>3. PushedBehind' /\ DtsMonotone'
    BY <2>1 DEF StreamInv, PushedBehind, DtsMonotone
  <2>4. GateHolds'
    BY <1>1, <2>1, <2>2 DEF StreamInv, GateHolds, TimedOut
  <2>5. QED BY <1>1, <2>1, <2>3, <2>4 DEF StreamInv, ResumesWithKey
<1>8. CASE Replace
  <2>1. pushed' = <<>> /\ Len(<<>>) = 0 /\ ~started'
    BY <1>8 DEF Replace
  <2>2. QED BY <1>1, <2>1, EmptySeq
            DEF StreamInv, PushedBehind, DtsMonotone, GateHolds, ResumesWithKey
<1>9. CASE Tick
  <2>1. /\ config' = config /\ lastDts' = lastDts /\ pushed' = pushed
        /\ started' = started /\ ~busy'
    BY <1>9 DEF Tick, parserVars
  <2>2. silence # None => silence' # None
    BY <1>1, <1>9 DEF ParserInv, TypeOK, Tick, None
  <2>3. QED BY <1>1, <2>1, <2>2
            DEF StreamInv, PushedBehind, DtsMonotone, GateHolds, ResumesWithKey
<1>10. CASE UNCHANGED vars
  BY <1>2, <1>10 DEF vars, parserVars
<1>11. QED BY <1>3, <1>4, <1>5, <1>6, <1>7, <1>8, <1>9, <1>10 DEF Next, Loop

\* Both invariants hold in every reachable state.
LEMMA SpecStream == Spec => [](ParserInv /\ StreamInv)
<1>1. Init => ParserInv /\ StreamInv
  <2>1. ASSUME Init PROVE StreamInv
    <3>1. pushed = <<>> /\ Len(<<>>) = 0 /\ ~started
      BY <2>1 DEF Init
    <3>2. QED BY <3>1, EmptySeq DEF StreamInv, PushedBehind, DtsMonotone, GateHolds
  <2>2. QED BY <2>1, InitParser
<1>2. (ParserInv /\ StreamInv) /\ [Next]_vars => (ParserInv /\ StreamInv)'
  BY NextParser, NextStream
<1>3. QED BY <1>1, <1>2, PTL DEF Spec

\* The timestamps handed to the source never go back, whatever is sent, lost or
\* taken apart twice (createStdFrame, validateTimestamp).
THEOREM DtsNeverGoesBack == Spec => []DtsMonotone
<1>1. StreamInv => DtsMonotone
  BY DEF StreamInv
<1>2. QED BY <1>1, SpecStream, PTL

\* Without hot start, the stream begins and resumes after a heartbeat pause with
\* a keyframe (feed, createStdFrame).
THEOREM ResumesOnKeyframe == Spec => ResumesAtKeyframe
<1>1. (ParserInv /\ StreamInv) /\ [Next]_vars => [ResumesWithKey]_vars
  BY NextStream
<1>2. QED BY <1>1, SpecStream, PTL DEF Spec, ResumesAtKeyframe

-----------------------------------------------------------------------------
(* Reassembly.  The bytes ahead of the parse loop are those left of the      *)
(* input and then those of the wire, and after the last of them comes byte 0 *)
(* of the next frame the client will send.                                   *)

Size(st, k) == HeaderSize + st[k].length

IsByte(st, b) == b[1] \in 1 .. Len(st) /\ b[2] \in Nat /\ b[2] < Size(st, b[1])

\* c is the d-th byte after b: of the same frame, or the first of the next one.
Leads(st, b, d, c) ==
  /\ b[2] + d < Size(st, b[1]) => c = <<b[1], b[2] + d>>
  /\ b[2] + d = Size(st, b[1]) => c = <<b[1] + 1, 0>>

\* w[1] to w[n] is the end of the stream that consists of the frames st.
Track(st, w, n) ==
  /\ w[n + 1] = <<Len(st) + 1, 0>>
  /\ \A i \in 1 .. n :
       /\ IsByte(st, w[i])
       /\ \A d \in 0 .. (n + 1 - i) : Leads(st, w[i], d, w[i + d])

Ahead == Left + Len(wire)
Stream ==
  [j \in 1 .. (Ahead + 1) |->
     IF j <= Left THEN input[pos + j]
     ELSE IF j <= Ahead THEN wire[j - Left] ELSE <<Len(sent) + 1, 0>>]

\* The byte the parse loop needs next.
Cursor ==
  IF state = "HEADER" \/ Len(payload) = sent[header].length
  THEN <<header + 1, 0>> ELSE <<header, HeaderSize + Len(payload)>>

\* What was taken apart so far: every frame up to made, and the payload of the one
\* after it as far as it came.
TakenApart ==
  /\ header = IF state = "HEADER" THEN made ELSE made + 1
  /\ state # "HEADER" => payload = Bytes(header, HeaderSize, HeaderSize + Len(payload))
  /\ state = "COMPLETE" => Len(payload) = sent[header].length

Acceptable == \A k \in 1 .. Len(sent) : sent[k].length <= MaxPayload

Undisturbed ==
  faults = 0 =>
    /\ Acceptable /\ TakenApart
    /\ Track(sent, Stream, Ahead) /\ Stream[1] = Cursor
    /\ ~busy => Left = 0

\* The rest of a stream, m bytes later.
LEMMA TrackRest ==
  ASSUME NEW st, NEW w, NEW v, NEW n, NEW m, n \in Nat, m \in Nat, m <= n,
         Track(st, w, n), \A j \in 1 .. (n - m + 1) : v[j] = w[j + m]
  PROVE  Track(st, v, n - m)
<1>1. v[n - m + 1] = <<Len(st) + 1, 0>>
  <2>1. n - m + 1 \in 1 .. (n - m + 1) /\ (n - m + 1) + m = n + 1
    OBVIOUS
  <2>2. v[n - m + 1] = w[n + 1]
    BY <2>1
  <2> QED BY <2>2 DEF Track
<1>2. ASSUME NEW i \in 1 .. (n - m)
      PROVE  /\ IsByte(st, v[i])
             /\ \A d \in 0 .. ((n - m) + 1 - i) : Leads(st, v[i], d, v[i + d])
  <2>1. PICK k \in 1 .. n : k = i + m
    OBVIOUS
  <2>2. v[i] = w[k]
    BY <2>1
  <2>3. IsByte(st, w[k]) /\ \A d \in 0 .. (n + 1 - k) : Leads(st, w[k], d, w[k + d])
    BY DEF Track
  <2>4. ASSUME NEW d \in 0 .. ((n - m) + 1 - i) PROVE Leads(st, v[i], d, v[i + d])
    <3>1. d \in 0 .. (n + 1 - k) /\ i + d \in 1 .. (n - m + 1) /\ (i + d) + m = k + d
      BY <2>1
    <3>2. v[i + d] = w[k + d]
      BY <3>1
    <3> QED BY <2>2, <2>3, <3>1, <3>2
  <2> QED BY <2>2, <2>3, <2>4
<1> QED BY <1>1, <1>2 DEF Track

\* The first m bytes of a stream, as long as they are of one frame.
LEMMA TrackStart ==
  ASSUME NEW st, NEW w, NEW n, NEW m, NEW k, NEW x, n \in Nat, m \in Nat, m <= n,
         n > 0, Track(st, w, n), w[1] = <<k, x>>, x + m <= Size(st, k),
         Size(st, k) \in Nat
  PROVE  /\ k \in 1 .. Len(st) /\ x \in Nat
         /\ \A j \in 1 .. m : w[j] = <<k, x + j - 1>>
         /\ w[m + 1] = IF x + m < Size(st, k) THEN <<k, x + m>> ELSE <<k + 1, 0>>
<1>1. /\ IsByte(st, w[1])
      /\ \A d \in 0 .. (n + 1 - 1) : Leads(st, w[1], d, w[1 + d])
  <2>1. 1 \in 1 .. n
    OBVIOUS
  <2> QED BY <2>1 DEF Track
<1>2. k \in 1 .. Len(st) /\ x \in Nat
  BY <1>1 DEF IsByte
<1>3. \A d \in 0 .. n : Leads(st, <<k, x>>, d, w[d + 1])
  BY <1>1
<1>4. \A d \in 0 .. n : /\ x + d < Size(st, k) => w[d + 1] = <<k, x + d>>
                        /\ x + d = Size(st, k) => w[d + 1] = <<k + 1, 0>>
  BY <1>3 DEF Leads
<1>5. ASSUME NEW j \in 1 .. m PROVE w[j] = <<k, x + j - 1>>
  <2>1. PICK d \in 0 .. n : d = j - 1
    OBVIOUS
  <2>2. x + d < Size(st, k)
    BY <1>2, <2>1
  <2>3. w[d + 1] = <<k, x + d>>
    BY <1>4, <2>2
  <2>4. d + 1 = j /\ x + d = x + j - 1
    BY <1>2, <2>1
  <2> QED BY <2>3, <2>4
<1>6. m \in 0 .. n
  OBVIOUS
<1>7. w[m + 1] = IF x + m < Size(st, k) THEN <<k, x + m>> ELSE <<k + 1, 0>>
  <2>1. CASE x + m < Size(st, k)
    BY <1>4, <1>6, <2>1
  <2>2. CASE ~(x + m < Size(st, k))
    <3>1. x + m = Size(st, k)
      BY <1>2, <2>2
    <3>2. w[m + 1] = <<k + 1, 0>>
      BY <1>4, <1>6, <3>1
    <3> QED BY <2>2, <3>2
  <2> QED BY <2>1, <2>2
<1> QED BY <1>2, <1>5, <1>7

\* A stream with one more frame of size l.
LEMMA TrackMore ==
  ASSUME NEW st, NEW ts, NEW w, NEW v, NEW n, NEW l, n \in Nat, l \in Nat, l > 0,
         Len(st) \in Nat, Len(ts) = Len(st) + 1,
         \A k \in 1 .. Len(st) : ts[k] = st[k] /\ Size(st, k) \in Nat,
         Size(ts, Len(st) + 1) = l,
         Track(st, w, n), \A j \in 1 .. n : v[j] = w[j],
         \A i \in 0 .. (l - 1) : v[n + 1 + i] = <<Len(st) + 1, i>>,
         v[n + l + 1] = <<Len(st) + 2, 0>>
  PROVE  Track(ts, v, n + l)
<1>1. v[(n + l) + 1] = <<Len(ts) + 1, 0>>
  <2>1. (n + l) + 1 = n + l + 1 /\ Len(ts) + 1 = Len(st) + 2
    OBVIOUS
  <2> QED BY <2>1
<1>2. w[n + 1] = <<Len(st) + 1, 0>> /\ v[n + 1] = <<Len(st) + 1, 0>>
  <2>1. 0 \in 0 .. (l - 1) /\ n + 1 + 0 = n + 1
    OBVIOUS
  <2> QED BY <2>1 DEF Track
<1>3. \A k \in 1 .. Len(st) : Size(ts, k) = Size(st, k)
  BY DEF Size
<1>4. ASSUME NEW i \in 1 .. n
      PROVE  /\ IsByte(ts, v[i])
             /\ \A d \in 0 .. ((n + l) + 1 - i) : Leads(ts, v[i], d, v[i + d])
  <2>1. PICK b : b = w[i]
    OBVIOUS
  <2>2. IsByte(st, b) /\ \A d \in 0 .. (n + 1 - i) : Leads(st, b, d, w[i + d])
    BY <2>1 DEF Track
  <2>3. /\ b[1] \in 1 .. Len(st) /\ b[2] \in Nat /\ b[2] < Size(st, b[1])
        /\ Size(ts, b[1]) = Size(st, b[1]) /\ Size(st, b[1]) \in Nat /\ v[i] = b
    BY <1>3, <2>1, <2>2 DEF IsByte
  <2>4. IsByte(ts, v[i])
    <3>1. b[1] \in 1 .. Len(ts)
      <4>1. PICK k \in 1 .. Len(st) : k = b[1]
        BY <2>3
      <4>2. k \in 1 .. (Len(st) + 1)
        OBVIOUS
      <4> QED BY <4>1, <4>2
    <3>2. IsByte(ts, b)
      BY <2>3, <3>1 DEF IsByte
    <3> QED BY <2>3, <3>2
  <2>5. ASSUME NEW d \in 0 .. ((n + l) + 1 - i), b[2] + d <= Size(st, b[1])
        PROVE  d <= n + 1 - i
    <3>1. SUFFICES ASSUME ~(d <= n + 1 - i) PROVE FALSE
      OBVIOUS
    <3>2. PICK e \in 0 .. (n + 1 - i) : e = n + 1 - i
      OBVIOUS
    <3>3. b[2] + e < Size(st, b[1]) /\ i + e = n + 1
      BY <2>3, <2>5, <3>1, <3>2
    <3>4. w[i + e] = <<b[1], b[2] + e>>
      BY <2>2, <3>3 DEF Leads
    <3>5. <<Len(st) + 1, 0>> = <<b[1], b[2] + e>>
      BY <1>2, <3>3, <3>4
    <3>6. Len(st) + 1 = b[1]
      BY <3>5
    <3> QED BY <2>3, <3>6
  <2>6. ASSUME NEW d \in 0 .. ((n + l) + 1 - i) PROVE Leads(ts, b, d, v[i + d])
    <3>1. CASE b[2] + d <= Size(st, b[1])
      <4>1. d \in 0 .. (n + 1 - i) /\ i + d \in 1 .. (n + 1)
        BY <2>5, <3>1
      <4>2. v[i + d] = w[i + d]
        <5>1. CASE i + d = n + 1
          BY <1>2, <5>1
        <5>2. CASE i + d # n + 1
          BY <4>1, <5>2
        <5> QED BY <5>1, <5>2
      <4>3. Leads(st, b, d, w[i + d])
        BY <2>2, <4>1
      <4> QED BY <2>3, <4>2, <4>3 DEF Leads
    <3>2. CASE ~(b[2] + d <= Size(st, b[1]))
      BY <2>3, <3>2 DEF Leads
    <3> QED BY <3>1, <3>2
  <2> QED BY <2>3, <2>4, <2>6
<1>5. ASSUME NEW i \in (n + 1) .. (n + l)
      PROVE  /\ IsByte(ts, v[i])
             /\ \A d \in 0 .. ((n + l) + 1 - i) : Leads(ts, v[i], d, v[i + d])
  <2>1. PICK x \in 0 .. (l - 1) : x = i - (n + 1)
    OBVIOUS
  <2>2. n + 1 + x = i
    BY <2>1
  <2>3. v[i] = <<Len(st) + 1, x>>
    BY <2>2
  <2>4. IsByte(ts, v[i])
    BY <2>3 DEF IsByte
  <2>5. ASSUME NEW d \in 0 .. ((n + l) + 1 - i)
        PROVE  Leads(ts, <<Len(st) + 1, x>>, d, v[i + d])
    <3>1. CASE x + d < l
      <4>1. PICK y \in 0 .. (l - 1) : y = x + d
        BY <3>1
      <4>2. n + 1 + y = i + d
        BY <2>1, <4>1
      <4>3. v[i + d] = <<Len(st) + 1, y>>
        BY <4>2
      <4> QED BY <3>1, <4>1, <4>3 DEF Leads
    <3>2. CASE x + d = l
      <4>1. i + d = n + l + 1
        BY <2>1, <3>2
      <4>2. v[i + d] = <<Len(st) + 2, 0>>
        BY <4>1
      <4>3. (Len(st) + 1) + 1 = Len(st) + 2
        OBVIOUS
      <4> QED BY <3>2, <4>2, <4>3 DEF Leads
    <3>3. CASE x + d > l
      BY <3>3 DEF Leads
    <3> QED BY <3>1, <3>2, <3>3
  <2> QED BY <2>3, <2>4, <2>5
<1>6. \A i \in 1 .. (n + l) : i \in 1 .. n \/ i \in (n + 1) .. (n + l)
  OBVIOUS
<1> QED BY <1>1, <1>4, <1>5, <1>6 DEF Track

\* What the steps below start from.
LEMMA AheadFacts ==
  ASSUME ParserInv
  PROVE  /\ Len(sent) \in Nat /\ Len(input) \in Nat /\ Len(wire) \in Nat
         /\ Len(payload) \in Nat /\ faults \in Nat
         /\ pos \in 0 .. Len(input) /\ Left \in Nat /\ Left = Len(input) - pos
         /\ Ahead \in Nat /\ Ahead = Left + Len(wire)
         /\ HeaderSize \in Nat /\ HeaderSize > 0 /\ StructSize \in Nat
         /\ HeaderSize <= StructSize
         /\ \A k \in 1 .. Len(sent) :
              /\ sent[k].length \in Nat /\ Size(sent, k) \in Nat
              /\ Size(sent, k) = HeaderSize + sent[k].length
<1>1. /\ Len(sent) \in Nat /\ Len(input) \in Nat /\ Len(wire) \in Nat
      /\ Len(payload) \in Nat /\ pos \in 0 .. Len(input) /\ faults \in Nat
  BY LenProperties DEF ParserInv, TypeOK, BytesOK
<1>2. Left \in Nat /\ Left = Len(input) - pos
  BY <1>1 DEF Left
<1>3. Ahead \in Nat /\ Ahead = Left + Len(wire)
  BY <1>1, <1>2 DEF Ahead
<1>4. HeaderSize \in Nat /\ HeaderSize > 0 /\ StructSize \in Nat /\ HeaderSize <= StructSize
  BY MyProtoAssumption
<1>5. ASSUME NEW k \in 1 .. Len(sent)
      PROVE  /\ sent[k].length \in Nat /\ Size(sent, k) \in Nat
             /\ Size(sent, k) = HeaderSize + sent[k].length
  <2>1. sent[k].length \in Nat
    BY SentFrame DEF ParserInv
  <2> QED BY <1>4, <2>1 DEF Size
<1> QED BY <1>1, <1>2, <1>3, <1>4, <1>5

LEMMA StreamAt ==
  ASSUME ParserInv
  PROVE  /\ \A j \in 1 .. Left : Stream[j] = input[pos + j]
         /\ \A j \in (Left + 1) .. Ahead : Stream[j] = wire[j - Left]
         /\ Stream[Ahead + 1] = <<Len(sent) + 1, 0>>
<1>1. Left \in Nat /\ Ahead \in Nat /\ Left <= Ahead
  <2>1. Left \in Nat /\ Len(wire) \in Nat
    BY AheadFacts
  <2> QED BY <2>1 DEF Ahead
<1> QED BY <1>1 DEF Stream

\* The loop or feed left m bytes fewer ahead.
LEMMA Moved ==
  ASSUME NEW m, ParserInv, Track(sent, Stream, Ahead), sent' = sent, m \in Nat,
         m <= Ahead, Ahead' = Ahead - m,
         \A j \in 1 .. (Ahead - m + 1) : Stream'[j] = Stream[j + m]
  PROVE  Track(sent', Stream', Ahead') /\ Stream'[1] = Stream[m + 1]
<1>1. PICK w, v, n : w = Stream /\ v = Stream' /\ n = Ahead
  OBVIOUS
<1>2. n \in Nat
  BY <1>1, AheadFacts
<1>3. /\ Track(sent, w, n) /\ m <= n
      /\ \A j \in 1 .. (n - m + 1) : v[j] = w[j + m]
  BY <1>1
<1>4. Track(sent, v, n - m)
  BY <1>2, <1>3, TrackRest
<1>5. v[1] = w[m + 1]
  <2>1. 1 \in 1 .. (n - m + 1) /\ 1 + m = m + 1
    BY <1>2, <1>3
  <2> QED BY <1>3, <2>1
<1> QED BY <1>1, <1>4, <1>5

\* The loop took m bytes.
LEMMA ReadOn ==
  ASSUME NEW m, ParserInv, ParserInv', Track(sent, Stream, Ahead), m \in Nat, m <= Left,
         sent' = sent, wire' = wire, input' = input, pos' = pos + m
  PROVE  /\ Track(sent', Stream', Ahead') /\ Stream'[1] = Stream[m + 1]
         /\ Left' = Left - m
<1>1. /\ Len(input) \in Nat /\ Len(wire) \in Nat /\ pos \in 0 .. Len(input)
      /\ Left = Len(input) - pos /\ Ahead = Left + Len(wire) /\ Left \in Nat /\ Ahead \in Nat
  BY AheadFacts
<1>2. Left' = Left - m /\ Ahead' = Ahead - m
  BY <1>1 DEF Left, Ahead
<1>3. ASSUME NEW j \in 1 .. (Ahead - m + 1) PROVE Stream'[j] = Stream[j + m]
  <2>1. j \in 1 .. (Ahead' + 1)
    BY <1>1, <1>2
  <2>2. Stream'[j] = IF j <= Left - m THEN input[(pos + m) + j]
                     ELSE IF j <= Ahead - m THEN wire[j - (Left - m)]
                     ELSE <<Len(sent) + 1, 0>>
    BY <1>2, <2>1 DEF Stream
  <2>3. PICK k \in 1 .. (Ahead + 1) : k = j + m
    BY <1>1
  <2>4. Stream[k] = IF k <= Left THEN input[pos + k]
                    ELSE IF k <= Ahead THEN wire[k - Left] ELSE <<Len(sent) + 1, 0>>
    BY DEF Stream
  <2>5. /\ j <= Left - m <=> k <= Left
        /\ j <= Ahead - m <=> k <= Ahead
        /\ (pos + m) + j = pos + k /\ j - (Left - m) = k - Left
    BY <1>1, <2>3
  <2>6. Stream'[j] = Stream[k]
    BY <2>2, <2>4, <2>5
  <2> QED BY <2>3, <2>6
<1>4. m <= Ahead
  BY <1>1
<1> QED BY <1>2, <1>3, <1>4, Moved

LEMMA FeedTrack ==
  ASSUME NEW n, ParserInv, n \in Sizes, Feed(n), Track(sent, Stream, Ahead)
  PROVE  Track(sent', Stream', Ahead') /\ Stream'[1] = Stream[1]
<1>1. /\ Len(input) \in Nat /\ Len(wire) \in Nat /\ pos \in 0 .. Len(input)
      /\ Left = Len(input) - pos /\ Ahead = Left + Len(wire) /\ Left \in Nat /\ Ahead \in Nat
  BY AheadFacts
<1>2. n \in 1 .. Len(wire)
  BY <1>1, MyProtoAssumption DEF Sizes
<1>3. /\ Left \in Nat /\ Ahead \in Nat /\ n \in Nat /\ n > 0 /\ pos \in Nat
      /\ Len(input) \in Nat /\ Len(wire) \in Nat /\ Left + n <= Ahead
  BY <1>1, <1>2
<1>4. Len(input) = pos + Left
  BY <1>1
<1>5. Len(wire) = Ahead - Left
  BY <1>1
<1>6. input \in Seq(ByteSet) /\ wire \in Seq(ByteSet)
  BY DEF ParserInv, BytesOK
<1>7. PICK a, b : a = SubSeq(wire, 1, n) /\ b = SubSeq(wire, n + 1, Len(wire))
  OBVIOUS
<1>8. /\ sent' = sent /\ pos' = pos /\ input' = input \o a /\ wire' = b
  BY <1>7 DEF Feed
<1>9. /\ a \in Seq(ByteSet) /\ Len(a) = n
      /\ \A i \in 1 .. n : a[i] = wire[i]
  BY <1>2, <1>6, <1>7
<1>10. /\ Len(b) = Len(wire) - n
       /\ \A i \in 1 .. (Len(wire) - n) : b[i] = wire[n + i]
  BY <1>2, <1>6, <1>7
<1>11. /\ Len(input') = Len(input) + n
       /\ \A i \in 1 .. (Len(input) + n) :
            input'[i] = IF i <= Len(input) THEN input[i] ELSE a[i - Len(input)]
  <2>1. /\ Len(input \o a) = Len(input) + Len(a)
        /\ \A i \in 1 .. (Len(input) + Len(a)) :
             (input \o a)[i] = IF i <= Len(input) THEN input[i] ELSE a[i - Len(input)]
    BY <1>6, <1>9, ConcatProperties
  <2> QED BY <1>8, <1>9, <2>1
<1>12. Left' = Left + n /\ Ahead' = Ahead
  <2>1. Left' = Len(input') - pos' /\ Ahead' = Left' + Len(wire')
    BY DEF Left, Ahead
  <2>2. Left' = (Len(input) + n) - pos
    BY <1>8, <1>11, <2>1
  <2>3. Left' = Left + n
    BY <1>3, <1>4, <2>2
  <2>4. Len(wire') = Len(wire) - n
    BY <1>8, <1>10
  <2>5. Ahead' = (Left + n) + (Len(wire) - n)
    BY <2>1, <2>3, <2>4
  <2> QED BY <1>3, <1>5, <2>3, <2>5
<1>13. ASSUME NEW j \in 1 .. (Ahead + 1) PROVE Stream'[j] = Stream[j]
  <2>1. j \in 1 .. (Ahead' + 1)
    BY <1>12
  <2>2. Stream'[j] = IF j <= Left + n THEN input'[pos + j]
                     ELSE IF j <= Ahead THEN b[j - (Left + n)]
                     ELSE <<Len(sent) + 1, 0>>
    BY <1>8, <1>12, <2>1 DEF Stream
  <2>3. Stream[j] = IF j <= Left THEN input[pos + j]
                    ELSE IF j <= Ahead THEN wire[j - Left] ELSE <<Len(sent) + 1, 0>>
    BY DEF Stream
  <2>4. CASE j <= Left
    <3>1. pos + j \in 1 .. (Len(input) + n) /\ pos + j <= Len(input) /\ j <= Left + n
      BY <1>1, <1>2, <2>4
    <3>2. input'[pos + j] = input[pos + j]
      BY <1>11, <3>1
    <3> QED BY <2>2, <2>3, <2>4, <3>1, <3>2
  <2>5. CASE j > Left /\ j <= Left + n
    <3>1. PICK i \in 1 .. n : i = j - Left
      BY <1>3, <2>5
    <3>2. /\ pos + j \in 1 .. (Len(input) + n) /\ ~(pos + j <= Len(input))
          /\ (pos + j) - Len(input) = i /\ ~(j <= Left) /\ j <= Ahead
      BY <1>3, <1>4, <2>5, <3>1
    <3>3. input'[pos + j] = a[i]
      BY <1>11, <3>2
    <3> QED BY <1>9, <2>2, <2>3, <2>5, <3>1, <3>2, <3>3
  <2>6. CASE j > Left + n /\ j <= Ahead
    <3>1. PICK i \in 1 .. (Len(wire) - n) : i = j - (Left + n)
      BY <1>3, <1>5, <2>6
    <3>2. n + i = j - Left /\ ~(j <= Left) /\ ~(j <= Left + n)
      BY <1>3, <2>6, <3>1
    <3>3. b[i] = wire[n + i]
      BY <1>10
    <3> QED BY <2>2, <2>3, <2>6, <3>1, <3>2, <3>3
  <2>7. CASE j > Ahead
    <3>1. ~(j <= Left) /\ ~(j <= Ahead) /\ ~(j <= Left + n)
      BY <1>3, <2>7
    <3> QED BY <2>2, <2>3, <3>1
  <2> QED BY <1>3, <2>4, <2>5, <2>6, <2>7
<1>14. PICK m : m = 0
  OBVIOUS
<1>15. /\ m \in Nat /\ m <= Ahead /\ Ahead' = Ahead - m
       /\ \A j \in 1 .. (Ahead - m + 1) : Stream'[j] = Stream[j + m]
  BY <1>1, <1>12, <1>13, <1>14
<1>16. Track(sent', Stream', Ahead') /\ Stream'[1] = Stream[m + 1]
  BY <1>8, <1>15, Moved
<1> QED BY <1>14, <1>16

\* Bytes of a frame.
LEMMA BytesAre ==
  ASSUME NEW k, NEW from, NEW to, from \in Nat, to \in Nat, from <= to
  PROVE  /\ Len(Bytes(k, from, to)) = to - from
         /\ \A i \in 1 .. (to - from) : Bytes(k, from, to)[i] = <<k, from + i - 1>>
BY DEF Bytes

LEMMA ComposeTrack ==
  ASSUME NEW f, ParserInv, f \in Frames, Compose(f), Track(sent, Stream, Ahead)
  PROVE  Track(sent', Stream', Ahead') /\ Stream'[1] = Stream[1]
<1>1. /\ Len(sent) \in Nat /\ Len(wire) \in Nat /\ Left \in Nat /\ Ahead \in Nat
      /\ HeaderSize \in Nat /\ HeaderSize > 0
      /\ \A k \in 1 .. Len(sent) : Size(sent, k) \in Nat
  BY AheadFacts
<1>2. Len(wire) = Ahead - Left /\ Left <= Ahead
  BY <1>1 DEF Ahead
<1>3. PICK l \in Nat : l = HeaderSize + f.length /\ l > 0
  <2>1. f.length \in Nat
    BY MyProtoAssumption DEF FrameType
  <2> QED BY <1>1, <2>1
<1>0. l \in Nat /\ l > 0
  BY <1>3
<1>4. PICK b : b = Bytes(Len(sent) + 1, 0, HeaderSize + f.length)
  OBVIOUS
<1>5. Len(b) = l /\ \A i \in 1 .. l : b[i] = <<Len(sent) + 1, 0 + i - 1>>
  <2>1. 0 \in Nat /\ 0 <= l /\ b = Bytes(Len(sent) + 1, 0, l)
    BY <1>3, <1>4
  <2>2. /\ Len(Bytes(Len(sent) + 1, 0, l)) = l - 0
        /\ \A i \in 1 .. (l - 0) :
             Bytes(Len(sent) + 1, 0, l)[i] = <<Len(sent) + 1, 0 + i - 1>>
    BY <2>1, BytesAre
  <2> QED BY <2>1, <2>2
<1>6. b \in Seq(Int \X Int)
  <2>1. b = [i \in 1 .. l |-> b[i]]
    BY <1>3, <1>4, <1>5 DEF Bytes
  <2>2. ASSUME NEW i \in 1 .. l PROVE b[i] \in Int \X Int
    <3>1. b[i] = <<Len(sent) + 1, 0 + i - 1>>
      BY <1>5
    <3>2. Len(sent) + 1 \in Int /\ 0 + i - 1 \in Int
      BY <1>0, <1>1
    <3> QED BY <3>1, <3>2
  <2>3. b \in [1 .. l -> Int \X Int]
    BY <2>1, <2>2
  <2> QED BY <2>3, SeqDef
<1>7. wire \in Seq(Int \X Int)
  <2>1. ByteSet \subseteq Int \X Int
    BY DEF ByteSet
  <2> QED BY <2>1, SeqMonotonic DEF ParserInv, BytesOK
<1>8. /\ sent' = Append(sent, f) /\ wire' = wire \o b /\ input' = input /\ pos' = pos
  BY <1>4 DEF Compose, parserVars
<1>9. /\ Len(wire') = Len(wire) + l
      /\ \A i \in 1 .. (Len(wire) + l) :
           wire'[i] = IF i <= Len(wire) THEN wire[i] ELSE b[i - Len(wire)]
  <2>1. /\ Len(wire \o b) = Len(wire) + Len(b)
        /\ \A i \in 1 .. (Len(wire) + Len(b)) :
             (wire \o b)[i] = IF i <= Len(wire) THEN wire[i] ELSE b[i - Len(wire)]
    BY <1>6, <1>7, ConcatProperties
  <2> QED BY <1>5, <1>8, <2>1
<1>10. Left' = Left /\ Ahead' = Ahead + l
  <2>1. Left' = Left
    BY <1>8 DEF Left
  <2>2. Ahead' = Left' + Len(wire')
    BY DEF Ahead
  <2>3. Ahead' = Left + ((Ahead - Left) + l)
    BY <1>2, <1>9, <2>1, <2>2
  <2> QED BY <1>0, <1>1, <2>1, <2>3
<1>11. /\ Len(sent') = Len(sent) + 1 /\ sent'[Len(sent) + 1] = f
       /\ \A k \in 1 .. Len(sent) : sent'[k] = sent[k]
  <2>1. sent \in Seq(Frames)
    BY DEF ParserInv, TypeOK
  <2> QED BY <1>8, <2>1, AppendProperties
<1>12. PICK st, ts, w, v, n : /\ st = sent /\ ts = sent' /\ w = Stream /\ v = Stream'
                              /\ n = Ahead
  OBVIOUS
<1>13. \A j \in 1 .. ((n + l) + 1) :
         v[j] = IF j <= Left THEN input[pos + j]
                ELSE IF j <= n + l THEN wire'[j - Left] ELSE <<(Len(st) + 1) + 1, 0>>
  BY <1>8, <1>10, <1>11, <1>12 DEF Stream
<1>14. \A j \in 1 .. (n + 1) :
         w[j] = IF j <= Left THEN input[pos + j]
                ELSE IF j <= n THEN wire[j - Left] ELSE <<Len(st) + 1, 0>>
  BY <1>12 DEF Stream
<1>15. n \in Nat /\ Len(wire) = n - Left /\ Left <= n
  BY <1>1, <1>2, <1>12
<1>16. ASSUME NEW j \in 1 .. n PROVE v[j] = w[j]
  <2>1. CASE j <= Left
    <3>1. j \in 1 .. ((n + l) + 1) /\ j \in 1 .. (n + 1)
      BY <1>0, <1>15
    <3>2. v[j] = input[pos + j]
      BY <1>13, <2>1, <3>1
    <3>3. w[j] = input[pos + j]
      BY <1>14, <2>1, <3>1
    <3> QED BY <3>2, <3>3
  <2>2. CASE ~(j <= Left)
    <3>1. PICK i : i = j - Left
      OBVIOUS
    <3>2. i \in 1 .. (Len(wire) + l) /\ i <= Len(wire)
      BY <1>0, <1>1, <1>15, <2>2, <3>1
    <3>3. wire'[i] = wire[i]
      BY <1>9, <3>2
    <3>4. v[j] = wire'[i] /\ w[j] = wire[i]
      BY <1>0, <1>1, <1>13, <1>14, <1>15, <2>2, <3>1
    <3> QED BY <3>3, <3>4
  <2> QED BY <2>1, <2>2
<1>17. ASSUME NEW i \in 0 .. (l - 1) PROVE v[n + 1 + i] = <<Len(st) + 1, i>>
  <2>1. PICK e : e = (n + 1 + i) - Left
    OBVIOUS
  <2>2. /\ e \in 1 .. (Len(wire) + l) /\ ~(e <= Len(wire)) /\ e - Len(wire) = i + 1
    BY <1>0, <1>1, <1>15, <2>1
  <2>3. wire'[e] = b[i + 1]
    BY <1>9, <2>2
  <2>4. v[n + 1 + i] = wire'[e]
    <3>1. PICK j : j = n + 1 + i
      OBVIOUS
    <3>2. j \in 1 .. ((n + l) + 1) /\ ~(j <= Left) /\ j <= n + l /\ e = j - Left
      BY <1>0, <1>1, <1>15, <2>1, <3>1
    <3>3. v[j] = wire'[j - Left]
      BY <1>13, <3>2
    <3> QED BY <3>1, <3>2, <3>3
  <2>5. b[i + 1] = <<Len(sent) + 1, 0 + (i + 1) - 1>>
    BY <1>3, <1>5
  <2>6. 0 + (i + 1) - 1 = i
    BY <1>3
  <2> QED BY <1>12, <2>3, <2>4, <2>5, <2>6
<1>18. v[n + l + 1] = <<Len(st) + 2, 0>>
  <2>1. v[n + l + 1] = <<(Len(st) + 1) + 1, 0>>
    <3>1. PICK j : j = n + l + 1
      OBVIOUS
    <3>2. j \in 1 .. ((n + l) + 1) /\ ~(j <= Left) /\ ~(j <= n + l)
      BY <1>0, <1>1, <1>15, <3>1
    <3>3. v[j] = <<(Len(st) + 1) + 1, 0>>
      BY <1>13, <3>2
    <3> QED BY <3>1, <3>3
  <2>2. (Len(st) + 1) + 1 = Len(st) + 2
    BY <1>1, <1>12
  <2> QED BY <2>1, <2>2
<1>19. /\ Len(st) \in Nat /\ Len(ts) = Len(st) + 1
       /\ \A k \in 1 .. Len(st) : ts[k] = st[k] /\ Size(st, k) \in Nat
       /\ Size(ts, Len(st) + 1) = l /\ Track(st, w, n)
  <2>1. /\ Len(st) \in Nat /\ Len(ts) = Len(st) + 1 /\ Track(st, w, n)
        /\ \A k \in 1 .. Len(st) : ts[k] = st[k] /\ Size(st, k) \in Nat
    BY <1>1, <1>11, <1>12
  <2>2. ts[Len(st) + 1] = f
    BY <1>11, <1>12
  <2>3. Size(ts, Len(st) + 1) = l
    BY <1>3, <2>2 DEF Size
  <2> QED BY <2>1, <2>3
<1>20. Track(ts, v, n + l)
  BY <1>0, <1>15, <1>16, <1>17, <1>18, <1>19, TrackMore
<1>21. v[1] = w[1]
  <2>1. CASE n > 0
    BY <1>15, <1>16, <2>1
  <2>2. CASE n = 0
    <3>1. v[n + 1 + 0] = <<Len(st) + 1, 0>>
      BY <1>3, <1>17
    <3>2. w[n + 1] = <<Len(st) + 1, 0>>
      BY <1>19 DEF Track
    <3> QED BY <2>2, <3>1, <3>2
  <2> QED BY <1>15, <2>1, <2>2
<1> QED BY <1>10, <1>12, <1>20, <1>21

\* As long as nothing is disturbed, parseHeader reads the header of the next frame
\* and takes it.
LEMMA ParseHeaderTrack ==
  ASSUME ParserInv, ParserInv', Undisturbed, faults = 0, ParseHeader
  PROVE  /\ TakenApart' /\ Track(sent', Stream', Ahead') /\ Stream'[1] = Cursor'
         /\ busy' /\ sent' = sent
<1>1. /\ Acceptable /\ TakenApart /\ Track(sent, Stream, Ahead) /\ Stream[1] = Cursor
  BY DEF Undisturbed
<1>2. /\ busy /\ Left > 0 /\ state = "HEADER" /\ streamVars' = streamVars
      /\ sent' = sent /\ wire' = wire /\ input' = input
  BY DEF ParseHeader, InLoop, clientVars, parserVars
<1>3. /\ Left \in Nat /\ Ahead \in Nat /\ HeaderSize \in Nat /\ HeaderSize > 0
      /\ StructSize \in Nat /\ HeaderSize <= StructSize /\ Len(sent) \in Nat
  BY AheadFacts
<1>4. Left <= Ahead
  <2>1. Len(wire) \in Nat /\ Left \in Nat
    BY AheadFacts
  <2> QED BY <2>1 DEF Ahead
<1>5. made' = made /\ pos \in Nat
  BY <1>2 DEF streamVars, ParserInv, TypeOK
<1>6. Cursor = <<header + 1, 0>> /\ header = made
  BY <1>1, <1>2 DEF Cursor, TakenApart
<1>7. CASE Left < StructSize
  <2>1. /\ pos' = pos /\ busy' = busy /\ state' = state /\ header' = header
        /\ payload' = payload
    BY <1>7 DEF ParseHeader, parserVars
  <2>2. PICK m \in Nat : m = 0
    OBVIOUS
  <2>3. m <= Left /\ pos' = pos + m
    BY <1>3, <1>5, <2>1, <2>2
  <2>4. Track(sent', Stream', Ahead') /\ Stream'[1] = Stream[m + 1]
    BY <1>1, <1>2, <2>3, ReadOn
  <2>5. Stream'[1] = Cursor'
    BY <1>1, <1>2, <2>1, <2>2, <2>4 DEF Cursor
  <2>6. TakenApart'
    BY <1>1, <1>2, <1>5, <2>1 DEF TakenApart
  <2> QED BY <1>2, <2>1, <2>4, <2>5, <2>6
<1>8. CASE ~(Left < StructSize)
  <2>1. PICK first : first = input[pos + 1]
    OBVIOUS
  <2>2. first = <<header + 1, 0>>
    <3>1. Stream[1] = input[pos + 1]
      BY <1>2, <1>3, StreamAt
    <3> QED BY <1>1, <1>6, <2>1, <3>1
  <2>3. PICK w, k, x, n : w = Stream /\ k = header + 1 /\ x = 0 /\ n = Ahead
    OBVIOUS
  <2>4. n \in Nat /\ n > 0 /\ HeaderSize <= n /\ Track(sent, w, n) /\ w[1] = <<k, x>>
    BY <1>1, <1>3, <1>4, <1>6, <1>8, <2>3
  <2>5. k \in 1 .. Len(sent)
    <3>1. 1 \in 1 .. n
      BY <2>4
    <3>2. IsByte(sent, w[1])
      BY <2>4, <3>1 DEF Track
    <3> QED BY <2>4, <3>2 DEF IsByte
  <2>6. /\ sent[k].length \in Nat /\ Size(sent, k) \in Nat
        /\ Size(sent, k) = HeaderSize + sent[k].length
    BY <2>5, AheadFacts
  <2>7. x + HeaderSize <= Size(sent, k)
    BY <1>3, <2>3, <2>6
  <2>8. w[HeaderSize + 1] = IF x + HeaderSize < Size(sent, k)
                            THEN <<k, x + HeaderSize>> ELSE <<k + 1, 0>>
    BY <1>3, <2>4, <2>6, <2>7, TrackStart
  <2>9. Accepts(first)
    <3>1. first[1] = k /\ first[2] = 0
      BY <2>2, <2>3
    <3> QED BY <1>1, <2>5, <3>1 DEF Accepts, Acceptable
  <2>10. /\ pos' = pos + HeaderSize /\ header' = first[1] /\ payload' = <<>>
         /\ state' = "PAYLOAD" /\ busy' = busy
    BY <1>8, <2>1, <2>9 DEF ParseHeader
  <2>11. header' = k /\ k = made + 1 /\ Len(payload') = 0
    BY <1>6, <2>2, <2>3, <2>10
  <2>12. HeaderSize <= Left
    BY <1>3, <1>8
  <2>13. Track(sent', Stream', Ahead') /\ Stream'[1] = Stream[HeaderSize + 1]
    BY <1>1, <1>2, <1>3, <2>10, <2>12, ReadOn
  <2>14. Stream'[1] = Cursor'
    <3>1. Cursor' = IF sent[k].length = 0 THEN <<k + 1, 0>> ELSE <<k, HeaderSize + 0>>
      BY <1>2, <2>10, <2>11 DEF Cursor
    <3>2. x + HeaderSize < Size(sent, k) <=> sent[k].length # 0
      BY <1>3, <2>3, <2>6
    <3>3. x + HeaderSize = HeaderSize /\ HeaderSize + 0 = HeaderSize
      BY <1>3, <2>3
    <3> QED BY <2>3, <2>8, <2>13, <3>1, <3>2, <3>3
  <2>15. TakenApart'
    <3>1. Bytes(header', HeaderSize, HeaderSize + Len(payload')) = <<>>
      BY <1>3, <2>11 DEF Bytes
    <3> QED BY <1>5, <2>10, <2>11, <3>1 DEF TakenApart
  <2> QED BY <1>2, <2>10, <2>13, <2>14, <2>15
<1> QED BY <1>7, <1>8

\* parsePayload takes bytes of the frame of the header only, and all of them.
LEMMA ParsePayloadTrack ==
  ASSUME ParserInv, ParserInv', Undisturbed, faults = 0, ParsePayload
  PROVE  TakenApart' /\ Track(sent', Stream', Ahead') /\ Stream'[1] = Cursor'
<1>1. /\ TakenApart /\ Track(sent, Stream, Ahead) /\ Stream[1] = Cursor
  BY DEF Undisturbed
<1>2. PICK m : m = IF Needed < Left THEN Needed ELSE Left
  OBVIOUS
<1>3. /\ Left > 0 /\ state = "PAYLOAD" /\ streamVars' = streamVars
      /\ sent' = sent /\ wire' = wire /\ input' = input /\ busy' = busy /\ header' = header
      /\ payload' = payload \o SubSeq(input, pos + 1, pos + m) /\ pos' = pos + m
      /\ state' = IF Len(payload) + m >= sent[header].length THEN "COMPLETE" ELSE state
  BY <1>2 DEF ParsePayload, InLoop, clientVars
<1>4. /\ Left \in Nat /\ Ahead \in Nat /\ HeaderSize \in Nat /\ HeaderSize > 0
      /\ Len(sent) \in Nat /\ Len(payload) \in Nat /\ Len(input) \in Nat
  BY AheadFacts
<1>5. Left <= Ahead
  <2>1. Len(wire) \in Nat /\ Left \in Nat
    BY AheadFacts
  <2> QED BY <2>1 DEF Ahead
<1>6. pos \in Nat /\ pos + Left = Len(input)
  <2>1. pos \in 0 .. Len(input)
    BY DEF ParserInv, TypeOK
  <2> QED BY <1>4, <2>1 DEF Left
<1>7. header \in 1 .. Len(sent) /\ Len(payload) <= sent[header].length
  <2>1. header \in 0 .. Len(sent) /\ header > 0
    BY <1>3 DEF ParserInv, TypeOK
  <2>2. Len(payload) <= sent[header].length
    BY <1>3 DEF ParserInv, PayloadFits
  <2> QED BY <1>4, <2>1, <2>2
<1>8. PICK k, p, l : k = header /\ p = Len(payload) /\ l = sent[header].length
  OBVIOUS
<1>9. p \in Nat /\ l \in Nat /\ p <= l /\ Size(sent, k) \in Nat /\ Size(sent, k) = HeaderSize + l
  <2>1. /\ sent[header].length \in Nat /\ Size(sent, header) \in Nat
        /\ Size(sent, header) = HeaderSize + sent[header].length
    BY <1>7, AheadFacts
  <2> QED BY <1>4, <1>7, <1>8, <2>1
<1>10. m \in Nat /\ m <= Left /\ p + m <= l /\ (p = l => m = 0) /\ (p < l => m > 0)
  <2>1. Needed = l - p
    BY <1>8 DEF Needed
  <2>2. m = IF l - p < Left THEN l - p ELSE Left
    BY <1>2, <2>1
  <2>3. Left > 0 /\ Left \in Nat /\ p \in Nat /\ l \in Nat /\ p <= l
    BY <1>3, <1>4, <1>9
  <2>4. CASE l - p < Left
    BY <2>2, <2>3, <2>4
  <2>5. CASE ~(l - p < Left)
    BY <2>2, <2>3, <2>5
  <2> QED BY <2>4, <2>5
<1>11. Track(sent', Stream', Ahead') /\ Stream'[1] = Stream[m + 1]
  BY <1>1, <1>3, <1>10, ReadOn
<1>12. PICK w, n : w = Stream /\ n = Ahead
  OBVIOUS
<1>13. /\ w[m + 1] = IF p + m = l THEN <<k + 1, 0>> ELSE <<k, HeaderSize + (p + m)>>
       /\ \A j \in 1 .. m : w[j] = <<k, HeaderSize + (p + j - 1)>>
  <2>1. CASE p = l
    <3>1. w[1] = <<k + 1, 0>>
      BY <1>1, <1>8, <1>12, <2>1 DEF Cursor
    <3>2. m = 0 /\ m + 1 = 1 /\ p + m = l
      BY <1>9, <1>10, <2>1
    <3> QED BY <3>1, <3>2
  <2>2. CASE p # l
    <3>1. w[1] = <<k, HeaderSize + p>>
      BY <1>1, <1>3, <1>8, <1>12, <2>2 DEF Cursor
    <3>2. PICK x : x = HeaderSize + p
      OBVIOUS
    <3>3. x \in Nat /\ x + m <= Size(sent, k) /\ Size(sent, k) \in Nat
      BY <1>4, <1>9, <1>10, <3>2
    <3>4. n \in Nat /\ m \in Nat /\ m <= n /\ n > 0
      BY <1>3, <1>4, <1>5, <1>10, <1>12
    <3>5. /\ n \in Nat /\ m \in Nat /\ m <= n /\ n > 0 /\ Track(sent, w, n)
          /\ w[1] = <<k, x>> /\ x + m <= Size(sent, k) /\ Size(sent, k) \in Nat
      BY <1>1, <1>12, <3>1, <3>2, <3>3, <3>4
    <3>6. PICK st : st = sent
      OBVIOUS
    <3>7. /\ n \in Nat /\ m \in Nat /\ m <= n /\ n > 0 /\ Track(st, w, n)
          /\ w[1] = <<k, x>> /\ x + m <= Size(st, k) /\ Size(st, k) \in Nat
      BY <3>5, <3>6
    <3>8. /\ k \in 1 .. Len(st) /\ x \in Nat
          /\ \A j \in 1 .. m : w[j] = <<k, x + j - 1>>
          /\ w[m + 1] = IF x + m < Size(st, k) THEN <<k, x + m>> ELSE <<k + 1, 0>>
      BY <3>7, TrackStart
    <3>9. /\ \A j \in 1 .. m : w[j] = <<k, x + j - 1>>
          /\ w[m + 1] = IF x + m < Size(sent, k) THEN <<k, x + m>> ELSE <<k + 1, 0>>
      BY <3>6, <3>8
    <3>10. /\ x + m < Size(sent, k) <=> p + m # l
           /\ x + m = HeaderSize + (p + m)
      BY <1>4, <1>9, <1>10, <3>2
    <3>11. \A j \in 1 .. m : x + j - 1 = HeaderSize + (p + j - 1)
      BY <1>4, <1>9, <1>10, <3>2
    <3> QED BY <3>9, <3>10, <3>11
  <2> QED BY <2>1, <2>2
<1>14. PICK part : part = SubSeq(input, pos + 1, pos + m)
  OBVIOUS
<1>15. /\ part \in Seq(ByteSet) /\ Len(part) = m
       /\ \A j \in 1 .. m : part[j] = <<k, HeaderSize + (p + j - 1)>>
  <2>1. input \in Seq(ByteSet) /\ pos + m \in 0 .. Len(input) /\ pos + 1 \in Nat \ {0}
    <3>1. input \in Seq(ByteSet)
      BY DEF ParserInv, BytesOK
    <3> QED BY <1>4, <1>6, <1>10, <3>1
  <2>2. /\ part \in Seq(ByteSet)
        /\ Len(part) = IF pos + 1 <= pos + m THEN (pos + m) - (pos + 1) + 1 ELSE 0
    BY <1>14, <2>1, PartOf
  <2>3. Len(part) = m
    BY <1>6, <1>10, <2>2
  <2>4. ASSUME NEW j \in 1 .. m PROVE part[j] = <<k, HeaderSize + (p + j - 1)>>
    <3>1. part[j] = input[(pos + 1) + j - 1]
      BY <1>6, <1>10, <1>14, <2>1
    <3>2. (pos + 1) + j - 1 = pos + j /\ j \in 1 .. Left
      BY <1>4, <1>6, <1>10
    <3>3. Stream[j] = input[pos + j]
      BY <3>2, StreamAt
    <3>4. part[j] = w[j]
      BY <1>12, <3>1, <3>2, <3>3
    <3> QED BY <1>13, <3>4
  <2> QED BY <2>2, <2>3, <2>4
<1>16. /\ payload' = payload \o part
       /\ Len(payload') = p + m
       /\ \A i \in 1 .. (p + m) : payload'[i] = IF i <= p THEN payload[i] ELSE part[i - p]
  <2>1. payload \in Seq(ByteSet)
    BY DEF ParserInv, BytesOK
  <2>2. /\ Len(payload \o part) = Len(payload) + Len(part)
        /\ \A i \in 1 .. (Len(payload) + Len(part)) :
             (payload \o part)[i] = IF i <= Len(payload) THEN payload[i] ELSE part[i - Len(payload)]
    BY <1>15, <2>1, ConcatProperties
  <2> QED BY <1>3, <1>8, <1>14, <1>15, <2>2
<1>17. payload' = Bytes(k, HeaderSize, HeaderSize + (p + m))
  <2>1. payload = Bytes(k, HeaderSize, HeaderSize + p)
    BY <1>1, <1>3, <1>8 DEF TakenApart
  <2>2. \A i \in 1 .. p : payload[i] = <<k, HeaderSize + i - 1>>
    BY <1>4, <1>9, <2>1 DEF Bytes
  <2>3. ASSUME NEW i \in 1 .. (p + m) PROVE payload'[i] = <<k, HeaderSize + i - 1>>
    <3>1. CASE i <= p
      BY <1>9, <1>16, <2>2, <3>1
    <3>2. CASE ~(i <= p)
      <4>1. PICK j \in 1 .. m : j = i - p
        BY <1>9, <1>10, <3>2
      <4>2. payload'[i] = part[j]
        BY <1>16, <3>2, <4>1
      <4>3. HeaderSize + (p + j - 1) = HeaderSize + i - 1
        BY <1>4, <1>9, <4>1
      <4> QED BY <1>15, <4>2, <4>3
    <3> QED BY <3>1, <3>2
  <2>4. payload' \in Seq(ByteSet')
    BY DEF ParserInv, BytesOK
  <2>5. payload' = [i \in 1 .. (p + m) |-> payload'[i]]
    <3>1. payload' = [i \in 1 .. Len(payload') |-> payload'[i]]
      BY <2>4, LenProperties
    <3> QED BY <1>16, <3>1
  <2>6. payload' = [i \in 1 .. (p + m) |-> <<k, HeaderSize + i - 1>>]
    BY <2>3, <2>5
  <2>7. (HeaderSize + (p + m)) - HeaderSize = p + m
    BY <1>4, <1>9, <1>10
  <2> QED BY <2>6, <2>7 DEF Bytes
<1>18. /\ header' = k /\ made' = made /\ Len(payload') = p + m /\ sent'[header'].length = l
       /\ k = made + 1 /\ state' # "HEADER"
       /\ state' = IF p + m >= l THEN "COMPLETE" ELSE "PAYLOAD"
  BY <1>1, <1>3, <1>8, <1>16 DEF TakenApart, streamVars
<1>19. TakenApart'
  <2>1. state' = "COMPLETE" => p + m = l
    BY <1>9, <1>10, <1>18
  <2> QED BY <1>17, <1>18, <2>1 DEF TakenApart
<1>20. Stream'[1] = Cursor'
  <2>1. Cursor' = IF p + m = l THEN <<k + 1, 0>> ELSE <<k, HeaderSize + (p + m)>>
    BY <1>18 DEF Cursor
  <2> QED BY <1>11, <1>12, <1>13, <2>1
<1> QED BY <1>11, <1>19, <1>20

\* Nothing else moves the bytes ahead of the loop.
LEMMA StillTrack ==
  ASSUME ParserInv, ParserInv', Track(sent, Stream, Ahead),
         sent' = sent, wire' = wire, input' = input, pos' = pos
  PROVE  /\ Track(sent', Stream', Ahead') /\ Stream'[1] = Stream[1]
         /\ Left' = Left
<1>1. pos \in Nat /\ Left \in Nat
  BY AheadFacts
<1>2. PICK m \in Nat : m = 0
  OBVIOUS
<1>3. m <= Left /\ pos' = pos + m
  BY <1>1, <1>2
<1>4. Track(sent', Stream', Ahead') /\ Stream'[1] = Stream[m + 1]
  BY <1>3, ReadOn
<1>5. Left' = Left
  BY DEF Left
<1> QED BY <1>2, <1>4, <1>5

\* The end of feed: nothing of the input was left.
LEMMA ReturnTrack ==
  ASSUME ParserInv, Track(sent, Stream, Ahead), Return
  PROVE  /\ Track(sent', Stream', Ahead') /\ Stream'[1] = Stream[1]
         /\ Left' = 0
<1>1. /\ Left = 0 /\ input' = SubSeq(input, pos + 1, Len(input)) /\ pos' = 0
      /\ sent' = sent /\ wire' = wire
  BY DEF Return, clientVars
<1>2. /\ Len(input) \in Nat /\ pos \in 0 .. Len(input) /\ Left = Len(input) - pos
      /\ Len(wire) \in Nat
  BY AheadFacts
<1>3. input \in Seq(ByteSet)
  BY DEF ParserInv, BytesOK
<1>4. pos = Len(input)
  BY <1>1, <1>2
<1>5. Len(input') = 0
  BY <1>1, <1>2, <1>3, <1>4
<1>6. Left' = 0 /\ Ahead' = Ahead
  <2>1. Left' = Len(input') - pos'
    BY DEF Left
  <2>2. Left' = 0
    BY <1>1, <1>5, <2>1
  <2> QED BY <1>1, <2>2 DEF Ahead
<1>7. ASSUME NEW j \in 1 .. (Ahead + 1) PROVE Stream'[j] = Stream[j]
  <2>1. j \in 1 .. (Ahead' + 1) /\ ~(j <= Left) /\ ~(j <= Left') /\ Left' = Left
    BY <1>1, <1>2, <1>6 DEF Ahead
  <2>2. Stream'[j] = IF j <= Ahead THEN wire[j - Left] ELSE <<Len(sent) + 1, 0>>
    BY <1>1, <1>6, <2>1 DEF Stream
  <2>3. Stream[j] = IF j <= Ahead THEN wire[j - Left] ELSE <<Len(sent) + 1, 0>>
    BY <2>1 DEF Stream
  <2> QED BY <2>2, <2>3
<1>8. PICK m \in Nat : m = 0
  OBVIOUS
<1>9. Ahead \in Nat
  BY AheadFacts
<1>10. /\ m <= Ahead /\ Ahead' = Ahead - m
       /\ \A j \in 1 .. (Ahead - m + 1) : Stream'[j] = Stream[j + m]
  BY <1>6, <1>7, <1>8, <1>9
<1>11. Track(sent', Stream', Ahead') /\ Stream'[1] = Stream[m + 1]
  BY <1>1, <1>10, Moved
<1> QED BY <1>6, <1>8, <1>11

\* Every step keeps an undisturbed stream.
LEMMA NextUndisturbed ==
  ASSUME ParserInv, ParserInv', Undisturbed, [Next]_vars
  PROVE  Undisturbed'
<1> SUFFICES ASSUME faults' = 0
             PROVE  /\ Acceptable' /\ TakenApart'
                    /\ Track(sent', Stream', Ahead') /\ Stream'[1] = Cursor'
                    /\ ~busy' => Left' = 0
  BY DEF Undisturbed
<1>1. faults \in Nat
  BY AheadFacts
<1>2. ASSUME faults = 0
      PROVE  /\ Acceptable /\ TakenApart /\ Track(sent, Stream, Ahead)
             /\ Stream[1] = Cursor /\ (~busy => Left = 0)
  BY <1>2 DEF Undisturbed
<1>3. ASSUME sent' = sent, faults = 0 PROVE Acceptable'
  BY <1>2, <1>3 DEF Acceptable
<1>4. ASSUME sent' = sent, header' = header, payload' = payload, state' = state
      PROVE  Cursor' = Cursor /\ (made' = made /\ TakenApart => TakenApart')
  BY <1>4 DEF Cursor, TakenApart
<1>5. CASE \E f \in Frames : Compose(f)
  <2>1. PICK f \in Frames : Compose(f)
    BY <1>5
  <2>2. /\ ~busy /\ busy' = busy /\ input' = input /\ pos' = pos
        /\ header' = header /\ payload' = payload /\ state' = state /\ made' = made
        /\ sent' = Append(sent, f)
    BY <2>1 DEF Compose, parserVars, streamVars
  <2>3. f.length <= MaxPayload /\ faults = 0
    <3>1. IF f.length <= MaxPayload THEN faults' = faults ELSE faults' = faults + 1
      BY <2>1 DEF Compose, Fault
    <3> QED BY <1>1, <3>1
  <2>4. Track(sent', Stream', Ahead') /\ Stream'[1] = Stream[1]
    BY <1>2, <2>1, <2>3, ComposeTrack
  <2>5. /\ Len(sent) \in Nat /\ Len(sent') = Len(sent) + 1 /\ sent'[Len(sent) + 1] = f
        /\ \A k \in 1 .. Len(sent) : sent'[k] = sent[k]
    <3>1. sent \in Seq(Frames)
      BY DEF ParserInv, TypeOK
    <3> QED BY <2>2, <3>1, AppendProperties, LenProperties
  <2>6. Acceptable'
    <3> SUFFICES ASSUME NEW k \in 1 .. Len(sent') PROVE sent'[k].length <= MaxPayload
      BY DEF Acceptable
    <3>1. CASE k = Len(sent) + 1
      BY <2>3, <2>5, <3>1
    <3>2. CASE k # Len(sent) + 1
      <4>1. k \in 1 .. Len(sent)
        BY <2>5, <3>2
      <4> QED BY <1>2, <2>3, <2>5, <4>1 DEF Acceptable
    <3> QED BY <3>1, <3>2
  <2>7. state # "HEADER" => sent'[header] = sent[header]
    <3>1. header \in 0 .. Len(sent) /\ (state # "HEADER" => header > 0)
      BY DEF ParserInv, TypeOK
    <3> QED BY <2>5, <3>1
  <2>8. Cursor' = Cursor /\ TakenApart'
    BY <1>2, <2>2, <2>3, <2>7 DEF Cursor, TakenApart
  <2>9. Left' = Left
    BY <2>2 DEF Left
  <2> QED BY <1>2, <2>2, <2>3, <2>4, <2>6, <2>8, <2>9
<1>6. CASE \E n \in Sizes : Feed(n)
  <2>1. PICK n \in Sizes : Feed(n)
    BY <1>6
  <2>2. /\ busy' /\ sent' = sent /\ faults' = faults /\ header' = header
        /\ payload' = payload /\ state' = state /\ made' = made
    BY <2>1 DEF Feed
  <2>3. Track(sent', Stream', Ahead') /\ Stream'[1] = Stream[1]
    BY <1>2, <2>1, <2>2, FeedTrack
  <2> QED BY <1>2, <1>3, <1>4, <2>2, <2>3
<1>7. CASE (\E n \in Sizes : Lose(n)) \/ Replace
  <2>1. faults' = faults + 1
    BY <1>7 DEF Lose, Replace, Fault
  <2> QED BY <1>1, <2>1
<1>8. CASE ParseHeader
  <2>1. faults = 0
    BY <1>8 DEF ParseHeader, clientVars
  <2>2. /\ TakenApart' /\ Track(sent', Stream', Ahead') /\ Stream'[1] = Cursor'
        /\ busy' /\ sent' = sent
    BY <1>8, <2>1, ParseHeaderTrack
  <2> QED BY <1>3, <2>1, <2>2
<1>9. CASE ParsePayload
  <2>1. faults = 0 /\ sent' = sent /\ busy'
    BY <1>9 DEF ParsePayload, InLoop, clientVars
  <2>2. TakenApart' /\ Track(sent', Stream', Ahead') /\ Stream'[1] = Cursor'
    BY <1>9, <2>1, ParsePayloadTrack
  <2> QED BY <1>3, <2>1, <2>2
<1>10. CASE Complete
  <2>1. /\ faults = 0 /\ sent' = sent /\ wire' = wire /\ input' = input /\ pos' = pos
        /\ busy' /\ header' = header /\ made' = header /\ payload' = payload
        /\ state = "COMPLETE" /\ state' = "HEADER"
    BY <1>10 DEF Complete, InLoop, clientVars
  <2>2. Track(sent', Stream', Ahead') /\ Stream'[1] = Stream[1]
    BY <1>2, <2>1, StillTrack
  <2>3. Cursor' = Cursor /\ TakenApart'
    BY <1>2, <2>1 DEF Cursor, TakenApart
  <2> QED BY <1>2, <1>3, <2>1, <2>2, <2>3
<1>11. CASE Return
  <2>1. /\ faults = 0 /\ sent' = sent /\ header' = header /\ payload' = payload
        /\ state' = state /\ made' = made
    BY <1>11 DEF Return, clientVars, streamVars
  <2>2. /\ Track(sent', Stream', Ahead') /\ Stream'[1] = Stream[1] /\ Left' = 0
    BY <1>2, <1>11, <2>1, ReturnTrack
  <2> QED BY <1>2, <1>3, <1>4, <2>1, <2>2
<1>12. CASE Tick \/ UNCHANGED vars
  <2>1. /\ faults = 0 /\ sent' = sent /\ wire' = wire /\ input' = input /\ pos' = pos
        /\ busy' = busy /\ header' = header /\ payload' = payload /\ state' = state
        /\ made' = made
    BY <1>12 DEF Tick, vars, clientVars, parserVars, streamVars
  <2>2. Track(sent', Stream', Ahead') /\ Stream'[1] = Stream[1] /\ Left' = Left
    BY <1>2, <2>1, StillTrack
  <2> QED BY <1>2, <1>3, <1>4, <2>1, <2>2
<1> QED BY <1>5, <1>6, <1>7, <1>8, <1>9, <1>10, <1>11, <1>12 DEF Next, Loop

LEMMA InitUndisturbed ==
  ASSUME Init
  PROVE  Undisturbed
<1>1. /\ sent = <<>> /\ wire = <<>> /\ input = <<>> /\ pos = 0 /\ state = "HEADER"
      /\ header = 0 /\ made = 0
  BY DEF Init
<1>2. Len(sent) = 0 /\ Len(wire) = 0 /\ Len(input) = 0
  BY <1>1
<1>3. Left = 0 /\ Ahead = 0
  BY <1>1, <1>2 DEF Left, Ahead
<1>4. Stream[1] = <<Len(sent) + 1, 0>>
  BY <1>3 DEF Stream
<1>5. Track(sent, Stream, Ahead)
  BY <1>3, <1>4 DEF Track
<1>6. TakenApart /\ Acceptable /\ Stream[1] = Cursor
  BY <1>1, <1>2, <1>4 DEF TakenApart, Acceptable, Cursor
<1> QED BY <1>3, <1>5, <1>6 DEF Undisturbed

LEMMA UndisturbedReassembles ==
  ASSUME ParserInv, Undisturbed
  PROVE  Reassembled
<1> SUFFICES ASSUME faults = 0 PROVE Reassembled
  BY DEF Reassembled, FramesIntact, OneBehind
<1>1. /\ TakenApart /\ Stream[1] = Cursor /\ (~busy => Left = 0)
  BY DEF Undisturbed
<1>2. FramesIntact
  BY <1>1 DEF FramesIntact, TakenApart, Body
<1>3. OneBehind
  <2> SUFFICES ASSUME ~busy
               PROVE  made \in Received \cup {0} /\ \A k \in Received : k <= made + 1
    BY DEF OneBehind
  <2>1. Left = 0
    BY <1>1
  <2>2. /\ Len(wire) \in Nat /\ Len(sent) \in Nat /\ Left \in Nat /\ Ahead \in Nat
    BY AheadFacts
  <2>3. made \in 0 .. Len(sent) /\ wire \in Seq(ByteSet)
    BY DEF ParserInv, TypeOK, BytesOK
  <2>4. PICK c : c = Cursor[1]
    OBVIOUS
  <2>5. c \in {made + 1, made + 2}
    <3>1. Cursor[1] \in {header + 1, header} /\ (state = "HEADER" => Cursor[1] = header + 1)
      BY DEF Cursor
    <3>2. CASE state = "HEADER"
      BY <1>1, <2>4, <3>1, <3>2 DEF TakenApart
    <3>3. CASE state # "HEADER"
      <4>1. header = made + 1
        BY <1>1, <3>3 DEF TakenApart
      <4> QED BY <2>3, <2>4, <3>1, <4>1
    <3> QED BY <3>2, <3>3
  <2>6. wire = <<>> => c = Len(sent) + 1
    <3> SUFFICES ASSUME wire = <<>> PROVE c = Len(sent) + 1
      OBVIOUS
    <3>1. Ahead = 0
      BY <2>1 DEF Ahead
    <3>2. Stream[Ahead + 1] = <<Len(sent) + 1, 0>>
      BY StreamAt
    <3>3. Cursor = <<Len(sent) + 1, 0>>
      <4>1. PICK e : e = Ahead + 1
        OBVIOUS
      <4>2. e = 1
        BY <3>1, <4>1
      <4>3. Stream[e] = <<Len(sent) + 1, 0>>
        BY <3>2, <4>1
      <4> QED BY <1>1, <4>2, <4>3
    <3> QED BY <2>4, <3>3
  <2>7. wire # <<>> => wire[1][1] = c
    <3> SUFFICES ASSUME wire # <<>> PROVE wire[1][1] = c
      OBVIOUS
    <3>1. Ahead > 0
      BY <2>1, <2>2, <2>3, EmptySeq DEF Ahead
    <3>2. 1 \in (Left + 1) .. Ahead /\ 1 - Left = 1
      BY <2>1, <2>2, <3>1
    <3>3. Stream[1] = wire[1 - Left]
      BY <3>2, StreamAt
    <3>4. wire[1] = Cursor
      BY <1>1, <3>2, <3>3
    <3> QED BY <2>4, <3>4
  <2>8. ASSUME NEW k \in 1 .. Len(sent) PROVE k \in Received <=> k < c
    <3>1. CASE wire = <<>>
      BY <2>2, <2>6, <3>1 DEF Received
    <3>2. CASE wire # <<>>
      BY <2>7, <3>2 DEF Received
    <3> QED BY <3>1, <3>2
  <2>9. Received \subseteq 1 .. Len(sent)
    BY DEF Received
  <2>10. made \in Received \cup {0}
    <3>1. CASE made = 0
      BY <3>1
    <3>2. CASE made # 0
      <4>1. made \in 1 .. Len(sent) /\ made < c
        BY <2>2, <2>3, <2>5, <3>2
      <4> QED BY <2>8, <4>1
    <3> QED BY <3>1, <3>2
  <2>11. ASSUME NEW k \in Received PROVE k <= made + 1
    <3>1. k \in 1 .. Len(sent)
      BY <2>9
    <3>2. k < c
      BY <2>8, <3>1
    <3> QED BY <2>2, <2>3, <2>5, <3>1, <3>2
  <2> QED BY <2>10, <2>11
<1> QED BY <1>2, <1>3 DEF Reassembled

\* Wherever the client's byte stream is cut into datagrams, as long as nothing is
\* lost and no payload is too long, feed takes it apart into exactly the frames
\* that were sent, in order and each with its own payload, and when feed returns
\* it is at most one received frame behind (parseHeader, parsePayload).
THEOREM StreamReassembled == Spec => []Reassembled
<1>1. Init => ParserInv /\ Undisturbed
  BY InitParser, InitUndisturbed
<1>2. (ParserInv /\ Undisturbed) /\ [Next]_vars => (ParserInv /\ Undisturbed)'
  BY NextParser, NextUndisturbed
<1>3. ParserInv /\ Undisturbed => Reassembled
  BY UndisturbedReassembles
<1> QED BY <1>1, <1>2, <1>3, PTL DEF Spec
=============================================================================
