--------------------------- MODULE MyProtoAdapter ---------------------------
(***************************************************************************)
(* The sample protocol adapter (class MyProtoAdapter,                      *)
(* adapters/myproto_adapter.cpp) and a client that cuts its byte stream of *)
(* frames into datagrams, some of which get lost.  One iteration of the    *)
(* loop in feed is one action, so a feed that never returns can be told    *)
(* from one that does; the adapter runs in one coroutine that does not     *)
(* yield, so nothing else happens meanwhile.                               *)
(*                                                                         *)
(* A byte is the pair <<k, i>>, byte i of the k-th frame the client sent:  *)
(* a header read from byte 0 of a frame is that frame's header, and bytes  *)
(* read from anywhere else do not hold the magic number.                   *)
(***************************************************************************)
EXTENDS Integers, Sequences

CONSTANTS
  Frames,            \* headers the client may send
  Configs,           \* parameters of start: hot_start, low_latency_drop_b
  HeaderSize,        \* bytes of a header on the wire (35)
  StructSize,        \* sizeof(MyProtoFrame) (48)
  MaxPayload,        \* longest payload accepted (1 MB)
  BFrameDelay,       \* b_frame_delay_ms_
  Heartbeat,         \* heartbeat_interval_ms_
  MaxFaults,         \* bound: faults in a behaviour
  MaxFrames,         \* bound: frames sent in a behaviour
  MaxDatagram        \* bound: bytes of a datagram, and of those not yet in one

ParameterSets == {"SPS", "PPS"}

\* A frame header, with the parameter sets its payload carries.
FrameType ==
  [length : Nat, video : BOOLEAN, keyFlag : BOOLEAN, bFrame : BOOLEAN,
   timestamp : Nat, sets : SUBSET ParameterSets]

ASSUME MyProtoAssumption ==
  /\ Frames \subseteq FrameType
  /\ Configs \subseteq [hotStart : BOOLEAN, dropB : BOOLEAN]
  /\ HeaderSize \in Nat \ {0} /\ StructSize \in Nat /\ HeaderSize <= StructSize
  /\ MaxPayload \in Nat /\ BFrameDelay \in Nat /\ Heartbeat \in Nat
  /\ MaxFaults \in Nat /\ MaxFrames \in Nat /\ MaxDatagram \in Nat

VARIABLES
  config,    \* drop_b_in_low_latency_ and hot_start_
  sent,      \* the client: headers of the frames sent so far
  wire,      \* the client: bytes not yet put into a datagram
  faults,    \* frames too long, datagrams lost and adapters replaced so far
  input,     \* input_buffer_
  pos,       \* buffer_->pos(), 0 outside feed
  busy,      \* feed is running
  state,     \* state_
  header,    \* frame_header_, as the number of its frame
  payload,   \* payload_buffer_
  made,      \* the last frame createStdFrame was called for
  started,   \* stream_started_
  base,      \* base_timestamp_ms_, or None
  lastDts,   \* last_dts_ms_
  silence,   \* time since last_frame_wallclock_ms_, saturating, or None
  params,    \* param_manager_: parameter set -> frame it came with
  pushed     \* frames handed to the source, with their dts

clientVars == <<sent, wire, faults>>
parserVars == <<input, pos, busy, state, header, payload>>
streamVars == <<made, started, base, lastDts, silence, params, pushed>>
vars == <<config, clientVars, parserVars, streamVars>>

None == -1
States == {"HEADER", "PAYLOAD", "COMPLETE"}

Init ==
  /\ config \in Configs
  /\ sent = <<>> /\ wire = <<>> /\ faults = 0
  /\ input = <<>> /\ pos = 0 /\ busy = FALSE
  /\ state = "HEADER" /\ header = 0 /\ payload = <<>>
  /\ made = 0 /\ started = FALSE /\ base = None /\ lastDts = 0
  /\ silence = None /\ params = [s \in {} |-> 0] /\ pushed = <<>>

-----------------------------------------------------------------------------
(* The client and the network *)

Bytes(k, from, to) == [i \in 1 .. (to - from) |-> <<k, from + i - 1>>]
Body(k) == Bytes(k, HeaderSize, HeaderSize + sent[k].length)

Fault == faults < MaxFaults /\ faults' = faults + 1

Compose(f) ==
  /\ ~busy
  /\ Len(sent) < MaxFrames
  /\ Len(wire) + HeaderSize + f.length <= MaxDatagram
  /\ sent' = Append(sent, f)
  /\ wire' = wire \o Bytes(Len(sent) + 1, 0, HeaderSize + f.length)
  /\ IF f.length <= MaxPayload THEN UNCHANGED faults ELSE Fault
  /\ UNCHANGED <<config, parserVars, streamVars>>

Lose(n) ==
  /\ ~busy
  /\ wire' = SubSeq(wire, n + 1, Len(wire))
  /\ Fault
  /\ UNCHANGED <<config, sent, parserVars, streamVars>>

-----------------------------------------------------------------------------
(* feed *)

\* Mutated form: a silent stream is never paused.
TimedOut_Never == FALSE

TimedOut == Heartbeat > 0 /\ silence # None /\ silence > Heartbeat

\* Up to the loop: the heartbeat, then a new SrsBuffer over all of the input.
Feed(n) ==
  /\ ~busy
  /\ started' = (started /\ ~TimedOut)
  /\ input' = input \o SubSeq(wire, 1, n)
  /\ wire' = SubSeq(wire, n + 1, Len(wire))
  /\ busy' = TRUE
  /\ UNCHANGED <<config, sent, faults, pos, state, header, payload,
                 made, base, lastDts, silence, params, pushed>>

Left == Len(input) - pos
InLoop(s) == busy /\ Left > 0 /\ state = s

\* The magic number and the length of the header that starts with this byte.
Accepts(byte) == byte[2] = 0 /\ sent[byte[1]].length <= MaxPayload

\* With too few bytes left nothing is consumed and the loop goes round again.
ParseHeader ==
  /\ InLoop("HEADER")
  /\ LET first == input[pos + 1] IN
     IF Left < StructSize
       THEN UNCHANGED <<clientVars, parserVars>>
       ELSE /\ IF Accepts(first)
                 THEN /\ pos' = pos + HeaderSize
                      /\ header' = first[1]
                      /\ payload' = <<>>
                      /\ state' = "PAYLOAD"
                      /\ UNCHANGED busy
                 ELSE /\ busy' = FALSE   \* returned: the input is not erased
                      /\ pos' = 0
                      /\ UNCHANGED <<header, payload, state>>
            /\ UNCHANGED <<clientVars, input>>
  /\ UNCHANGED <<config, streamVars>>

\* Mutated form: what an earlier datagram brought is forgotten.
Needed_Whole == sent[header].length

Needed == sent[header].length - Len(payload)

ParsePayload ==
  /\ InLoop("PAYLOAD")
  /\ LET n == IF Needed < Left THEN Needed ELSE Left IN
     /\ payload' = payload \o SubSeq(input, pos + 1, pos + n)
     /\ pos' = pos + n
     /\ state' = IF Len(payload) + n >= sent[header].length THEN "COMPLETE" ELSE state
  /\ UNCHANGED <<config, clientVars, input, busy, header, streamVars>>

Return ==
  /\ busy
  /\ Left = 0
  /\ input' = SubSeq(input, pos + 1, Len(input))
  /\ pos' = 0
  /\ busy' = FALSE
  /\ UNCHANGED <<config, clientVars, state, header, payload, streamVars>>

-----------------------------------------------------------------------------
(* createStdFrame *)

IsKey(f) == f.video /\ f.keyFlag

\* Mutated form: a timestamp may go back.
ValidTimestamp_AnyOrder(dts, pts) == dts >= 0 /\ pts >= 0 /\ pts >= dts

ValidTimestamp(dts, pts) ==
  /\ dts >= 0 /\ pts >= 0
  /\ ~(lastDts > 0 /\ dts < lastDts)
  /\ pts >= dts

\* update_parameter_set of ParameterSetManager, for the valid sets of frame k.
Updated(known, k, sets) ==
  [s \in DOMAIN known \cup sets |-> IF s \in sets THEN k ELSE known[s]]

\* processParameterSets: the sets known after frame k.
Learned(k) == IF IsKey(sent[k]) THEN Updated(params, k, sent[k].sets) ELSE params

\* resend_parameter_sets, for one kind of set.
Resent(s, dts, known) ==
  IF s \in DOMAIN known THEN <<[frame |-> known[s], dts |-> dts]>> ELSE <<>>

\* What the source receives: in hot start, the parameter sets go in front of a
\* keyframe.
Handed(k, dts, known) ==
  (IF config.hotStart /\ IsKey(sent[k])
     THEN Resent("SPS", dts, known) \o Resent("PPS", dts, known) ELSE <<>>)
    \o <<[frame |-> k, dts |-> dts]>>

CreateStdFrame ==
  LET f == sent[header]
      origin == IF base = None THEN f.timestamp ELSE base
      dts == f.timestamp - origin
      pts == IF f.bFrame THEN dts + BFrameDelay ELSE dts
      valid == ValidTimestamp(dts, pts)
      open == started \/ config.hotStart \/ IsKey(f)
      dropped == config.dropB /\ f.bFrame /\ ~IsKey(f)
  IN  /\ base' = origin
      /\ params' = IF valid THEN Learned(header) ELSE params
      /\ started' = (started \/ (valid /\ open))
      /\ IF valid /\ open /\ ~dropped
           THEN /\ lastDts' = dts
                /\ silence' = 0
                /\ pushed' = pushed \o Handed(header, dts, params')
           ELSE UNCHANGED <<lastDts, silence, pushed>>

Complete ==
  /\ InLoop("COMPLETE")
  /\ CreateStdFrame
  /\ made' = header
  /\ state' = "HEADER"
  /\ UNCHANGED <<config, clientVars, input, pos, busy, header, payload>>

-----------------------------------------------------------------------------
\* close, the end of this adapter, and start of the one that the client's next
\* datagram creates.
Replace ==
  /\ ~busy
  /\ Fault
  /\ input' = <<>> /\ pos' = 0
  /\ state' = "HEADER" /\ header' = 0 /\ payload' = <<>>
  /\ made' = 0 /\ started' = FALSE /\ base' = None /\ lastDts' = 0
  /\ silence' = None /\ params' = [s \in {} |-> 0] /\ pushed' = <<>>
  /\ UNCHANGED <<config, sent, wire, busy>>

Tick ==
  /\ ~busy
  /\ silence' = IF silence = None \/ silence > Heartbeat THEN silence ELSE silence + 1
  /\ UNCHANGED <<config, clientVars, parserVars,
                 made, started, base, lastDts, params, pushed>>

Loop == ParseHeader \/ ParsePayload \/ Complete \/ Return

Sizes == {n \in 1 .. MaxDatagram : n <= Len(wire)}

Next ==
  \/ \E f \in Frames : Compose(f)
  \/ \E n \in Sizes : Feed(n)
  \/ \E n \in Sizes : Lose(n)
  \/ Loop
  \/ Replace
  \/ Tick

Spec == Init /\ [][Next]_vars

\* A running coroutine keeps running.
FairSpec == Spec /\ WF_vars(Loop)

-----------------------------------------------------------------------------
\* The members have the types of myproto_adapter.hpp (lines 57-89), and no
\* payload is longer than parseHeader admits.
TypeOK ==
  /\ config \in Configs
  /\ sent \in Seq(Frames)
  /\ faults \in Nat /\ busy \in BOOLEAN /\ started \in BOOLEAN
  /\ pos \in 0 .. Len(input)
  /\ state \in States
  /\ header \in 0 .. Len(sent) /\ (state # "HEADER" => header > 0)
  /\ Len(payload) <= MaxPayload
  /\ made \in 0 .. Len(sent)
  /\ base \in Nat \cup {None}
  /\ lastDts \in Nat
  /\ silence \in 0 .. (Heartbeat + 1) \cup {None}
  /\ DOMAIN params \subseteq ParameterSets
  /\ \A s \in DOMAIN params : params[s] \in 1 .. Len(sent)

\* However the client cuts its stream into datagrams, feed takes it apart into
\* the frames that were sent, each once, in order and with its own payload, as
\* long as nothing is lost and no payload is too long.
FramesIntact ==
  faults = 0 /\ state = "COMPLETE" => header = made + 1 /\ payload = Body(header)

\* Frames of which every byte was fed.
Received == {k \in 1 .. Len(sent) : wire = <<>> \/ k < wire[1][1]}

\* When feed returns, at most one received frame has not been turned into a
\* StdFrame: the one whose payload ended with the datagram, which the loop leaves
\* to the next one.
OneBehind ==
  faults = 0 /\ ~busy => made \in Received \cup {0} /\ \A k \in Received : k <= made + 1

\* The parse loop of feed takes an undisturbed byte stream apart into exactly the
\* frames that were sent, and is at most one of them late, wherever the datagrams
\* cut it.
Reassembled == FramesIntact /\ OneBehind

\* The timestamps handed to the source never go back, whatever the client sends,
\* also when a refused header makes feed take the same bytes apart again
\* (StdFrameCommon.dts_ms is documented as monotone).
DtsMonotone ==
  \A i \in 2 .. Len(pushed) : pushed[i - 1].dts <= pushed[i].dts

\* Without hot start, what the source receives first, and first after a silence
\* longer than the heartbeat, is a keyframe.
ResumesWithKey ==
  LET resumes == silence = None \/ (Heartbeat > 0 /\ silence > Heartbeat)
  IN  (Len(pushed') > Len(pushed) /\ resumes /\ ~config.hotStart)
        => IsKey(sent[pushed'[Len(pushed')].frame])
ResumesAtKeyframe == [][ResumesWithKey]_vars

\* Every call of feed returns: bytes that do not make a whole header wait for
\* the next datagram.
FeedReturns == busy ~> ~busy
=============================================================================
