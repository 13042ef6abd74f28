----------------------------- MODULE TsHandler -----------------------------
(***************************************************************************)
(* From TS packets to the live source: the loop body of output_ts_packets  *)
(* and the handler it feeds (QuicFecTsAdapter::TsHandlerAdapter), with the *)
(* demuxer of upstream SRS between them.  Video comes in PES messages of   *)
(* unknown length (PES_packet_length 0), which end where the next begins   *)
(* or when output_ts_packets loses patience; audio in messages of one      *)
(* packet.  On their way video packets are lost, repeated and overtaken:   *)
(* the last few the client sent may arrive in any order, any number of     *)
(* times or never, and the demuxer has their continuity counters alone to  *)
(* tell.                                                                   *)
(*                                                                         *)
(* A message is a sequence of units, one per TS packet: parameter sets     *)
(* with a value, frames, units the handler skips, empty ones, and bytes    *)
(* without a start code.  Sizes are counted in packets.  The conversions   *)
(* to FLV are left out; that they, or the source, may fail is not.         *)
(***************************************************************************)
EXTENDS Integers, Sequences

CONSTANTS
  Codecs,       \* of the video stream: "h264", "hevc"
  Values,       \* contents of parameter sets and audio configurations
  Pictures,     \* video messages the client sends, for each codec
  Sounds,       \* audio messages it sends
  MinSize,      \* size at which a message may be cut off (1300 bytes)
  Step,         \* by how much it must exceed the last one cut off (1000)
  Counters,     \* values of the continuity counter (16)
  Lateness,     \* bound: by how many packets one may be late, below a round
  MaxGather,    \* bound: the client waits while a message is that long
  MaxFaults     \* bound: failing conversions and pushes in a behaviour

\* The empty string: a parameter set or configuration not seen yet, and an SPS
\* below 4 bytes, which sps_demux leaves empty.
None == "none"

ParameterSets == {"vps", "sps", "pps"}

Unit ==
  [kind : ParameterSets \cup {"frame", "skip", "empty", "garbage", "adts"},
   value : Values \cup {None}]

ASSUME TsAssumption ==
  /\ Codecs \subseteq {"h264", "hevc"}
  /\ None \notin Values
  /\ \A c \in Codecs : Pictures[c] \subseteq Seq(Unit) \ {<< >>}
  /\ Sounds \subseteq Seq(Unit)
  /\ MinSize \in Nat \ {0, 1} /\ Step \in Nat
  /\ Counters \in Nat /\ Lateness \in Nat /\ Lateness + 1 < Counters
  /\ MaxGather \in Nat /\ MaxFaults \in Nat

VARIABLES
  codec,     \* stream type of the video channel
  video,     \* the handler's parameter sets and flags, and what the source got
  audio,     \* aac_specific_config_, and the one the source got
  alive,     \* no assertion has failed
  rest,      \* what the client has yet to send of the message it is sending
  sent,      \* the packets sent last, which may still arrive
  counter,   \* continuity counter of the last one
  msg,       \* channel->msg_: units gathered so far, none when it is NULL
  cc,        \* its continuity_counter_
  age,       \* packets sent since the one last taken into msg, up to Oldest
  missing,   \* packets left out between those in msg, up to Counters
  given,     \* the same of the message on_ts_message was given last
  taken,     \* units taken since the current message began
  handed,    \* how many of them on_ts_message was given
  last,      \* last_processed_size, a static all adapters share
  cuts,      \* messages handled early
  faults     \* failures so far

clientVars == <<rest, sent, counter>>
channelVars == <<msg, cc, age, missing, taken>>
packetVars == <<clientVars, channelVars, given, handed, last, cuts>>
vars == <<codec, video, audio, alive, packetVars, faults>>

\* The parameter sets of the stream.  HEVC has one flag for all of its sets,
\* h265_vps_sps_pps_changed_, which is up when changed is not empty.
Kinds == IF codec = "h264" THEN {"sps", "pps"} ELSE ParameterSets

NoHeader == [k \in Kinds |-> None]

NewVideo ==
  [sets |-> [k \in Kinds |-> None], changed |-> {}, sent |-> FALSE,
   shown |-> NoHeader, orphan |-> FALSE]

Init ==
  /\ codec \in Codecs
  /\ video = NewVideo
  /\ audio = [config |-> None, heard |-> None]
  /\ alive = TRUE
  /\ rest = << >> /\ sent = << >> /\ counter \in 0 .. (Counters - 1)
  /\ msg = << >> /\ cc = 0 /\ age = 0 /\ missing = 0 /\ taken = 0
  /\ given = 0 /\ handed = 0 /\ last = 0 /\ cuts = 0 /\ faults = 0

-----------------------------------------------------------------------------
(* on_ts_video and on_ts_video_hevc; r is the handler in the middle of a     *)
(* message, r.open whether its loop goes on.                                 *)

Failed(r) == [r EXCEPT !.open = FALSE, !.err = TRUE]
Aborted(r) == [r EXCEPT !.open = FALSE, !.alive = FALSE]

\* H.264 writes a header when both sets changed, HEVC when any did and all are
\* there.
Due(v) ==
  IF codec = "h264" THEN v.changed = Kinds
  ELSE v.changed # {} /\ \A k \in Kinds : v.sets[k] # None

\* Mutated forms: the flags are reset before the header is pushed.
WriteHeader_MarkedSent(r, ok) ==
  IF ~Due(r.v) THEN r
  ELSE IF r.v.sets["sps"] = None THEN Aborted(r)
  ELSE IF ok THEN [r EXCEPT !.v.shown = r.v.sets, !.v.changed = {}, !.v.sent = TRUE]
  ELSE Failed([r EXCEPT !.v.sent = TRUE])

WriteHeader_FlagsReset(r, ok) ==
  IF ~Due(r.v) THEN r
  ELSE IF r.v.sets["sps"] = None THEN Aborted(r)
  ELSE IF ok THEN [r EXCEPT !.v.shown = r.v.sets, !.v.changed = {}, !.v.sent = TRUE]
  ELSE Failed([r EXCEPT !.v.changed = {}])

\* write_h264_sps_pps, write_h265_vps_sps_pps.  mux_sequence_header asserts that
\* the H.264 SPS is not short.
WriteHeader(r, ok) ==
  IF ~Due(r.v) THEN r
  ELSE IF r.v.sets["sps"] = None THEN Aborted(r)
  ELSE IF ok THEN [r EXCEPT !.v.shown = r.v.sets, !.v.changed = {}, !.v.sent = TRUE]
  ELSE Failed(r)

\* write_h264_ipb_frame, write_h265_ipb_frame: before the first header a frame is
\* dropped, by H.264 alone, by HEVC with the rest of its message.
WriteFrame(r, ok) ==
  IF ~r.v.sent THEN (IF codec = "h264" THEN r ELSE Failed(r))
  ELSE IF ok THEN [r EXCEPT !.v.orphan = @ \/ r.v.shown = NoHeader]
  ELSE Failed(r)

\* A parameter set: the same as before is ignored.
WriteSet(r, u, ok) ==
  IF r.v.sets[u.kind] = u.value THEN r
  ELSE WriteHeader([r EXCEPT !.v.sets[u.kind] = u.value,
                             !.v.changed = @ \cup {u.kind}], ok)

VideoUnit(r, u, ok) ==
  CASE u.kind \in Kinds -> WriteSet(r, u, ok)
    [] u.kind = "frame" -> WriteFrame(r, ok)
    [] u.kind = "empty" -> IF codec = "h264" THEN r ELSE Aborted(r)
    [] u.kind = "garbage" ->
         IF codec = "h264" THEN [r EXCEPT !.open = FALSE] ELSE Failed(r)
    [] OTHER -> r

\* on_ts_message for a video message in which the push of unit bad fails.
OnVideo(v, units, bad) ==
  LET run[i \in 0 .. Len(units)] ==
        IF i = 0 THEN [v |-> v, open |-> TRUE, err |-> FALSE, alive |-> TRUE]
        ELSE IF run[i - 1].open THEN VideoUnit(run[i - 1], units[i], i # bad)
        ELSE run[i - 1]
  IN  run[Len(units)]

-----------------------------------------------------------------------------
(* on_ts_audio *)

WriteAudioRawFrame(r, ok) == IF ok THEN r ELSE Failed(r)

\* A frame whose codec has no configuration ends the message as bytes without a
\* header do ("garbage").  The configuration is remembered before it is pushed,
\* and the first one stays for good; the frame is pushed after it.
AudioUnit(r, u, headerOk, frameOk) ==
  CASE u.kind = "garbage" -> Failed(r)
    [] u.kind = "empty" -> r
    [] OTHER ->
         IF r.a.config # None THEN WriteAudioRawFrame(r, frameOk)
         ELSE IF headerOk
           THEN WriteAudioRawFrame([r EXCEPT !.a = [config |-> u.value, heard |-> u.value]],
                                   frameOk)
         ELSE Failed([r EXCEPT !.a.config = u.value])

\* Push 2i - 1 is that of the configuration found in unit i, push 2i its frame's.
OnAudio(a, units, bad) ==
  LET run[i \in 0 .. Len(units)] ==
        IF i = 0 THEN [a |-> a, open |-> TRUE, err |-> FALSE]
        ELSE IF run[i - 1].open
          THEN AudioUnit(run[i - 1], units[i], bad # 2 * i - 1, bad # 2 * i)
        ELSE run[i - 1]
  IN  run[Len(units)].a

-----------------------------------------------------------------------------
(* Continuity counters: those of the code, and how far a packet really is    *)
(* from the one before it.                                                   *)

Following(c) == IF c = Counters - 1 THEN 0 ELSE c + 1

\* How many packets were sent after the k-th one of sent, and its counter.
AgeOf(k) == Len(sent) - k
CounterOf(k) ==
  IF counter >= AgeOf(k) THEN counter - AgeOf(k) ELSE counter + Counters - AgeOf(k)

\* Mutated form: a gap is not looked for.
Gap_Never(c) == FALSE

\* What SrsTsPayloadPES::decode takes for late or repeated, for a gap, and for the
\* next packet when it finds the counter c after that of a partial message.
Late(c) == cc >= c /\ Following(cc) > c
Gap(c) == ~Late(c) /\ Following(cc) # c
Continues(c) == ~Late(c) /\ ~Gap(c)

\* Packets missing in msg up to the k-th one of sent.
MissingUpTo(k) ==
  LET n == missing + (age - AgeOf(k) - 1) IN IF n > Counters THEN Counters ELSE n

\* Ages from which a whole round is missing, however late the packet.
Oldest == Counters + Lateness + 1

-----------------------------------------------------------------------------
(* The client *)

Send(start, units) ==
  LET all == Append(sent, [start |-> start, unit |-> units[1]]) IN
  /\ alive /\ Len(msg) < MaxGather
  /\ sent' = IF Len(all) > Lateness + 1 THEN Tail(all) ELSE all
  /\ rest' = Tail(units)
  /\ counter' = Following(counter)
  /\ age' = IF msg = << >> THEN 0 ELSE IF age = Oldest THEN age ELSE age + 1
  /\ UNCHANGED <<codec, video, audio, alive, msg, cc, missing, taken, given, handed,
                 last, cuts, faults>>

SendMessage(p) == rest = << >> /\ Send(TRUE, p)
SendRest == rest # << >> /\ Send(FALSE, rest)

-----------------------------------------------------------------------------
(* output_ts_packets, the k-th packet of sent *)

\* Which push fails, if any.
Outcome(bad) ==
  IF bad = 0 THEN UNCHANGED faults ELSE faults < MaxFaults /\ faults' = faults + 1

NoMessage ==
  /\ msg' = << >> /\ cc' = 0 /\ age' = 0
  /\ missing' = 0 /\ taken' = 0 /\ handed' = 0

Begin(k) ==
  /\ msg' = <<sent[k].unit>> /\ cc' = CounterOf(k) /\ age' = AgeOf(k)
  /\ missing' = 0 /\ taken' = 1 /\ handed' = 0

\* A repeated or late packet is skipped.
LatePacket(k) ==
  /\ alive /\ msg # << >> /\ Late(CounterOf(k))
  /\ UNCHANGED vars

\* A packet that continues no message is skipped.  A partial message is freed
\* when there is a gap behind it, and the packet looked at again without it.
DropPacket(k) ==
  /\ alive /\ ~sent[k].start
  /\ msg = << >> \/ Gap(CounterOf(k))
  /\ NoMessage
  /\ UNCHANGED <<codec, video, audio, alive, clientVars, given, last, cuts, faults>>

\* The first packet of a message, with none before it, or with a gap behind that.
FirstPacket(k) ==
  /\ alive /\ sent[k].start
  /\ msg = << >> \/ Gap(CounterOf(k))
  /\ Begin(k)
  /\ UNCHANGED <<codec, video, audio, alive, clientVars, given, last, cuts, faults>>

\* The first packet of a message ends the one before it, which is handled now;
\* when that fails, decode returns without looking at the packet again.
ReapPacket(k, bad) ==
  LET r == OnVideo(video, msg, bad) IN
  /\ alive /\ sent[k].start
  /\ msg # << >> /\ Continues(CounterOf(k))
  /\ Outcome(bad)
  /\ video' = r.v /\ alive' = r.alive
  /\ given' = MissingUpTo(k)
  /\ IF r.err THEN NoMessage ELSE Begin(k)
  /\ UNCHANGED <<codec, audio, clientVars, last, cuts>>

\* Mutated form: the size of the last message cut off is not remembered.
Forced_NoStep(m) == Len(m) >= MinSize

\* The size at which output_ts_packets handles a message without its end.
Forced(m) == Len(m) >= MinSize /\ Len(m) > last + Step

\* The next packet of the partial message.
Gathers(k) ==
  alive /\ ~sent[k].start /\ msg # << >> /\ Continues(CounterOf(k))

GatherPacket(k) ==
  LET m == Append(msg, sent[k].unit) IN
  /\ Gathers(k) /\ ~Forced(m)
  /\ msg' = m /\ cc' = CounterOf(k) /\ age' = AgeOf(k)
  /\ missing' = MissingUpTo(k)
  /\ taken' = taken + 1
  /\ UNCHANGED <<codec, video, audio, alive, clientVars, given, handed, last, cuts, faults>>

\* Mutated form: the message stays in the channel.
Remaining_Kept(m) == m

\* channel->msg_ after it was handled early.
Remaining(m) == << >>

\* The message is long enough: it is handled as if it were complete, whether
\* that succeeds or not.
CutPacket(k, bad) ==
  LET m == Append(msg, sent[k].unit)
      r == OnVideo(video, m, bad)
  IN  /\ Gathers(k) /\ Forced(m)
      /\ Outcome(bad)
      /\ video' = r.v /\ alive' = r.alive
      /\ given' = MissingUpTo(k)
      /\ msg' = Remaining(m)
      /\ cc' = 0 /\ age' = 0 /\ missing' = 0
      /\ taken' = taken + 1
      /\ handed' = handed + Len(m)
      /\ last' = Len(m) /\ cuts' = cuts + 1
      /\ UNCHANGED <<codec, audio, clientVars>>

AudioPacket(s, bad) ==
  /\ alive
  /\ Outcome(bad)
  /\ audio' = OnAudio(audio, s, bad)
  /\ UNCHANGED <<codec, video, alive, packetVars>>

\* Another adapter of the process cuts off a message of n packets.
Elsewhere(n) ==
  /\ alive /\ n >= MinSize /\ n > last + Step
  /\ last' = n
  /\ UNCHANGED <<codec, video, audio, alive, clientVars, channelVars, given, handed,
                 cuts, faults>>

\* The process is started again after a failed assertion.
Restart ==
  /\ ~alive
  /\ video' = NewVideo /\ audio' = [config |-> None, heard |-> None] /\ alive' = TRUE
  /\ rest' = << >> /\ sent' = << >> /\ NoMessage
  /\ given' = 0 /\ last' = 0 /\ cuts' = 0
  /\ UNCHANGED <<codec, counter, faults>>

\* The longest message that is cut off elsewhere.
Longest == MinSize + Step

Next ==
  \/ \E p \in Pictures[codec] : SendMessage(p)
  \/ SendRest
  \/ \E k \in DOMAIN sent :
       \/ LatePacket(k)
       \/ DropPacket(k)
       \/ FirstPacket(k)
       \/ \E bad \in 0 .. Len(msg) : ReapPacket(k, bad)
       \/ GatherPacket(k)
       \/ \E bad \in 0 .. (Len(msg) + 1) : CutPacket(k, bad)
  \/ \E s \in Sounds : \E bad \in 0 .. (2 * Len(s)) : AudioPacket(s, bad)
  \/ \E n \in MinSize .. Longest : Elsewhere(n)
  \/ Restart

Spec == Init /\ [][Next]_vars

-----------------------------------------------------------------------------
\* The members have the types of quic_fec_ts_adapter.hpp (lines 155-196).
TypeOK ==
  /\ video \in [sets : [Kinds -> Values \cup {None}], changed : SUBSET Kinds,
                sent : BOOLEAN, shown : [Kinds -> Values \cup {None}],
                orphan : BOOLEAN]
  /\ audio \in [config : Values \cup {None}, heard : Values \cup {None}]
  /\ alive \in BOOLEAN
  /\ rest \in Seq(Unit) /\ sent \in Seq([start : BOOLEAN, unit : Unit])
  /\ msg \in Seq(Unit)
  /\ {counter, cc} \subseteq 0 .. (Counters - 1) /\ age \in 0 .. Oldest
  /\ {missing, given, taken, handed, last, cuts} \subseteq Nat

\* A parameter set not marked as changed is the one in the header the source
\* has: a failing push, or a set that arrives without its partner, never loses
\* the memory that the source's header is out of date.  And the source never has
\* an audio configuration other than the one remembered (on_ts_audio).
HeaderTracked ==
  /\ video.sent => \A k \in Kinds \ video.changed : video.shown[k] = video.sets[k]
  /\ audio.heard \in {None, audio.config}

\* No video frame reaches the source before a sequence header of its stream did.
NoOrphanFrame == ~video.orphan

\* Unless a push failed, the source has the parameter sets an HEVC stream uses as
\* soon as all of them are known: write_h265_vps_sps_pps sends a change of any of
\* them on at once.
HevcHeaderCurrent ==
  (/\ codec = "hevc" /\ faults = 0
   /\ \A k \in Kinds : video.sets[k] # None) => video.shown = video.sets

\* No unit that was taken into a message is given to on_ts_message twice, or again
\* after it was handled early.
HandedOnce == handed + Len(msg) <= taken

\* However packets are lost, repeated and overtaken, a message given to
\* on_ts_message lacks none between its first and its last, nor, when the next
\* message ended it, at its end: a gap drops it.  Only as many as make the
\* continuity counter go all the way round are not noticed.
GapsNoticed == given \in {0, Counters}

\* Every message cut off raises the size the next one must exceed, so messages of
\* bounded size are cut off only so often, however long the process runs.
CutsBounded == cuts > 0 => last >= MinSize + (cuts - 1) * (Step + 1)

\* The state of the handler between any two TS packets: its types, no unit handed
\* on twice, and an HEVC header that is current.
TsInv == TypeOK /\ HandedOnce /\ HevcHeaderCurrent
=============================================================================
