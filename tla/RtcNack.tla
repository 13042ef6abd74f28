------------------------------- MODULE RtcNack -------------------------------
(***************************************************************************)
(* How a WebRTC track asks for lost packets: SrsRtpRingBuffer keeps the    *)
(* range of the numbers received, SrsRtpNackForReceiver the numbers to ask *)
(* for, and SrsRtcRecvTrack::on_nack and the connection's timer drive      *)
(* them.  The client sends numbered packets and the network delivers, any  *)
(* number of times and in any order, the ones among the last Window sent.  *)
(* The packets themselves, which only the sending tracks fetch again, are  *)
(* left out.                                                               *)
(***************************************************************************)
EXTENDS Integers, FiniteSets

CONSTANTS
  HalfRange,    \* 2^15 in the code: sequence numbers are modulo 2 * HalfRange
  Window,       \* bound: how far behind the newest a packet can arrive
  MaxNacks,     \* max_queue_size_
  MaxCount,     \* max_count_
  MaxAlive,     \* max_alive_time_, in ticks of nack_check_interval_
  FirstWait,    \* first_nack_interval_
  Interval      \* the interval between two requests

ASSUME NackAssumption ==
  /\ HalfRange \in Nat \ {0}
  /\ Window \in 1 .. HalfRange - 1
  /\ {MaxCount, MaxAlive, FirstWait, Interval} \subseteq Nat
  /\ MaxNacks \in Nat \ {0}

Seqs == 0 .. 2 * HalfRange - 1

\* uint16_t arithmetic and srs_rtp_seq_distance.
Plus(s, n) == (s + n) % (2 * HalfRange)
Distance(prev, value) ==
  LET d == (value - prev) % (2 * HalfRange) IN
  IF d < HalfRange THEN d ELSE d - 2 * HalfRange

VARIABLES
  high,        \* the newest number the client sent
  got,         \* the numbers of the window that arrived since initialization
  waived,      \* the numbers of the window the track need not ask for
  initialized, \* of the ring buffer
  begin, end,  \* begin_ and end_
  nacks,       \* queue_ of the nack list
  due,         \* nack_check_interval_ has passed since the last check
  early        \* a packet was taken to be before begin_ since initialization

ring == <<initialized, begin, end, early>>
client == <<high, got, waived>>
vars == <<client, ring, nacks, due>>

\* The last Window numbers sent.
Recent == {Plus(high, 2 * HalfRange - i) : i \in 0 .. Window - 1}

\* SrsRtpNackInfo: the time since it was put in the list and since it was last
\* asked for, up to where the code no longer tells them apart, and how often.
NackInfo == [age : 0 .. MaxAlive + 1, since : 0 .. Interval, count : 0 .. MaxCount + 1]
NewNack == [age |-> 0, since |-> Interval, count |-> 0]

Init ==
  /\ high = 0 /\ got = {} /\ waived = {}
  /\ initialized = FALSE /\ begin = 0 /\ end = 0 /\ early = FALSE
  /\ nacks = [s \in {} |-> NewNack]
  /\ due = TRUE

-----------------------------------------------------------------------------
\* The client sends the next packet.  Numbers do not come round within the time a
\* request lives or a burst of losses lasts.
Send ==
  LET s == Plus(high, 1) IN
  /\ initialized => Distance(end, s) >= 0
  /\ early \/ \A n \in DOMAIN nacks : Distance(n, s) > 0
  /\ high' = s
  /\ got' = (got \cap Recent') \ {s}
  /\ waived' = (waived \cap Recent') \ {s}
  /\ UNCHANGED <<ring, nacks, due>>

\* The numbers from first up to, not including, last.
Numbers(first, last) ==
  {Plus(first, i) : i \in 0 .. ((last - first) % (2 * HalfRange)) - 1}

\* insert: numbers already in the list start anew.
Insert(first, last) ==
  [s \in DOMAIN nacks \cup Numbers(first, last) |->
     IF s \in Numbers(first, last) THEN NewNack ELSE nacks[s]]

\* check_queue_size of the list n: it is full.
Full(n) == Cardinality(DOMAIN n) >= MaxNacks

\* notify_nack_list_full: the track starts anew.
NotifyFull ==
  /\ nacks' = [s \in {} |-> NewNack]
  /\ initialized' = FALSE /\ begin' = 0 /\ end' = 0 /\ early' = FALSE
  /\ got' = {}
  /\ UNCHANGED waived

Arrived(s) == got' = got \cup {s}
RangeIs(b, e, odd) == initialized' = TRUE /\ begin' = b /\ end' = e /\ early' = odd

\* The range of numbers update found is put in the list, unless it is empty or the
\* circuit breaker is on.
Ask(first, last) == Distance(first, last) > 0

Listed(s, first, last, b, e, odd) ==
  \/ /\ Ask(first, last) /\ Full(Insert(first, last))
     /\ NotifyFull
  \/ /\ Ask(first, last) /\ ~Full(Insert(first, last))
     /\ nacks' = Insert(first, last)
     /\ RangeIs(b, e, odd)
     /\ Arrived(s)
     /\ UNCHANGED waived
  \/ /\ RangeIs(b, e, odd)
     /\ Arrived(s)
     /\ waived' = IF Ask(first, last)
                  THEN waived \cup (Numbers(first, last) \cap Recent) ELSE waived
     /\ UNCHANGED nacks

\* Mutated form: it stays in the list.
Recovered_Kept(s) ==
  /\ s \in DOMAIN nacks
  /\ Arrived(s)
  /\ UNCHANGED <<ring, nacks, waived>>

\* A packet that was asked for.
Recovered(s) ==
  /\ s \in DOMAIN nacks
  /\ nacks' = [n \in DOMAIN nacks \ {s} |-> nacks[n]]
  /\ Arrived(s)
  /\ UNCHANGED <<ring, waived>>

\* update, for the first packet.
First(s) ==
  /\ s \notin DOMAIN nacks /\ ~initialized
  /\ initialized' = TRUE /\ begin' = s /\ end' = Plus(s, 1) /\ early' = FALSE
  /\ waived' = {n \in Recent : Distance(n, s) >= 0}
  /\ got' = {s}
  /\ UNCHANGED nacks

\* Mutated form: the first missing number is left out.
Follows_SkipFirst(s) ==
  /\ s \notin DOMAIN nacks /\ initialized
  /\ Distance(end, s) >= 0
  /\ Listed(s, Plus(end, 1), s, begin, Plus(s, 1), early)

\* update, for one that follows end_.
Follows(s) ==
  /\ s \notin DOMAIN nacks /\ initialized
  /\ Distance(end, s) >= 0
  /\ Listed(s, end, s, begin, Plus(s, 1), early)

\* update, for one before begin_.
Before(s) ==
  /\ s \notin DOMAIN nacks /\ initialized
  /\ Distance(end, s) < 0 /\ Distance(s, begin) > 0
  /\ Listed(s, s, begin, s, end, TRUE)

\* update, for one in the range.
Within(s) ==
  /\ s \notin DOMAIN nacks /\ initialized
  /\ Distance(end, s) < 0 /\ Distance(s, begin) <= 0
  /\ Arrived(s)
  /\ UNCHANGED <<ring, nacks, waived>>

\* on_nack for a packet that arrives.
OnNack(s) ==
  /\ UNCHANGED <<high, due>>
  /\ Recovered(s) \/ First(s) \/ Follows(s) \/ Before(s) \/ Within(s)

-----------------------------------------------------------------------------
(* get_nack_seqs *)

Expired(n) == nacks[n].age > MaxAlive \/ nacks[n].count > MaxCount
Young(n) == ~Expired(n) /\ nacks[n].age < FirstWait

\* The list is in the order of the numbers, which all are behind end_.
Older(n, m) == (end - n) % (2 * HalfRange) > (end - m) % (2 * HalfRange)
Reached(n) == ~Young(n) /\ \A m \in DOMAIN nacks : Young(m) => Older(n, m)

Asked(info) ==
  IF info.since >= Interval
  THEN [info EXCEPT !.count = @ + 1, !.since = 0] ELSE info

\* Mutated form: numbers out of time stay in the list.
GetNackSeqs_NoErase ==
  /\ due
  /\ due' = FALSE
  /\ nacks' = [n \in DOMAIN nacks |->
       IF Reached(n) /\ ~Expired(n) THEN Asked(nacks[n]) ELSE nacks[n]]
  /\ UNCHANGED <<client, ring>>

\* get_nack_seqs, when the circuit breaker is off: numbers out of time are dropped
\* (notify_drop_seq), the others asked for, up to the first that is too young.
GetNackSeqs ==
  LET dropped == {n \in DOMAIN nacks : Expired(n) /\ Reached(n)} IN
  /\ due
  /\ due' = FALSE
  /\ nacks' = [n \in DOMAIN nacks \ dropped |->
                 IF Reached(n) THEN Asked(nacks[n]) ELSE nacks[n]]
  /\ begin' = IF dropped = {} THEN begin
              ELSE Plus(CHOOSE n \in dropped : \A m \in dropped : ~Older(n, m), 1)
  /\ waived' = waived \cup (dropped \cap Recent)
  /\ UNCHANGED <<high, got, initialized, end, early>>

\* A tick later.
Aged(info) ==
  [info EXCEPT !.age = IF @ > MaxAlive THEN @ ELSE @ + 1,
               !.since = IF @ >= Interval THEN @ ELSE @ + 1]

Tick ==
  /\ due' = TRUE
  /\ nacks' = [n \in DOMAIN nacks |-> Aged(nacks[n])]
  /\ UNCHANGED <<client, ring>>

Next ==
  \/ Send
  \/ \E s \in Recent : OnNack(s)
  \/ GetNackSeqs
  \/ Tick

Spec == Init /\ [][Next]_vars

\* Time passes, and the timer checks the list with the circuit breaker off.
Fairness == WF_vars(Tick) /\ WF_vars(GetNackSeqs)
FairSpec == Spec /\ Fairness

-----------------------------------------------------------------------------
\* The range and the list have their types.
TypeOK ==
  /\ high \in Seqs /\ begin \in Seqs /\ end \in Seqs
  /\ got \subseteq Recent /\ waived \subseteq Recent
  /\ initialized \in BOOLEAN /\ early \in BOOLEAN /\ due \in BOOLEAN
  /\ DOMAIN nacks \subseteq Seqs
  /\ \A n \in DOMAIN nacks : nacks[n] \in NackInfo

\* Every packet that is missing behind the newest received one is in the list, so
\* it is asked for, until it was given up (out of time, or the list was full) or
\* the circuit breaker was on: no gap is overlooked, not even one that spans the
\* wrap of the numbers.
GapsListed ==
  \A s \in Recent : initialized /\ Distance(s, end) > 0
    => s \in got \cup waived \cup DOMAIN nacks

\* Only missing packets are asked for, unless a packet was taken to be before
\* begin_.
OnlyMissing == ~early => got \cap DOMAIN nacks = {}

\* The list never reaches its limit (check_queue_size).
ListBounded == Cardinality(DOMAIN nacks) < MaxNacks

\* A number does not stay in the list: it arrives or is given up after
\* max_alive_time_.  Nothing is claimed once a packet was taken to be before begin_.
Stays(n) == n \in DOMAIN nacks /\ ~early
NacksEnd == \A n \in Seqs : Stays(n) ~> ~Stays(n)

\* The state of the track between any two packets: its types, a bounded list, and
\* only missing packets in it.
NackInv == TypeOK /\ ListBounded /\ OnlyMissing
=============================================================================
