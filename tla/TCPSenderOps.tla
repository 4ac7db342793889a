---------------------------- MODULE TCPSenderOps ----------------------------
(***************************************************************************)
(* Class TCPSender (libsponge/tcp_sender.hh and .cc) as a value and its    *)
(* methods as operators.  `segments_noack` is the code's                   *)
(* map<uint64_t, TCPSegment>: a function from the absolute number just     *)
(* behind an unacknowledged segment to the segment.                        *)
(***************************************************************************)
EXTENDS ByteStreamOps, WrappingIntegers, TCPSegment, FiniteSetsExt, Functions

CONSTANTS
  MAX_PAYLOAD_SIZE,                   \* TCPConfig::MAX_PAYLOAD_SIZE
  initial_retransmission_timeout,     \* constructor argument retx_timeout
  UIntRange                           \* 2^32, the range of an unsigned int

ASSUME SenderConstants ==
  /\ MAX_PAYLOAD_SIZE \in Nat \ {0}
  /\ UIntRange \in Nat \ {0}
  /\ initial_retransmission_timeout \in 1 .. UIntRange - 1

NewSender(capacity, isn) ==
  [isn |-> isn, ack_s |-> 0, segments_out |-> <<>>, segments_noack |-> <<>>,
   rto_base |-> initial_retransmission_timeout, stream |-> NewByteStream(capacity),
   next_seqno |-> 0, window |-> 1, window_zero |-> FALSE, fin_send |-> FALSE,
   start |-> FALSE, retransnum |-> 0, RTO |-> initial_retransmission_timeout]

bytes_in_flight(s) == s.next_seqno - s.ack_s

\* Mutant: what is in flight already is not subtracted from the window.
WholeWindow(s, end) == Min2(MAX_PAYLOAD_SIZE, s.window)

\* data_size: the SYN's own sequence number is not subtracted from the room.
PayloadRoom(s, end) == Min2(MAX_PAYLOAD_SIZE, end - s.next_seqno)

\* Mutant: FIN is sent while bytes are still waiting in the stream.
EndIsEnough(s, rest) == ~s.fin_send /\ input_ended(rest)

\* FIN is due: not yet sent, and the payload just read was the last.
FinDue(s, rest) == ~s.fin_send /\ eof(rest)

\* The segment one round of the loop in fill_window builds.
NextSegment(s, end) ==
  LET syn == s.next_seqno = 0
      payload == read_output(s.stream, PayloadRoom(s, end))
      fin == /\ FinDue(s, after_read(s.stream, PayloadRoom(s, end)))
             /\ s.next_seqno + Len(payload) + Flag(syn) < end
  IN  Segment(syn, fin, wrap(s.next_seqno, s.isn), payload)

\* The stream, queue, map and timer after that segment is sent.
SendSegment(s, seg) ==
  LET next == s.next_seqno + length_in_sequence_space(seg)
  IN  [s EXCEPT
        !.stream = after_read(@, Len(seg.payload)),
        !.fin_send = @ \/ seg.fin,
        !.next_seqno = next,
        !.segments_out = Append(@, seg),
        !.start = TRUE,
        !.segments_noack = [k \in DOMAIN @ \cup {next} |-> IF k = next THEN seg ELSE @[k]]]

\* One round of the loop.  A segment with nothing in it ends the loop; it has
\* read nothing, so every later round would end the same way.
FillStep(s, end) ==
  LET seg == NextSegment(s, end)
  IN  IF s.next_seqno < end /\ length_in_sequence_space(seg) > 0
      THEN SendSegment(s, seg)
      ELSE s

\* Every round but the last sends at least one number below `end`.
fill_window(s) ==
  LET end == s.ack_s + s.window
      f[k \in 0 .. end] ==
        IF k = 0 THEN s ELSE Then(f[k - 1], LAMBDA x : FillStep(x, end))
  IN  IF s.fin_send THEN s ELSE f[end]

\* Mutant: any other acknowledgment replaces the last one.
IsOtherAck(s, new_ack) == new_ack # s.ack_s

IsNewAck(s, new_ack) == new_ack > s.ack_s

\* Mutant: a segment is dropped when all but its last number is acknowledged.
AlmostAcked(m, ack) == {k \in DOMAIN m : k > ack + 1}

\* The keys of the segments that the loop in ack_received does not erase.
StillUnacked(m, ack) == {k \in DOMAIN m : k > ack}

AcceptAck(s, new_ack) ==
  IF IsNewAck(s, new_ack)
  THEN [s EXCEPT
         !.RTO = initial_retransmission_timeout,
         !.retransnum = 0,
         !.ack_s = new_ack,
         !.segments_noack = Restrict(@, StillUnacked(@, new_ack))]
  ELSE s

\* Mutant: a zero window is not treated as one.
TakeWindow(s, window_size) == [s EXCEPT !.window = window_size]

\* The window is taken from every acknowledgment that is not beyond next_seqno,
\* old ones included, and window_zero is never cleared.
AcceptWindow(s, window_size) ==
  IF window_size # 0
  THEN [s EXCEPT !.window = window_size]
  ELSE [s EXCEPT !.window = 1, !.window_zero = TRUE]

\* Mutant: every acknowledgment stops the timer.
StopAlways(s) == [s EXCEPT !.start = FALSE]

StopIfAllAcked(s) == IF s.ack_s = s.next_seqno THEN [s EXCEPT !.start = FALSE] ELSE s

ack_received(s, ackno, window_size) ==
  LET new_ack == unwrap(ackno, s.isn, s.next_seqno)
  IN  IF new_ack > s.next_seqno THEN s
      ELSE Then(AcceptWindow(AcceptAck(s, new_ack), window_size), StopIfAllAcked)

\* Mutant: the doubling does not start again after an acknowledgment.
DoubleAlways(s) == (2 * s.rto_base) % UIntRange

NextBase(s) ==
  (2 * (IF s.retransnum = 0 THEN initial_retransmission_timeout ELSE s.rto_base)) % UIntRange

\* Mutant: the newest segment is sent again.
Newest(m) == Max(DOMAIN m)

Oldest(m) == Min(DOMAIN m)

\* The timeout branch of tick.  An empty map would only be reported.
Retransmit(s) ==
  [s EXCEPT
    !.rto_base = NextBase(s),
    !.RTO = IF s.window_zero THEN initial_retransmission_timeout ELSE NextBase(s),
    !.retransnum = @ + 1,
    !.segments_out = IF DOMAIN s.segments_noack = {} THEN @
                     ELSE Append(@, s.segments_noack[Oldest(s.segments_noack)])]

tick(s, ms_since_last_tick) ==
  IF ~s.start THEN s
  ELSE IF s.RTO <= ms_since_last_tick THEN Retransmit(s)
  ELSE [s EXCEPT !.RTO = @ - ms_since_last_tick]

consecutive_retransmissions(s) == s.retransnum

send_empty_segment(s) ==
  [s EXCEPT !.segments_out =
     Append(@, Segment(FALSE, FALSE, wrap(s.next_seqno, s.isn), <<>>))]
=============================================================================
