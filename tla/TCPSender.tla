------------------------------ MODULE TCPSender ------------------------------
(***************************************************************************)
(* A TCPSender with the application that writes its stream, the clock, and *)
(* its owner: the owner drains segments_out, calls the public methods in   *)
(* any order, and passes on acknowledgments that may be late, repeated, or *)
(* wrong.                                                                  *)
(***************************************************************************)
EXTENDS TCPSenderOps, TCPState

CONSTANTS
  StreamLen,        \* bound: bytes the application writes at most
  Capacity,         \* constructor argument: capacity of the outgoing stream
  ISN,              \* constructor argument: fixed_isn
  Windows,          \* window sizes that acknowledgments carry
  Ticks,            \* values of ms_since_last_tick
  MaxRetx           \* bound: consecutive retransmissions

ASSUME SenderAssumption ==
  /\ StreamLen \in Nat
  /\ Capacity \in Nat \ {0}
  /\ ISN \in WrappingInt32
  /\ Windows \subseteq Nat
  /\ Ticks \subseteq Nat \ {0}
  /\ MaxRetx \in Nat

\* The initial timeout doubled n times.
Doubled[n \in 0 .. MaxRetx] ==
  IF n = 0 THEN initial_retransmission_timeout ELSE 2 * Doubled[n - 1]

\* MaxRetx doublings fit an unsigned int: the timeout is a uint16_t number of
\* milliseconds and MAX_RETX_ATTEMPTS is 8 (tcp_config.hh).
ASSUME BackoffAssumption == Doubled[MaxRetx] < UIntRange

VARIABLE sender

vars == <<sender>>

Init == sender = NewSender(Capacity, ISN)

\* stream_in().write() with the next n bytes; an application that has ended its
\* input writes no more.
Write(n) ==
  /\ ~input_ended(sender.stream)
  /\ sender.stream.write_count + n <= StreamLen
  /\ sender' = [sender EXCEPT !.stream = write(@, Bytes(@.write_count, n))]

EndInput ==
  /\ ~input_ended(sender.stream)
  /\ sender' = [sender EXCEPT !.stream = end_input(@)]

FillWindow == sender' = fill_window(sender)

\* Any 32-bit number at all may be acknowledged.
AckReceived(ackno, window_size) ==
  sender' = ack_received(sender, ackno, window_size)

Tick(ms) ==
  /\ sender.retransnum < MaxRetx
  /\ sender' = tick(sender, ms)

SendEmptySegment == sender' = send_empty_segment(sender)

\* The owner takes everything out of segments_out.
CollectOutput == sender' = [sender EXCEPT !.segments_out = <<>>]

\* The sender never looks at segments_out, so the owner may as well drain it
\* before the next call; this bounds the queue.
Drained == sender.segments_out = <<>>

Next ==
  \/ Drained /\ \E n \in 1 .. StreamLen : Write(n)
  \/ Drained /\ EndInput
  \/ Drained /\ FillWindow
  \/ Drained /\ \E ackno \in WrappingInt32, win \in Windows : AckReceived(ackno, win)
  \/ Drained /\ \E ms \in Ticks : Tick(ms)
  \/ Drained /\ SendEmptySegment
  \/ CollectOutput

Spec == Init /\ [][Next]_vars
-----------------------------------------------------------------------------
Noack == sender.segments_noack
First(e) == e - length_in_sequence_space(Noack[e])

TypeOK ==
  /\ sender.stream \in ByteStreamType(Nat)
  /\ sender.ack_s \in 0 .. sender.next_seqno
  /\ sender.window \in Windows \cup {1}
  /\ sender.window # 0
  /\ sender.retransnum \in 0 .. MaxRetx
  /\ sender.RTO \in 0 .. UIntRange - 1
  /\ sender.rto_base \in 0 .. UIntRange - 1
  /\ {sender.window_zero, sender.fin_send, sender.start} \subseteq BOOLEAN

\* Every number sent and not yet acknowledged lies in exactly one segment of
\* segments_noack, so that a timeout can send it again: the segments overlap
\* nowhere and leave no gap, whatever acknowledgments (in the middle of a segment,
\* old, repeated, impossible) have been seen.
UnackedIsKept ==
  /\ \A e \in DOMAIN Noack : sender.ack_s < e /\ e <= sender.next_seqno
  /\ \A q \in sender.ack_s .. sender.next_seqno - 1 :
       \E e \in DOMAIN Noack : First(e) <= q /\ q < e
  /\ \A d, e \in DOMAIN Noack : d < e => d <= First(e)

\* A kept segment carries, under its sequence number, the bytes of the stream
\* that belong there; SYN is the first number and FIN the last one.
SegmentContent ==
  \A e \in DOMAIN Noack :
    LET seg == Noack[e] IN
      /\ seg.seqno = wrap(First(e), ISN)
      /\ seg.syn = (First(e) = 0)
      /\ seg.payload = Bytes(First(e) + Flag(seg.syn) - 1, Len(seg.payload))
      /\ seg.fin => e = sender.next_seqno /\ sender.fin_send
      /\ Len(seg.payload) <= MAX_PAYLOAD_SIZE

\* The timer runs exactly while something is in flight, a stopped timer is reset
\* to the full initial timeout, and when it runs there is a segment to send
\* again: the "nothing to retransmit" branch of tick is never taken.
TimerCoversFlight ==
  /\ sender.start <=> bytes_in_flight(sender) > 0
  /\ ~sender.start => sender.RTO = initial_retransmission_timeout
  /\ sender.start => DOMAIN Noack # {}

\* next_seqno counts SYN, the bytes taken from the stream and FIN, and FIN is
\* sent only when the stream is exhausted.
SequenceAccounting ==
  /\ sender.next_seqno = Flag(sender.next_seqno > 0) + sender.stream.read_count
                           + Flag(sender.fin_send)
  /\ sender.fin_send => eof(sender.stream)

\* The base of the timeout has doubled once per consecutive retransmission, also
\* when acknowledgments and closed windows came between, and has not overflowed.
Backoff ==
  sender.retransnum > 0 =>
    /\ sender.rto_base = Doubled[sender.retransnum]
    /\ sender.RTO <= sender.rto_base

\* Once the SYN is out, fill_window sends nothing beyond the right edge of the
\* peer's window, however the segments fall and whatever is in flight already,
\* and after FIN nothing at all.  (The call that sends the SYN: WindowRespected.)
WindowRespectedAfterSyn ==
  [][sender.next_seqno > 0 /\ sender'.next_seqno # sender.next_seqno =>
       /\ sender'.next_seqno <= sender.ack_s + sender.window
       /\ ~sender.fin_send]_vars

\* A timeout sends again the segment that holds the oldest unacknowledged number.
RetransmitsOldest ==
  [][sender'.retransnum > sender.retransnum =>
       \E e \in DOMAIN Noack :
         /\ First(e) <= sender.ack_s /\ sender.ack_s < e
         /\ sender'.segments_out = Append(sender.segments_out, Noack[e])]_vars

Summary ==
  SenderSummary(sender.stream.error, sender.next_seqno, bytes_in_flight(sender),
                eof(sender.stream), sender.stream.write_count)

\* CLOSED, SYN_SENT, SYN_ACKED, FIN_SENT, FIN_ACKED are passed in that order, and
\* the summary derived from counters agrees with the sender's own fin_send.
SummaryOnlyAdvances ==
  [][/\ Summary' >= Summary
     /\ Summary' \in {FIN_SENT, FIN_ACKED} => sender'.fin_send]_vars

\* A late acknowledgment, below the last one, takes nothing out of the queue and
\* does not touch the timer, the back-off, the stream or the sequence numbers.
\* (What it does to the window: OldAckIsIgnored.)
LateAckKeepsFlight ==
  [][\A ackno \in WrappingInt32, win \in Windows :
       /\ unwrap(ackno, ISN, sender.next_seqno) < sender.ack_s
       /\ AckReceived(ackno, win)
       => sender' = [sender EXCEPT !.window = sender'.window,
                                   !.window_zero = sender'.window_zero]]_vars

-----------------------------------------------------------------------------
(* What the tests say of the sender and the code does not do. *)

\* "a full window of nonzero size should be respected" (tests/send_extra.cc:364),
\* by every call that sends, the one that sends the SYN included.
WindowRespected ==
  [][sender'.next_seqno # sender.next_seqno =>
       sender'.next_seqno <= sender.ack_s + sender.window]_vars

\* "Old ACK is ignored" (tests/send_ack.cc:39): an acknowledgment below the last
\* one leaves the sender as it is, its window included.
OldAckIsIgnored ==
  [][\A ackno \in WrappingInt32, win \in Windows :
       /\ unwrap(ackno, ISN, sender.next_seqno) < sender.ack_s
       /\ AckReceived(ackno, win)
       => UNCHANGED sender]_vars

\* "Wait twice as long b/c exponential back-off" (tests/send_retx.cc:35), unless
\* the window the peer advertised last is zero (tests/send_extra.cc:309).  A
\* timeout in a window of more than one is in a window that is not zero.
BacksOffInOpenWindow ==
  [][sender'.retransnum > sender.retransnum /\ sender.window > 1 =>
       sender'.RTO = sender'.rto_base]_vars
=============================================================================
