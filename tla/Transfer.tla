------------------------------ MODULE Transfer ------------------------------
(***************************************************************************)
(* One direction of a connection: a TCPSender, a TCPReceiver and a network *)
(* that loses, repeats, delays and reorders segments and acknowledgments.  *)
(* The repository has no TCPConnection; the two objects are driven as      *)
(* tests/sender_harness.hh and tests/receiver_harness.hh drive them: after *)
(* every write, close and acknowledgment the window is filled, segments    *)
(* leave the queue at once, and every segment that arrives is answered     *)
(* with the receiver's ackno and window.                                   *)
(***************************************************************************)
EXTENDS TCPReceiverOps, TCPSenderOps, TCPState

CONSTANTS
  StreamLen,          \* bound: bytes the application writes at most
  SendCapacity,       \* TCPConfig::send_capacity
  RecvCapacity,       \* TCPConfig::recv_capacity
  WindowRange,        \* 2^16, the range of the uint16_t that carries a window
  ISN,                \* TCPConfig::fixed_isn
  MaxInTransit,       \* bound: segments in the network, and acknowledgments
  MaxRetx             \* bound: where the count of retransmissions saturates

ASSUME TransferAssumption ==
  /\ StreamLen \in Nat
  /\ StreamLen + 2 <= HalfRange
  /\ SendCapacity \in Nat \ {0}
  /\ RecvCapacity \in 1 .. HalfRange - 1
  /\ WindowRange \in Nat \ {0}
  /\ ISN \in WrappingInt32
  /\ MaxInTransit \in Nat \ {0}
  /\ MaxRetx \in Nat \ {0}

VARIABLES
  sender, receiver,
  segments,     \* the segments in the network
  acks          \* the acknowledgments in the network

vars == <<sender, receiver, segments, acks>>

\* What may be left of the messages `sent`, given the losses.  A message that
\* arrives stays in the network until it is lost, so it may arrive again.
Survivors(sent) == {kept \in SUBSET sent : Cardinality(kept) <= MaxInTransit}

\* The sender is left as `s`, its queue goes out to the network.
SenderStep(s) ==
  /\ sender' = [s EXCEPT !.segments_out = <<>>, !.retransnum = Min2(@, MaxRetx)]
  /\ segments' \in Survivors(segments \cup Range(s.segments_out))

Init ==
  LET s == fill_window(NewSender(SendCapacity, ISN)) IN
    /\ sender = [s EXCEPT !.segments_out = <<>>]
    /\ segments = Range(s.segments_out)
    /\ receiver = NewReceiver(RecvCapacity)
    /\ acks = {}

WriteBytes(n) ==
  /\ ~input_ended(sender.stream)
  /\ n <= remaining_capacity(sender.stream)
  /\ sender.stream.write_count + n <= StreamLen
  /\ SenderStep(fill_window([sender EXCEPT !.stream = write(@, Bytes(@.write_count, n))]))
  /\ UNCHANGED <<receiver, acks>>

Close ==
  /\ ~input_ended(sender.stream)
  /\ SenderStep(fill_window([sender EXCEPT !.stream = end_input(@)]))
  /\ UNCHANGED <<receiver, acks>>

\* The retransmission timer runs out.
Timeout ==
  /\ sender.start
  /\ SenderStep(tick(sender, sender.RTO))
  /\ UNCHANGED <<receiver, acks>>

\* A segment arrives and is answered.
SegmentArrives(seg) ==
  /\ seg \in segments
  /\ receiver' = segment_received(receiver, seg)
  /\ acks' \in Survivors(acks \cup (IF ackno(receiver') = NoAckno THEN {}
                                    ELSE {[ackno |-> ackno(receiver'),
                                           win |-> window_size(receiver')]}))
  /\ UNCHANGED <<sender, segments>>

\* The receiver's size_t becomes the sender's uint16_t.
AckReceived(a) ==
  /\ a \in acks
  /\ SenderStep(fill_window(ack_received(sender, a.ackno, a.win % WindowRange)))
  /\ UNCHANGED <<receiver, acks>>

ReadBytes(n) ==
  /\ n <= buffer_size(stream_out(receiver))
  /\ receiver' = [receiver EXCEPT !.reassembler.output = after_read(@, n)]
  /\ UNCHANGED <<sender, segments, acks>>

Write == \E n \in 1 .. StreamLen : WriteBytes(n)
Deliver == \E seg \in segments : SegmentArrives(seg)
DeliverAck == \E a \in acks : AckReceived(a)
Read == \E n \in 1 .. RecvCapacity : ReadBytes(n)

Next == Write \/ Close \/ Timeout \/ Deliver \/ DeliverAck \/ Read

Spec == Init /\ [][Next]_vars

\* The links are lossy but not dead: a segment that is sent again and again is
\* not lost every time, and neither is the answer to it.
OldestSegment == sender.segments_noack[Oldest(sender.segments_noack)]
OldestRetransmitted == Timeout /\ OldestSegment \in segments'
OldestArrives ==
  /\ sender.start
  /\ SegmentArrives(OldestSegment)
  /\ \E a \in acks' : a.ackno = ackno(receiver')
AckArrives == \E a \in acks : a.ackno = ackno(receiver) /\ AckReceived(a)

\* The clock runs, the writing application closes, the reading one reads.
FairSpec ==
  /\ Spec
  /\ WF_vars(Close) /\ WF_vars(Read)
  /\ SF_vars(OldestRetransmitted) /\ SF_vars(OldestArrives) /\ SF_vars(AckArrives)
-----------------------------------------------------------------------------
Output == stream_out(receiver)
Ended == input_ended(Output)

Confirmed ==
  SenderSummary(sender.stream.error, sender.next_seqno, bytes_in_flight(sender),
                eof(sender.stream), sender.stream.write_count) = FIN_ACKED

\* The bytes the receiving application is given are the bytes the sending one
\* wrote, in their order, over a network that loses, repeats and reorders.
EndToEnd ==
  /\ Output.bts = Bytes(Output.read_count, Output.write_count - Output.read_count)
  /\ Output.write_count <= sender.stream.read_count

\* The sender gives up its copy of a byte, of SYN or of FIN only when the receiver
\* has it for good, whichever old acknowledgments are still in the network.
AckedIsDelivered ==
  sender.ack_s <= Flag(ackno(receiver) # NoAckno) + Output.write_count + Flag(Ended)

Pipe == INSTANCE ReliableStream WITH
  written <- sender.stream.write_count,
  closed <- input_ended(sender.stream),
  arrived <- Output.write_count,
  consumed <- Output.read_count,
  finished <- Ended,
  confirmed <- Confirmed

\* The two ends and the network implement a pipe: nothing arrives that was not
\* written, the end arrives last, and FIN_ACKED means that the peer has it all.
ImplementsPipe == Pipe!Spec

\* Over links that are not dead the whole stream arrives and both ends know it,
\* also through a window that is closed most of the time.
EventuallyComplete ==
  <>(Confirmed /\ Ended /\ Output.read_count = sender.stream.write_count)
=============================================================================
