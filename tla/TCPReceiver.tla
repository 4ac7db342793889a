---------------------------- MODULE TCPReceiver ----------------------------
(***************************************************************************)
(* A TCPReceiver, the application that reads its stream, and the network:  *)
(* segments of one peer's stream arrive in any order, cut anywhere, lost,  *)
(* repeated and delayed, SYN and FIN included.                             *)
(***************************************************************************)
EXTENDS TCPReceiverOps, TCPState

CONSTANTS
  StreamLen,    \* bytes in the peer's stream
  Capacity,     \* constructor argument of the receiver
  ISNs          \* initial sequence numbers the peer may choose

ASSUME ReceiverAssumption ==
  /\ StreamLen \in Nat
  /\ Capacity \in 1 .. HalfRange - 1
  /\ ISNs \subseteq WrappingInt32

VARIABLES
  receiver,     \* the TCPReceiver object
  peerIsn       \* the peer's initial sequence number

vars == <<receiver, peerIsn>>

Written == stream_out(receiver).write_count
Ended == input_ended(stream_out(receiver))

Init ==
  /\ peerIsn \in ISNs
  /\ receiver = NewReceiver(Capacity)

Receive(seg) ==
  /\ receiver' = segment_received(receiver, seg)
  /\ UNCHANGED peerIsn

\* SYN, possibly with data and FIN; it may arrive again at any time.
ReceiveSyn ==
  \E len \in 0 .. StreamLen : \E fin \in {FALSE, len = StreamLen} :
    Receive(Segment(TRUE, fin, peerIsn, Bytes(0, len)))

\* A segment of the stream without SYN; with len = 0 a bare FIN or a bare ACK.
\* No segment is half the sequence space older or newer than the stream.
ReceiveData(index, len, fin) ==
  /\ index < Written + HalfRange
  /\ Written <= index + HalfRange
  /\ Receive(Segment(FALSE, fin, wrap(index + 1, peerIsn), Bytes(index, len)))

\* A byte that claims the SYN's own sequence number belongs to no stream
\* (tests/recv_window.cc:178); its value is none of the stream's bytes.
ReceiveStray ==
  /\ Written + 1 < HalfRange
  /\ Receive(Segment(FALSE, FALSE, peerIsn, <<StreamLen>>))

\* The application reads.
Read(n) ==
  /\ n <= buffer_size(stream_out(receiver))
  /\ receiver' = [receiver EXCEPT !.reassembler.output = after_read(@, n)]
  /\ UNCHANGED peerIsn

ReceiveAny ==
  \E index \in 0 .. StreamLen : \E len \in 0 .. StreamLen - index :
    \E fin \in {FALSE, index + len = StreamLen} : ReceiveData(index, len, fin)

ReadSome == \E n \in 1 .. Capacity : Read(n)

Next == ReceiveSyn \/ ReceiveAny \/ ReceiveStray \/ ReadSome

Spec == Init /\ [][Next]_vars
-----------------------------------------------------------------------------
\* The application reads the peer's stream, whatever arrives and in whatever
\* order: the window test of segment_received keeps the reassembler within the
\* contract its own push_substring needs.
OutputIsPrefix ==
  LET out == stream_out(receiver) IN
    out.bts = Bytes(out.read_count, out.write_count - out.read_count)

\* ackno() names exactly what is missing next: SYN, the bytes handed to the
\* application and, once the stream has ended, the FIN are acknowledged, and
\* nothing else, also when late duplicates arrive after the end.
AcknoExact ==
  receiver.ack # NoAckno =>
    receiver.ack = wrap(1 + Written + Flag(Ended), peerIsn)

\* The right edge of the window, ackno + window_size, never moves left: what the
\* peer was once allowed to send stays allowed.
RightEdgeNeverShrinks ==
  [][Written' + Flag(Ended') + window_size(receiver')
       >= Written + Flag(Ended) + window_size(receiver)]_vars

Summary ==
  ReceiverSummary(stream_out(receiver).error, receiver.ack # NoAckno, Ended)

\* LISTEN, SYN_RECV, FIN_RECV are passed in that order; a duplicate SYN or FIN
\* never takes the receiver back, and FIN_RECV means the whole stream is there.
SummaryOnlyAdvances ==
  [][Summary' >= Summary /\ (Summary' = FIN_RECV => Written' = StreamLen)]_vars
=============================================================================
