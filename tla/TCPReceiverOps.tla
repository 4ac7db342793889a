--------------------------- MODULE TCPReceiverOps ---------------------------
(***************************************************************************)
(* Class TCPReceiver (libsponge/tcp_receiver.hh and .cc) as a value and    *)
(* its methods as operators.  The member _begin is assigned by every call  *)
(* before it is used, so it is no part of the value.                       *)
(***************************************************************************)
EXTENDS StreamReassemblerOps, WrappingIntegers, TCPSegment

NoAckno == -1      \* the empty optional

NewReceiver(capacity) ==
  [reassembler |-> NewReassembler(capacity), syn |-> FALSE, isn |-> 0,
   checkp |-> 0, ack |-> NoAckno]

stream_out(r) == r.reassembler.output
unassembled(r) == unassembled_bytes(r.reassembler)
ackno(r) == r.ack

\* Mutant: bytes that wait for a gap to close are taken off the window.
WindowLessUnassembled(r) == remaining_capacity(stream_out(r)) - unassembled(r)

window_size(r) == remaining_capacity(stream_out(r))

\* Mutant: no upper bound on the index.
BelowCheckpointOnly(r, index, len) == index + len >= r.checkp

\* The segment overlaps or touches the window.
Acceptable(r, index, len) ==
  index + len >= r.checkp /\ index < r.checkp + window_size(r)

\* Mutant: the FIN is not acknowledged.
AcknowledgeBytesOnly(r) ==
  LET written == stream_out(r).write_count
  IN  [r EXCEPT !.ack = wrap(written + 1, r.isn), !.checkp = written]

\* Mutant: bytes that wait for a gap to close are acknowledged too.
AcknowledgeUnassembled(r) ==
  LET written == stream_out(r).write_count
  IN  [r EXCEPT !.ack = wrap(written + unassembled(r) + 1 + Flag(input_ended(stream_out(r))), r.isn),
                !.checkp = written]

\* _checkp and ack after a segment was handed to the reassembler.  At the end
\* of the stream the receiver forgets the SYN and the checkpoint.
Acknowledge(r) ==
  LET written == stream_out(r).write_count
  IN  IF input_ended(stream_out(r))
      THEN [r EXCEPT !.ack = wrap(written + 2, r.isn), !.syn = FALSE, !.checkp = 0]
      ELSE [r EXCEPT !.ack = wrap(written + 1, r.isn), !.checkp = written]

\* The first test of segment_received.
OpenOnSyn(r, seg) ==
  IF seg.syn THEN [r EXCEPT !.syn = TRUE, !.isn = seg.seqno] ELSE r

segment_received(r, seg) ==
  LET opened == OpenOnSyn(r, seg)
      begin == IF seg.syn THEN seg.seqno ELSE (seg.seqno - 1) % Modulus
      len == length_in_sequence_space(seg) - Flag(seg.syn) - Flag(seg.fin)
      index == unwrap(begin, opened.isn, opened.checkp)
      pushed == [opened EXCEPT !.reassembler =
                   push_substring(@, seg.payload, index, seg.fin)]
  IN  IF (seg.syn /\ r.syn) \/ ~opened.syn THEN r
      ELSE IF Acceptable(opened, index, len) THEN Then(pushed, Acknowledge)
      ELSE opened
=============================================================================
