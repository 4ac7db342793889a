----------------------------- MODULE TCPSegment -----------------------------
(***************************************************************************)
(* The fields of class TCPSegment (libsponge/tcp_helpers/tcp_segment.hh)   *)
(* that the sender and the receiver exchange.                              *)
(***************************************************************************)
EXTENDS Integers, Sequences

Segment(syn, fin, seqno, payload) ==
  [syn |-> syn, fin |-> fin, seqno |-> seqno, payload |-> payload]

Flag(b) == IF b THEN 1 ELSE 0

length_in_sequence_space(seg) == Len(seg.payload) + Flag(seg.syn) + Flag(seg.fin)
=============================================================================
