------------------------------ MODULE TCPWire ------------------------------
(***************************************************************************)
(* TCPHeader and TCPSegment (libsponge/tcp_helpers/tcp_header.cc and       *)
(* tcp_segment.cc) as they are written to and read from the wire.  The six *)
(* flags of a header are the set of those that are on.                     *)
(*                                                                         *)
(* doff is the upper part of its byte: the byte divided by DoffUnit, 16 in *)
(* the code.                                                               *)
(***************************************************************************)
EXTENDS NetParser

CONSTANT DoffUnit

ASSUME DoffUnitAssumption == DoffUnit \in 1 .. ByteBase

LENGTH == 20

\* The fields in the order in which parse and serialize go through them.
Fields == << <<"sport", 2>>, <<"dport", 2>>, <<"seqno", 4>>, <<"ackno", 4>>,
             <<"doff", 1>>, <<"flags", 1>>, <<"win", 2>>, <<"cksum", 2>>,
             <<"uptr", 2>> >>

NewHeader ==
  [sport |-> 0, dport |-> 0, seqno |-> 0, ackno |-> 0, doff |-> LENGTH \div 4,
   flags |-> {}, win |-> 0, cksum |-> 0, uptr |-> 0]

FlagBit == [fin |-> 1, syn |-> 2, rst |-> 4, psh |-> 8, ack |-> 16, urg |-> 32]
FlagsOf(fl_b) == {f \in DOMAIN FlagBit : (fl_b \div FlagBit[f]) % 2 = 1}
FlagByte(flags) == MapThenSumSet(LAMBDA f : FlagBit[f], flags)

\* TCPHeader::parse: every field is assigned, with 0 once the parser is in
\* error; too small a doff returns before the options are skipped.
parse_header(p) ==
  LET parser[k \in 0 .. Len(Fields)] ==
        IF k = 0 THEN p ELSE skip(parser[k - 1], Fields[k][2])
      field(k) == parse_int(parser[k - 1], Fields[k][2])
      last == parser[Len(Fields)]
      header == [sport |-> field(1), dport |-> field(2), seqno |-> field(3),
                 ackno |-> field(4), doff |-> field(5) \div DoffUnit,
                 flags |-> FlagsOf(field(6)), win |-> field(7),
                 cksum |-> field(8), uptr |-> field(9)]
      rest == skip(last, header.doff * 4 - LENGTH)
  IN  IF header.doff < 5
        THEN [header |-> header, parser |-> last,
              result |-> "HeaderTooShort"]
        ELSE [header |-> header, parser |-> rest, result |-> rest.error]

\* Mutant: the header is not filled up to the size doff promises.
SerializeShort(h) ==
  LET raw == [h EXCEPT !.doff = (@ * DoffUnit) % ByteBase, !.flags = FlagByte(@)]
  IN  FlattenSeq([k \in DOMAIN Fields |->
                    unparse_int(raw[Fields[k][1]], Fields[k][2])])

\* TCPHeader::serialize, which throws unless doff is at least 5.
serialize_header(h) ==
  LET raw == [h EXCEPT !.doff = (@ * DoffUnit) % ByteBase, !.flags = FlagByte(@)]
      ret == FlattenSeq([k \in DOMAIN Fields |->
                           unparse_int(raw[Fields[k][1]], Fields[k][2])])
  IN  ret \o [i \in 1 .. 4 * h.doff - Len(ret) |-> 0]

NewSegment == [header |-> NewHeader, payload |-> [storage |-> <<>>,
                                                  starting_offset |-> 0]]

\* Mutant: the checksum is not verified.
ParseUnverified(seg, buffer, datagram_layer_checksum) ==
  LET h == parse_header(NewParser(buffer))
  IN  [segment |-> [header |-> h.header, payload |-> h.parser.buffer],
       result |-> h.parser.error]

\* TCPSegment::parse into the object seg.  The result of the header's parse is
\* not used: the parser's error is returned.
parse(seg, buffer, datagram_layer_checksum) ==
  IF value(add(NewChecksum(datagram_layer_checksum), str(buffer))) # 0
    THEN [segment |-> seg, result |-> "BadChecksum"]
    ELSE LET h == parse_header(NewParser(buffer))
         IN  [segment |-> [header |-> h.header, payload |-> h.parser.buffer],
              result |-> h.parser.error]

\* TCPSegment::serialize: a BufferList of the header and the payload.
serialize(seg, datagram_layer_checksum) ==
  LET blank == [seg.header EXCEPT !.cksum = 0]
      check == add(add(NewChecksum(datagram_layer_checksum),
                       serialize_header(blank)), str(seg.payload))
      header_out == [blank EXCEPT !.cksum = value(check)]
  IN  append(append(<<>>, <<Buffer(serialize_header(header_out))>>),
             <<seg.payload>>)
=============================================================================
