--------------------------- MODULE SegmentExchange ---------------------------
(***************************************************************************)
(* Segments on their way between two hosts: TCPSegment::serialize, a       *)
(* UDPSocket that sends the buffer list, a network that loses, repeats and *)
(* damages datagrams, UDPSocket::recv with its mtu, and TCPSegment::parse  *)
(* into an object that is used again and again.  Foreign datagrams have a  *)
(* right checksum and otherwise any length and doff.                       *)
(***************************************************************************)
EXTENDS TCPWire, FileDescriptorOps

CONSTANTS
  SeqNos, FlagSets, Doffs, PayloadLens,  \* what local segments are made of
  Pseudos,        \* the datagram layer's checksums of local segments
  Deltas,         \* what damage may add to a byte
  MaxForeign,     \* bound on the length of a foreign datagram
  mtu

ASSUME ExchangeAssumption ==
  /\ SeqNos \subseteq 0 .. U32 - 1 /\ PayloadLens \subseteq 0 .. ByteBase
  /\ Doffs \subseteq 5 .. ByteBase \div DoffUnit - 1
  /\ Deltas \subseteq 1 .. ByteBase - 1 /\ Pseudos \subseteq 0 .. U32 \div 2
  /\ MaxForeign \in Nat /\ mtu \in Nat

VARIABLES
  link,      \* the datagram under way: [bytes, pseudo, origin, segment], or NoDatagram
  received,  \* the receiver's TCPSegment object
  last,      \* history: the datagram received last, with its result
  tx, rx     \* the FDWrappers of the two sockets

vars == <<link, received, last, tx, rx>>

NoDatagram == [bytes |-> <<>>, pseudo |-> 0, origin |-> "none",
               segment |-> NewSegment]
Nothing == [datagram |-> NoDatagram, result |-> "none"]

LocalSegments ==
  {[header |-> [NewHeader EXCEPT !.sport = U16 - 2, !.dport = 1, !.seqno = n,
                                 !.ackno = U16 + ByteBase, !.doff = d,
                                 !.flags = f, !.win = U16 - 1,
                                 !.cksum = 7, !.uptr = ByteBase],
    payload |-> Buffer([i \in 1 .. len |-> ByteBase - i])] :
     n \in SeqNos, d \in Doffs, f \in FlagSets, len \in PayloadLens}

Init ==
  /\ link = NoDatagram /\ received = NewSegment /\ last = Nothing
  /\ tx = NewFDWrapper /\ rx = NewFDWrapper

\* Bound: the object is used again after an intact segment; after anything else
\* a new one is taken before the next datagram sets out.
Reusable == last.datagram.origin \in {"none", "local"}

Discard ==
  /\ last # Nothing /\ link = NoDatagram
  /\ received' = NewSegment /\ last' = Nothing
  /\ UNCHANGED <<link, tx, rx>>

\* serialize and UDPSocket::send: sendmsg gathers the views into one datagram.
Send ==
  /\ link = NoDatagram /\ Reusable
  /\ \E seg \in LocalSegments, pseudo \in Pseudos :
       link' = [bytes |-> Gather(BufferViewList(serialize(seg, pseudo))),
                pseudo |-> pseudo, origin |-> "local", segment |-> seg]
  /\ tx' = register_write(tx)
  /\ UNCHANGED <<received, last, rx>>

\* External: len bytes of some other program, of which the thirteenth is
\* doff; the datagram layer's checksum makes the sum right.
Foreign ==
  /\ link = NoDatagram /\ Reusable
  /\ \E len \in 0 .. MaxForeign, doff_byte \in 0 .. ByteBase - 1 :
       /\ doff_byte % DoffUnit = 1
       /\ LET bytes == [i \in 1 .. len |-> IF i = 13 THEN doff_byte
                                                     ELSE (7 * i) % ByteBase]
          IN  link' = [bytes |-> bytes, origin |-> "foreign",
                       pseudo |-> value(add(NewChecksum(0), bytes)),
                       segment |-> NewSegment]
  /\ UNCHANGED <<received, last, tx, rx>>

\* External: one byte changes.
Damage ==
  /\ link.origin = "local"
  /\ \E i \in DOMAIN link.bytes, d \in Deltas :
       link' = [link EXCEPT !.bytes[i] = (@ + d) % ByteBase,
                            !.origin = "damaged"]
  /\ UNCHANGED <<received, last, tx, rx>>

Lose ==
  /\ link # NoDatagram /\ link' = NoDatagram
  /\ UNCHANGED <<received, last, tx, rx>>

\* UDPSocket::recv and parse; the network may hold on to a copy.
Receive ==
  /\ link # NoDatagram /\ Len(link.bytes) <= mtu
  /\ rx' = register_read(rx)
  /\ LET p == parse(received, Buffer(link.bytes), link.pseudo)
     IN  received' = p.segment /\ last' = [datagram |-> link, result |-> p.result]
  /\ link' \in {link, NoDatagram}
  /\ UNCHANGED tx

\* recv throws: the datagram is gone, and the read is not registered.
ReceiveOversized ==
  /\ Len(link.bytes) > mtu
  /\ link' = NoDatagram
  /\ UNCHANGED <<received, last, tx, rx>>

Next == Discard \/ Send \/ Foreign \/ Damage \/ Lose \/ Receive \/ ReceiveOversized

Spec == Init /\ [][Next]_vars

-----------------------------------------------------------------------------
(* Properties. *)

\* A segment that arrives as it was sent is accepted, and all fields but the
\* checksum and all bytes of the payload are what the sender had, whatever the
\* object held before.
IntactIsAccepted ==
  last.datagram.origin = "local" =>
    LET sent == last.datagram.segment
    IN  /\ last.result = "NoError"
        /\ received.header = [sent.header EXCEPT !.cksum = received.header.cksum]
        /\ str(received.payload) = str(sent.payload)

\* One damaged byte, in the header, its filling or the payload, never passes.
DamageIsRejected ==
  last.datagram.origin = "damaged" => last.result = "BadChecksum"

\* What parsing makes of any datagram, read off by position instead: one that
\* ends before its header does is too short, and otherwise the payload is what
\* follows the header.  TCPHeader::parse agrees, and objects to a doff below the
\* minimum.  (What TCPSegment::parse makes of such a doff: ShortDoffIsReported.)
ParsedByPosition ==
  last.datagram.origin = "foreign" =>
    LET bytes == last.datagram.bytes
        At(i) == IF i + 1 \in DOMAIN bytes THEN bytes[i + 1] ELSE 0
        doff == At(12) \div DoffUnit
        start == 4 * doff
    IN  /\ Len(bytes) < LENGTH => last.result = "PacketTooShort"
        /\ Len(bytes) >= LENGTH =>
             parse_header(NewParser(Buffer(bytes))).result =
               IF doff < 5 THEN "HeaderTooShort" ELSE last.result
        /\ doff >= 5 =>
             last.result = IF Len(bytes) < start THEN "PacketTooShort"
                                                 ELSE "NoError"
        /\ doff >= 5 /\ last.result = "NoError" =>
             /\ str(received.payload) = SubSeq(bytes, start + 1, Len(bytes))
             /\ received.header.doff = doff
             /\ received.header.dport = At(2) * ByteBase + At(3)
             /\ received.header.uptr = At(18) * ByteBase + At(19)

\* The checksum does not depend on how the data is cut into calls of add, at odd
\* places too, and is the complement of the ones' complement sum of the words.
ChecksumOfWords ==
  LET bytes == link.bytes
      Word(k) == bytes[2 * k - 1] * ByteBase
                   + IF 2 * k <= Len(bytes) THEN bytes[2 * k] ELSE 0
      words == MapThenSumSet(Word, 1 .. (Len(bytes) + 1) \div 2)
  IN  \A cut \in 0 .. Len(bytes) :
        LET whole == add(add(NewChecksum(0), SubSeq(bytes, 1, cut)),
                         SubSeq(bytes, cut + 1, Len(bytes)))
        IN  (value(whole) + words) % (U16 - 1) = 0
-----------------------------------------------------------------------------
\* "Header length is shorter than minimum required" (parser.hh:17) is a result of
\* parsing a "TCP segment" (parser.hh:11): a segment with a whole header whose doff
\* is below the minimum is rejected as such, as TCPHeader::parse is by the test
\* (tests/tcp_parser.cc:83).  The code does not do that in TCPSegment::parse.
ShortDoffIsReported ==
  LET bytes == last.datagram.bytes
  IN  last.datagram.origin = "foreign" /\ Len(bytes) >= LENGTH
        /\ bytes[13] \div DoffUnit < 5
      => last.result = "HeaderTooShort"
=============================================================================
