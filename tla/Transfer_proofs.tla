-------------------------- MODULE Transfer_proofs --------------------------
(***************************************************************************)
(* Theorems about module Transfer, for every length of the stream, every   *)
(* capacity, every initial sequence number and every bound of the network. *)
(* The sender and the receiver are taken from SenderTheorems and           *)
(* ReceiverTheorems as values with the invariants SenderOK and Serves;     *)
(* here is what the network and the two of them keep together.             *)
(***************************************************************************)
EXTENDS Transfer, SenderTheorems, ReceiverTheorems

\* The constants, for arithmetic.
LEMMA Constants ==
  /\ StreamLen \in Nat /\ HalfRange \in Nat /\ StreamLen + 2 <= HalfRange
  /\ SendCapacity \in Nat /\ RecvCapacity \in Nat /\ RecvCapacity > 0
  /\ ISN \in Int /\ MaxRetx \in Nat
  /\ ISN \in WrappingInt32
  BY TransferAssumption, HalfRangeAssumption DEF WrappingInt32, Modulus

-----------------------------------------------------------------------------
(* The sender. *)

\* A step of the sender: the network holds what it held, or less, and what was sent.
LEMMA SenderStepKeeps ==
  ASSUME NEW t, WireOK(sender, segments, SendCapacity, ISN),
         Calls(sender, t, SendCapacity, ISN), SenderStep(t)
  PROVE  /\ WireOK(sender', segments', SendCapacity, ISN) /\ Grows(sender, sender')
         /\ Drains(t, sender', SendCapacity, ISN)
<1>1. SenderOK(t, SendCapacity, ISN)
  BY DEF Calls
<1>2. sender' = [t EXCEPT !.segments_out = <<>>, !.retransnum = Min2(@, MaxRetx)]
  BY Zenon DEF SenderStep, Min2
<1>3. Drains(t, sender', SendCapacity, ISN)
  BY <1>1, <1>2, Constants, DrainCapped
<1>4. segments' \subseteq segments \cup Range(t.segments_out)
  BY DEF SenderStep, Survivors, Range
<1>5. Leaves(sender, t, sender', segments, segments', SendCapacity, ISN)
  BY <1>3, <1>4 DEF Leaves
<1> QED
  BY <1>3, <1>5, Constants, StillOnWire

-----------------------------------------------------------------------------
(* The receiver. *)

\* How many numbers the receiver has for good: SYN, bytes and FIN.
Progress(r) ==
  Flag(ackno(r) # NoAckno) + stream_out(r).write_count + Flag(stream_out(r).end_flag)

\* What it tells when the peer has sent `sent` bytes, and FIN if fin: its ackno names
\* its progress, and the end is the end of what was sent.
Told(r, sent, fin) ==
  /\ stream_out(r).write_count \in Nat /\ stream_out(r).read_count \in Nat
  /\ stream_out(r).read_count <= stream_out(r).write_count
  /\ stream_out(r).bts = Bytes(stream_out(r).read_count,
                               stream_out(r).write_count - stream_out(r).read_count)
  /\ stream_out(r).end_flag \in BOOLEAN
  /\ window_size(r) \in 0 .. RecvCapacity
  /\ stream_out(r).write_count <= sent
  /\ stream_out(r).end_flag => fin /\ stream_out(r).write_count = sent
  /\ Progress(r) \in Nat
  /\ ackno(r) = NoAckno => Progress(r) = 0
  /\ ackno(r) # NoAckno => Progress(r) >= 1 /\ ackno(r) = wrap(Progress(r), ISN)

\* That follows from what it serves.
LEMMA ReceiverTold ==
  ASSUME NEW r, NEW sent \in Nat, NEW fin \in BOOLEAN,
         Serves(r, ISN, RecvCapacity, sent, fin)
  PROVE  Told(r, sent, fin)
<1> DEFINE out == stream_out(r)
           w == out.write_count
<1>1. Reports(r, ISN, RecvCapacity, sent, fin)
  BY Constants, ServesFacts
<1>3. /\ w \in Nat /\ out.read_count \in Nat /\ out.end_flag \in BOOLEAN
      /\ window_size(r) \in 0 .. RecvCapacity
      /\ StreamOK(out, RecvCapacity)
      /\ out.end_flag => fin
  BY <1>1 DEF Reports
<1>4. /\ out.read_count <= w
      /\ out.bts = Bytes(out.read_count, w - out.read_count)
  BY <1>3 DEF StreamOK
<1>5. /\ w <= sent /\ (out.end_flag => w = sent)
      /\ r.ack = NoAckno => w = 0 /\ ~out.end_flag
      /\ r.ack # NoAckno => r.ack = wrap(1 + w + Flag(out.end_flag), ISN)
  BY <1>1, Zenon DEF Reports, Tells
<1>6. Progress(r) = Flag(r.ack # NoAckno) + w + Flag(out.end_flag)
  BY DEF Progress, ackno
<1> HIDE DEF w
<1>7. /\ Progress(r) \in Nat
      /\ r.ack = NoAckno => Progress(r) = 0
      /\ r.ack # NoAckno => Progress(r) >= 1 /\ Progress(r) = 1 + w + Flag(out.end_flag)
  BY <1>3, <1>5, <1>6 DEF Flag
<1> QED
  BY <1>3, <1>4, <1>5, <1>7 DEF Told, w, ackno

\* That is what a sender puts on the wire.
LEMMA SentBelongs ==
  ASSUME NEW isn, NEW seg, NEW t, SentBy(seg, t, isn)
  PROVE  \E first : Belongs(seg, first, isn, t.stream.read_count, t.fin_send)
<1>1. PICK first : Carries(seg, first, t, isn)
  BY DEF SentBy
<1>2. seg \in SegmentType
  BY <1>1 DEF Carries
<1>3. seg = Segment(seg.syn, seg.fin, seg.seqno, seg.payload) /\ seg.fin \in BOOLEAN
  BY <1>2 DEF SegmentType, Segment
<1>4. Len(seg.payload) \in Nat
  BY <1>2, SegmentLength
<1>5. Belongs(seg, first, isn, t.stream.read_count, t.fin_send)
  BY <1>1, <1>3, <1>4, Zenon DEF Carries, Holds, Belongs
<1> QED
  BY <1>5

\* A segment of the sender arrives at the receiver.
LEMMA ArrivalServed ==
  ASSUME NEW r, NEW sent \in Nat, sent < HalfRange, NEW fin \in BOOLEAN,
         Serves(r, ISN, RecvCapacity, sent, fin),
         NEW seg, NEW s, SentBy(seg, s, ISN),
         sent = s.stream.read_count, fin = s.fin_send
  PROVE  Served(r, segment_received(r, seg), ISN, RecvCapacity, sent, fin)
<1>1. PICK first : Belongs(seg, first, ISN, sent, fin)
  BY SentBelongs
<1> QED
  BY <1>1, Constants, SegmentServed

\* The application reads.
LEMMA ReadingServed ==
  ASSUME NEW r, NEW sent \in Nat, NEW fin \in BOOLEAN,
         Serves(r, ISN, RecvCapacity, sent, fin),
         NEW n \in Nat, n > 0, n <= buffer_size(stream_out(r))
  PROVE  ServedRead(r, [r EXCEPT !.reassembler.output = after_read(@, n)], n,
                      ISN, RecvCapacity, sent, fin)
  BY Constants, ReadServed

-----------------------------------------------------------------------------
(* The connection. *)

\* An acknowledgment in the network names a number the receiver has reached.
AckOK(a, progress) ==
  /\ a.win \in 0 .. RecvCapacity
  /\ \E n \in 1 .. progress : a.ackno = wrap(n, ISN)

\* What a sender s, a receiver r and the network between them keep.
Joint(s, r, segs, as) ==
  /\ WireOK(s, segs, SendCapacity, ISN)
  /\ s.stream.write_count <= StreamLen
  /\ Serves(r, ISN, RecvCapacity, s.stream.read_count, s.fin_send)
  /\ ackno(r) # NoAckno => s.next_seqno > 0
  /\ s.ack_s <= Progress(r)
  /\ \A a \in as : AckOK(a, Progress(r))

\* The inductive invariant.
Inv == Joint(sender, receiver, segments, acks)

\* The numbers of the two ends, side by side.
Sided(s, r) ==
  /\ s.next_seqno \in Nat /\ s.ack_s \in Nat /\ s.ack_s <= s.next_seqno
  /\ s.stream.read_count \in Nat /\ s.stream.write_count \in Nat
  /\ s.stream.read_count <= s.stream.write_count
  /\ s.fin_send \in BOOLEAN /\ s.stream.end_flag \in BOOLEAN
  /\ s.fin_send => s.stream.end_flag /\ s.stream.read_count = s.stream.write_count
  /\ Told(r, s.stream.read_count, s.fin_send)
  /\ Progress(r) <= s.next_seqno
  /\ s.next_seqno <= HalfRange /\ s.stream.read_count < HalfRange
  /\ s.fin_send /\ s.ack_s = s.next_seqno => stream_out(r).end_flag

\* They fit: in particular FIN is acknowledged only at the end.
LEMMA JointSides ==
  ASSUME NEW s, NEW r, NEW segs, NEW as, Joint(s, r, segs, as)
  PROVE  Sided(s, r)
<1> DEFINE next == s.next_seqno
           sent == s.stream.read_count
           fin == s.fin_send
           w == stream_out(r).write_count
           end == stream_out(r).end_flag
           open == ackno(r) # NoAckno
<1>1. SenderOK(s, SendCapacity, ISN)
  BY DEF Joint, WireOK
<1>2. Counts(s)
  BY <1>1, SenderCounts
<1>3. /\ next \in Nat /\ s.ack_s \in Nat /\ s.ack_s <= next
      /\ sent \in Nat /\ s.stream.write_count \in Nat /\ sent <= s.stream.write_count
      /\ fin \in BOOLEAN /\ s.stream.end_flag \in BOOLEAN
      /\ fin => s.stream.end_flag /\ sent = s.stream.write_count
      /\ next = Flag(next > 0) + sent + Flag(fin)
  BY <1>2 DEF Counts, Flag
<1>4. Told(r, sent, fin)
  BY <1>3, ReceiverTold DEF Joint
<1>5. /\ w \in Nat /\ w <= sent /\ end \in BOOLEAN /\ (end => fin)
      /\ Progress(r) \in Nat /\ Progress(r) = Flag(open) + w + Flag(end)
  BY <1>4 DEF Told, Progress
<1>6. /\ open => next > 0
      /\ s.stream.write_count <= StreamLen /\ s.ack_s <= Progress(r)
  BY DEF Joint
<1>7. Flag(end) <= Flag(fin) /\ Flag(open) <= Flag(next > 0)
  BY <1>5, <1>6 DEF Flag
<1>8. /\ Flag(end) \in {0, 1} /\ Flag(fin) \in {0, 1} /\ Flag(open) \in {0, 1}
      /\ Flag(next > 0) \in {0, 1} /\ (Flag(end) = 1 => end) /\ (fin => Flag(fin) = 1)
      /\ next > 0 => Flag(next > 0) = 1
  BY DEF Flag
<1> DEFINE a == Flag(open)
           b == Flag(next > 0)
           c == Flag(end)
           d == Flag(fin)
           p == Progress(r)
           ws == s.stream.write_count
           ack == s.ack_s
<1>9. p <= next /\ next <= HalfRange /\ sent < HalfRange
  <2>1. ws \in Nat /\ ws <= StreamLen /\ sent <= ws
    BY <1>3, <1>6
  <2> HIDE DEF a, b, c, d, p, w, sent, next, ws
  <2> QED
    BY <1>3, <1>5, <1>7, <1>8, <2>1, Constants DEF a, b, c, d, p
<1>10. ASSUME fin, ack = next PROVE end
  <2>1. d = 1 /\ next = b + sent + d /\ ack <= p /\ p = a + w + c
    BY <1>3, <1>5, <1>6, <1>8, <1>10
  <2>2. next > 0 /\ b = 1
    <3> HIDE DEF a, b, c, d, p, w, sent, next, ack
    <3>1. next > 0
      BY <1>3, <1>8, <2>1 DEF b
    <3> QED
      BY <1>8, <3>1 DEF b
  <2>3. c = 1
    <3> HIDE DEF a, b, c, d, p, w, sent, next, ack
    <3> QED
      BY <1>3, <1>5, <1>8, <1>10, <2>1, <2>2 DEF a, c
  <2> QED
    BY <1>8, <2>3
<1> QED
  BY <1>3, <1>4, <1>9, <1>10 DEF Sided

\* A step of the sender keeps it all, if it takes no more than was offered and no
\* acknowledgment is beyond the receiver's progress.
LEMMA SenderMoves ==
  ASSUME Inv, NEW t, Calls(sender, t, SendCapacity, ISN), SenderStep(t),
         receiver' = receiver, acks' = acks,
         t.stream.write_count <= StreamLen, t.ack_s <= Progress(receiver)
  PROVE  Inv' /\ Grows(sender, sender') /\ Drains(t, sender', SendCapacity, ISN)
<1>1. /\ WireOK(sender', segments', SendCapacity, ISN) /\ Grows(sender, sender')
      /\ Drains(t, sender', SendCapacity, ISN)
  BY SenderStepKeeps DEF Inv, Joint
<1>2. sender'.stream = t.stream /\ sender'.ack_s = t.ack_s
  BY <1>1 DEF Drains
<1>3. Sided(sender, receiver) /\ Counts(sender')
  BY <1>1, JointSides, SenderCounts DEF Inv, WireOK
<1> DEFINE sent == sender.stream.read_count
           fin == sender.fin_send
           sent2 == sender'.stream.read_count
           fin2 == sender'.fin_send
<1>4. /\ sent \in Nat /\ fin \in BOOLEAN /\ sent2 \in Nat /\ fin2 \in BOOLEAN
      /\ sent <= sent2 /\ (fin => fin2 /\ sent2 = sent)
      /\ sender.next_seqno \in Nat /\ sender'.next_seqno \in Nat
      /\ sender.next_seqno <= sender'.next_seqno
  BY <1>1, <1>3 DEF Sided, Counts, Grows
<1>5. Serves(receiver, ISN, RecvCapacity, sent, fin)
  BY DEF Inv, Joint
<1>6. Serves(receiver, ISN, RecvCapacity, sent2, fin2)
  <2> HIDE DEF sent, fin, sent2, fin2
  <2> QED
    BY <1>4, <1>5, ServesMore
<1>7. ackno(receiver) # NoAckno => sender'.next_seqno > 0
  BY <1>4 DEF Inv, Joint
<1>8. Joint(sender', receiver, segments', acks)
  BY <1>1, <1>2, <1>6, <1>7 DEF Inv, Joint
<1>9. Inv'
  BY <1>8 DEF Inv
<1> QED
  BY <1>1, <1>9

\* FIN_ACKED, in terms of the sender's members.
LEMMA ConfirmedIs ==
  ASSUME Inv
  PROVE  /\ Confirmed \in BOOLEAN
         /\ Confirmed <=> sender.fin_send /\ sender.ack_s = sender.next_seqno
  BY Constants, AllAcked DEF Inv, Joint, WireOK, Confirmed, SummaryOf

\* The same in the next state.
LEMMA ConfirmedNext ==
  ASSUME Inv'
  PROVE  /\ Confirmed' \in BOOLEAN
         /\ Confirmed' <=> sender'.fin_send /\ sender'.ack_s = sender'.next_seqno
  BY Constants, AllAcked DEF Inv, Joint, WireOK, Confirmed, SummaryOf

\* Nothing is confirmed before the application has closed.
LEMMA OpenUnconfirmed ==
  ASSUME Inv, Inv', receiver' = receiver, ~sender.stream.end_flag
  PROVE  Confirmed = FALSE /\ Confirmed' = FALSE
<1>1. Sided(sender, receiver) /\ Sided(sender', receiver)
  BY JointSides DEF Inv
<1>2. ~sender.fin_send /\ ~stream_out(receiver).end_flag
  BY <1>1 DEF Sided, Told
<1>3. ~(sender'.fin_send /\ sender'.ack_s = sender'.next_seqno)
  BY <1>1, <1>2 DEF Sided
<1> QED
  BY <1>2, <1>3, ConfirmedIs, ConfirmedNext

-----------------------------------------------------------------------------
(* The steps. *)

\* Each action keeps the invariant and is a step of the pipe, or none.
StepOK == Inv' /\ [Pipe!Next]_(Pipe!vars)

\* The application writes.
LEMMA WriteStep == ASSUME Inv, Write PROVE StepOK
<1>1. PICK n \in 1 .. StreamLen : WriteBytes(n)
  BY DEF Write
<1> DEFINE t == fill_window([sender EXCEPT !.stream = write(@, Bytes(@.write_count, n))])
           w == sender.stream.write_count
<1>2. /\ ~sender.stream.end_flag /\ n <= remaining_capacity(sender.stream)
      /\ w + n <= StreamLen /\ SenderStep(t) /\ receiver' = receiver /\ acks' = acks
  BY <1>1 DEF WriteBytes, input_ended
<1>3. n \in Nat /\ Sided(sender, receiver)
  BY Constants, JointSides DEF Inv
<1>4. Writes(sender, t, n, SendCapacity, ISN)
  BY <1>2, <1>3, Constants, WriteCalls DEF Inv, Joint, WireOK
<1> HIDE DEF t
<1>5. /\ Calls(sender, t, SendCapacity, ISN) /\ t.ack_s = sender.ack_s
      /\ t.stream.write_count = w + n /\ t.stream.end_flag = sender.stream.end_flag
  BY <1>4 DEF Writes
<1>6. Inv' /\ Drains(t, sender', SendCapacity, ISN)
  BY <1>2, <1>5, SenderMoves DEF Inv, Joint
<1>7. Confirmed = FALSE /\ Confirmed' = FALSE
  BY <1>2, <1>6, OpenUnconfirmed
<1>8. /\ sender'.stream.write_count = w + n
      /\ sender'.stream.end_flag = sender.stream.end_flag
  BY <1>5, <1>6 DEF Drains
<1>9. sender'.stream.write_count \in w .. StreamLen
  BY <1>2, <1>3, <1>8, Constants DEF Sided
<1>10. Pipe!WriteBytes
  BY <1>2, <1>7, <1>8, <1>9 DEF Pipe!WriteBytes, Output, Ended, input_ended
<1> QED
  BY <1>6, <1>10 DEF StepOK, Pipe!Next

\* The application closes.
LEMMA CloseStep == ASSUME Inv, Close PROVE StepOK
<1> DEFINE t == fill_window([sender EXCEPT !.stream = end_input(@)])
<1>1. /\ ~sender.stream.end_flag /\ SenderStep(t) /\ receiver' = receiver /\ acks' = acks
  BY DEF Close, input_ended
<1>2. Closes(sender, t, SendCapacity, ISN)
  BY <1>1, Constants, CloseCalls DEF Inv, Joint, WireOK
<1> HIDE DEF t
<1>3. /\ Calls(sender, t, SendCapacity, ISN) /\ t.ack_s = sender.ack_s
      /\ t.stream.write_count = sender.stream.write_count
  BY <1>2 DEF Closes
<1>4. Inv' /\ Drains(t, sender', SendCapacity, ISN)
  BY <1>1, <1>3, SenderMoves DEF Inv, Joint
<1>5. Confirmed = FALSE /\ Confirmed' = FALSE
  BY <1>1, <1>4, OpenUnconfirmed
<1>6. /\ sender'.stream.write_count = sender.stream.write_count
      /\ sender'.stream.end_flag = TRUE
  BY <1>2, <1>4 DEF Drains, Closes
<1>7. Pipe!Close
  BY <1>1, <1>5, <1>6 DEF Pipe!Close, Output, Ended, input_ended
<1> QED
  BY <1>4, <1>7 DEF StepOK, Pipe!Next

\* The timer runs out.
LEMMA TimeoutStep == ASSUME Inv, Timeout PROVE StepOK
<1> DEFINE t == tick(sender, sender.RTO)
<1>1. SenderStep(t) /\ receiver' = receiver /\ acks' = acks
  BY DEF Timeout
<1>2. Ticked(sender, t, SendCapacity, ISN)
  BY Constants, TimeoutCalls DEF Inv, Joint, WireOK
<1> HIDE DEF t
<1>3. /\ Calls(sender, t, SendCapacity, ISN) /\ t.ack_s = sender.ack_s
      /\ t.stream = sender.stream /\ t.next_seqno = sender.next_seqno
      /\ t.fin_send = sender.fin_send
  BY <1>2 DEF Ticked
<1>4. Inv' /\ Drains(t, sender', SendCapacity, ISN)
  BY <1>1, <1>3, SenderMoves DEF Inv, Joint
<1>5. /\ sender'.stream = sender.stream /\ sender'.ack_s = sender.ack_s
      /\ sender'.next_seqno = sender.next_seqno /\ sender'.fin_send = sender.fin_send
  BY <1>3, <1>4 DEF Drains
<1>6. Confirmed' = Confirmed
  BY <1>4, <1>5, ConfirmedIs, ConfirmedNext
<1>7. UNCHANGED Pipe!vars
  BY <1>1, <1>5, <1>6 DEF Pipe!vars, Output, Ended, input_ended
<1> QED
  BY <1>4, <1>7 DEF StepOK

\* An acknowledgment arrives, of any age.
LEMMA DeliverAckStep == ASSUME Inv, DeliverAck PROVE StepOK
<1>1. PICK a \in acks : AckReceived(a)
  BY DEF DeliverAck
<1>2. Sided(sender, receiver)
  BY JointSides DEF Inv
<1>3. AckOK(a, Progress(receiver))
  BY DEF Inv, Joint
<1>4. PICK n \in 1 .. Progress(receiver) : a.ackno = wrap(n, ISN)
  BY <1>3 DEF AckOK
<1> DEFINE w == a.win % WindowRange
           t == fill_window(ack_received(sender, wrap(n, ISN), w))
<1>5. SenderStep(t) /\ receiver' = receiver /\ acks' = acks
  BY <1>1, <1>4 DEF AckReceived
<1>6. /\ Progress(receiver) \in Nat /\ n \in Nat /\ n <= Progress(receiver)
      /\ n <= sender.next_seqno /\ sender.next_seqno <= HalfRange
  BY <1>2 DEF Sided, Told
<1>7. w \in Nat
  BY <1>3, Constants, TransferAssumption DEF AckOK
<1> HIDE DEF w
<1>8. Acks(sender, t, n, w, SendCapacity, ISN)
  BY <1>6, <1>7, Constants, AckCalls DEF Inv, Joint, WireOK
<1> HIDE DEF t
<1>9. /\ Calls(sender, t, SendCapacity, ISN)
      /\ sender.ack_s <= t.ack_s /\ t.ack_s \in {sender.ack_s, n}
      /\ t.stream.write_count = sender.stream.write_count
      /\ t.stream.end_flag = sender.stream.end_flag
  BY <1>8 DEF Acks
<1>10. t.ack_s <= Progress(receiver) /\ t.stream.write_count <= StreamLen
  BY <1>6, <1>9 DEF Inv, Joint
<1>11. Inv' /\ Grows(sender, sender') /\ Drains(t, sender', SendCapacity, ISN)
  BY <1>5, <1>9, <1>10, SenderMoves
<1>12. /\ sender'.stream.write_count = sender.stream.write_count
       /\ sender'.stream.end_flag = sender.stream.end_flag
       /\ sender.ack_s <= sender'.ack_s
  BY <1>9, <1>11 DEF Drains
<1>13. Sided(sender', receiver)
  BY <1>5, <1>11, JointSides DEF Inv
<1>14. Confirmed => Confirmed'
  <2>1. ASSUME sender.fin_send, sender.ack_s = sender.next_seqno
        PROVE  sender'.fin_send /\ sender'.ack_s = sender'.next_seqno
    <3>1. /\ sender'.next_seqno \in Nat /\ sender'.ack_s \in Nat
          /\ sender'.ack_s <= sender'.next_seqno
      BY <1>13 DEF Sided
    <3> QED
      BY <1>2, <1>11, <1>12, <2>1, <3>1 DEF Grows
  <2> QED
    BY <1>11, <2>1, ConfirmedIs, ConfirmedNext
<1>15. Confirmed' => stream_out(receiver).end_flag
  BY <1>11, <1>13, ConfirmedNext DEF Sided
<1>16. CASE Confirmed' = Confirmed
  <2>1. UNCHANGED Pipe!vars
    BY <1>5, <1>12, <1>16 DEF Pipe!vars, Output, Ended, input_ended
  <2> QED
    BY <1>11, <2>1 DEF StepOK
<1>17. CASE Confirmed' # Confirmed
  <2>1. Confirmed' = TRUE
    BY <1>11, <1>14, <1>17, ConfirmedIs, ConfirmedNext
  <2>2. Pipe!Confirm
    BY <1>5, <1>12, <1>15, <2>1 DEF Pipe!Confirm, Output, Ended, input_ended
  <2> QED
    BY <1>11, <2>2 DEF StepOK, Pipe!Next
<1> QED
  BY <1>16, <1>17

\* The receiver went from r to y while the sender stood still: what was
\* acknowledged stays acknowledged.
LEMMA ProgressGrows ==
  ASSUME NEW sent, NEW fin, NEW r, Told(r, sent, fin), NEW y, Told(y, sent, fin),
         stream_out(y).write_count >= stream_out(r).write_count,
         stream_out(r).end_flag => stream_out(y).end_flag,
         ackno(r) # NoAckno => ackno(y) # NoAckno
  PROVE  Progress(r) <= Progress(y)
<1> DEFINE a == Flag(ackno(r) # NoAckno)
           b == Flag(ackno(y) # NoAckno)
           c == Flag(stream_out(r).end_flag)
           d == Flag(stream_out(y).end_flag)
           w == stream_out(r).write_count
           v == stream_out(y).write_count
<1>1. a \in {0, 1} /\ b \in {0, 1} /\ c \in {0, 1} /\ d \in {0, 1} /\ a <= b /\ c <= d
  BY DEF Flag
<1>2. w \in Nat /\ v \in Nat /\ w <= v /\ Progress(r) = a + w + c /\ Progress(y) = b + v + d
  BY DEF Told, Progress
<1> HIDE DEF a, b, c, d, w, v
<1> QED
  BY <1>1, <1>2

\* A step of the receiver keeps it all.
LEMMA ReceiverMoves ==
  ASSUME Inv, NEW y,
         Serves(y, ISN, RecvCapacity, sender.stream.read_count, sender.fin_send),
         stream_out(y).write_count >= stream_out(receiver).write_count,
         stream_out(receiver).end_flag => stream_out(y).end_flag,
         ackno(receiver) # NoAckno => ackno(y) # NoAckno,
         ackno(y) # NoAckno => sender.next_seqno > 0,
         NEW as, \A a \in as : a \in acks \/ AckOK(a, Progress(y))
  PROVE  Joint(sender, y, segments, as) /\ Sided(sender, y) /\ Sided(sender, receiver)
<1>1. Sided(sender, receiver)
  BY JointSides DEF Inv
<1>2. Told(receiver, sender.stream.read_count, sender.fin_send)
  BY <1>1 DEF Sided
<1>3. Told(y, sender.stream.read_count, sender.fin_send)
  BY <1>1, ReceiverTold DEF Sided
<1> DEFINE p == Progress(receiver)
           q == Progress(y)
<1>4. p \in Nat /\ q \in Nat /\ p <= q
  <2>1. p \in Nat /\ q \in Nat
    BY <1>2, <1>3 DEF Told
  <2> QED
    BY <1>2, <1>3, <2>1, ProgressGrows
<1>5. sender.ack_s <= q
  BY <1>1, <1>4 DEF Inv, Joint, Sided
<1>6. ASSUME NEW a \in acks PROVE AckOK(a, q)
  <2>1. AckOK(a, p)
    BY DEF Inv, Joint
  <2> HIDE DEF p, q
  <2>2. 1 .. p \subseteq 1 .. q
    BY <1>4
  <2> QED
    BY <2>1, <2>2 DEF AckOK
<1>7. Joint(sender, y, segments, as)
  BY <1>5, <1>6 DEF Inv, Joint
<1> QED
  BY <1>1, <1>7, JointSides

\* A segment arrives, of any age, and is answered.
LEMMA DeliverStep == ASSUME Inv, Deliver PROVE StepOK
<1>1. PICK seg \in segments : SegmentArrives(seg)
  BY DEF Deliver
<1> DEFINE y == segment_received(receiver, seg)
           sent == sender.stream.read_count
           fin == sender.fin_send
           answer == [ackno |-> ackno(y), win |-> window_size(y)]
<1>2. /\ receiver' = y /\ sender' = sender /\ segments' = segments
      /\ acks' \subseteq acks \cup (IF ackno(y) = NoAckno THEN {} ELSE {answer})
  BY <1>1 DEF SegmentArrives, Survivors
<1>3. Sided(sender, receiver) /\ SentBy(seg, sender, ISN)
  BY JointSides DEF Inv, Joint, WireOK
<1>4. sent \in Nat /\ sent < HalfRange /\ fin \in BOOLEAN
  BY <1>3 DEF Sided
<1>5. Served(receiver, y, ISN, RecvCapacity, sent, fin)
  BY <1>3, <1>4, ArrivalServed DEF Inv, Joint
<1> HIDE DEF y
<1>6. /\ Serves(y, ISN, RecvCapacity, sent, fin)
      /\ stream_out(y).read_count = stream_out(receiver).read_count
      /\ stream_out(y).write_count >= stream_out(receiver).write_count
      /\ stream_out(receiver).end_flag => stream_out(y).end_flag
      /\ ackno(receiver) # NoAckno => ackno(y) # NoAckno
  BY <1>5 DEF Served, ackno
<1>7. sender.next_seqno > 0
  BY <1>3 DEF SentBy, Carries
<1>8. Told(y, sent, fin)
  BY <1>4, <1>6, ReceiverTold
<1>9. ASSUME NEW a \in acks' PROVE a \in acks \/ AckOK(a, Progress(y))
  <2>1. a \in acks \/ (ackno(y) # NoAckno /\ a = answer)
    BY <1>2
  <2>2. ASSUME ackno(y) # NoAckno, a = answer PROVE AckOK(a, Progress(y))
    <3>1. /\ Progress(y) \in 1 .. Progress(y) /\ ackno(y) = wrap(Progress(y), ISN)
          /\ window_size(y) \in 0 .. RecvCapacity
      BY <1>8, <2>2 DEF Told
    <3> QED
      BY <2>2, <3>1 DEF AckOK
  <2> QED
    BY <2>1, <2>2
<1>10. Joint(sender, y, segments, acks') /\ Sided(sender, y)
  BY <1>6, <1>7, <1>9, ReceiverMoves
<1>11. Inv'
  BY <1>2, <1>10 DEF Inv
<1>12. Confirmed' = Confirmed
  BY <1>2 DEF Confirmed
<1> DEFINE w == stream_out(receiver).write_count
           v == stream_out(y).write_count
<1>13. /\ w \in Nat /\ v \in Nat /\ w <= v /\ v <= sent
       /\ stream_out(receiver).end_flag \in BOOLEAN /\ stream_out(y).end_flag \in BOOLEAN
       /\ stream_out(receiver).end_flag => w = sent
       /\ stream_out(y).end_flag => fin /\ v = sent
  BY <1>3, <1>6, <1>8 DEF Sided, Told
<1>14. CASE stream_out(receiver).end_flag
  <2>1. v = w /\ stream_out(y).end_flag = stream_out(receiver).end_flag
    BY <1>4, <1>6, <1>13, <1>14
  <2>2. UNCHANGED Pipe!vars
    BY <1>2, <1>6, <1>12, <2>1 DEF Pipe!vars, Output, Ended, input_ended
  <2> QED
    BY <1>11, <2>2 DEF StepOK
<1>15. CASE ~stream_out(receiver).end_flag
  <2>1. v \in w .. sender.stream.write_count
    BY <1>3, <1>4, <1>13 DEF Sided
  <2>2. ASSUME stream_out(y).end_flag
        PROVE  sender.stream.end_flag /\ v = sender.stream.write_count
    BY <1>3, <1>13, <2>2 DEF Sided
  <2>3. stream_out(y).end_flag
          \in {FALSE, sender.stream.end_flag /\ v = sender.stream.write_count}
    BY <1>13, <2>2, Zenon
  <2>4. Pipe!Arrive
    BY <1>2, <1>6, <1>12, <1>15, <2>1, <2>3 DEF Pipe!Arrive, Output, Ended, input_ended
  <2> QED
    BY <1>11, <2>4 DEF StepOK, Pipe!Next
<1> QED
  BY <1>14, <1>15

\* The application reads.
LEMMA ReadStep == ASSUME Inv, Read PROVE StepOK
<1>1. PICK n \in 1 .. RecvCapacity : ReadBytes(n)
  BY DEF Read
<1> DEFINE y == [receiver EXCEPT !.reassembler.output = after_read(@, n)]
           sent == sender.stream.read_count
           fin == sender.fin_send
<1>2. /\ n <= buffer_size(stream_out(receiver)) /\ receiver' = y /\ sender' = sender
      /\ segments' = segments /\ acks' = acks
  BY <1>1 DEF ReadBytes
<1>3. Sided(sender, receiver) /\ n \in Nat /\ n > 0
  BY JointSides, Constants DEF Inv
<1>4. sent \in Nat /\ fin \in BOOLEAN
  BY <1>3 DEF Sided
<1>5. ServedRead(receiver, y, n, ISN, RecvCapacity, sent, fin)
  BY <1>2, <1>3, <1>4, ReadingServed DEF Inv, Joint
<1> HIDE DEF y
<1>6. /\ Serves(y, ISN, RecvCapacity, sent, fin)
      /\ stream_out(y).read_count = stream_out(receiver).read_count + n
      /\ stream_out(y).write_count = stream_out(receiver).write_count
      /\ stream_out(y).end_flag = stream_out(receiver).end_flag
      /\ ackno(y) = ackno(receiver)
  BY <1>5 DEF ServedRead, ackno
<1>7. /\ stream_out(y).write_count >= stream_out(receiver).write_count
      /\ ackno(y) # NoAckno => sender.next_seqno > 0
  BY <1>3, <1>6 DEF Sided, Told, Inv, Joint
<1>8. Joint(sender, y, segments, acks) /\ Sided(sender, y)
  BY <1>6, <1>7, ReceiverMoves
<1>9. Inv'
  BY <1>2, <1>8 DEF Inv
<1>10. Confirmed' = Confirmed
  BY <1>2 DEF Confirmed
<1>11. stream_out(y).read_count
         \in stream_out(receiver).read_count .. stream_out(receiver).write_count
  <2>1. /\ stream_out(receiver).read_count \in Nat
        /\ stream_out(y).read_count <= stream_out(y).write_count
        /\ stream_out(y).write_count \in Nat
    BY <1>3, <1>8 DEF Sided, Told
  <2> QED
    BY <1>3, <1>6, <2>1
<1>12. Pipe!ReadBytes
  BY <1>2, <1>6, <1>10, <1>11 DEF Pipe!ReadBytes, Output, Ended, input_ended
<1> QED
  BY <1>9, <1>12 DEF StepOK, Pipe!Next

\* Every step, also the one that changes nothing.
LEMMA NextStep == Inv /\ [Next]_vars => StepOK
<1>1. ASSUME Inv, UNCHANGED vars PROVE StepOK
  <2>1. sender' = sender /\ receiver' = receiver /\ segments' = segments /\ acks' = acks
    BY <1>1 DEF vars
  <2>2. Inv'
    BY <1>1, <2>1 DEF Inv
  <2>3. UNCHANGED Pipe!vars
    BY <2>1 DEF Pipe!vars, Output, Ended, Confirmed
  <2> QED
    BY <2>2, <2>3 DEF StepOK
<1> QED
  BY <1>1, WriteStep, CloseStep, TimeoutStep, DeliverStep, DeliverAckStep, ReadStep DEF Next

\* A connection opens: SYN is on the wire, nothing else has happened.
LEMMA InitStep == Init => Inv /\ Pipe!Init
<1> SUFFICES ASSUME Init PROVE Inv /\ Pipe!Init
  OBVIOUS
<1>1. Opens(sender, segments, SendCapacity, ISN)
  BY Constants, OpenWire DEF Init
<1>2. /\ WireOK(sender, segments, SendCapacity, ISN)
      /\ sender.ack_s = 0 /\ sender.stream.write_count = 0
      /\ sender.stream.end_flag = FALSE
  BY <1>1 DEF Opens
<1>3. Counts(sender)
  BY <1>2, SenderCounts DEF WireOK
<1> DEFINE sent == sender.stream.read_count
           fin == sender.fin_send
<1>4. sent = 0 /\ fin \in BOOLEAN /\ ~fin
  BY <1>2, <1>3 DEF Counts
<1>5. Serves(receiver, ISN, RecvCapacity, sent, fin)
  BY Constants, NewServes DEF Init
<1>6. Told(receiver, sent, fin)
  BY <1>4, <1>5, ReceiverTold
<1>7. ackno(receiver) = NoAckno
  BY DEF Init, NewReceiver, ackno
<1>8. Inv
  BY <1>2, <1>5, <1>6, <1>7, Constants DEF Inv, Joint, Told, Init
<1>9. /\ stream_out(receiver).write_count = 0 /\ stream_out(receiver).read_count = 0
      /\ stream_out(receiver).end_flag = FALSE
  BY <1>4, <1>6 DEF Told
<1>10. Confirmed = FALSE
  BY <1>4, <1>8, ConfirmedIs
<1> QED
  BY <1>2, <1>8, <1>9, <1>10 DEF Pipe!Init, Output, Ended, input_ended

\* The invariant always holds.
LEMMA AlwaysInv == Spec => []Inv
<1>1. Init => Inv
  BY InitStep
<1>2. Inv /\ [Next]_vars => Inv'
  BY NextStep DEF StepOK
<1> QED
  BY <1>1, <1>2, PTL DEF Spec

-----------------------------------------------------------------------------
(* What a connection promises. *)

\* The bytes given to the reading application are the ones the other one wrote, in
\* their order, and the sender forgets nothing that the receiver does not have, over a
\* network that loses, repeats, delays and reorders.
THEOREM TransferCorrect == Spec => [](EndToEnd /\ AckedIsDelivered)
<1>1. Inv => EndToEnd /\ AckedIsDelivered
  <2> SUFFICES ASSUME Inv PROVE EndToEnd /\ AckedIsDelivered
    OBVIOUS
  <2>1. Sided(sender, receiver) /\ sender.ack_s <= Progress(receiver)
    BY JointSides DEF Inv, Joint
  <2> QED
    BY <2>1 DEF Sided, Told, EndToEnd, AckedIsDelivered, Progress, Output, Ended, input_ended
<1> QED
  BY <1>1, AlwaysInv, PTL

\* A sender, a receiver and such a network implement a pipe of bytes.
THEOREM TransferIsPipe == Spec => ImplementsPipe
<1>1. Init => Pipe!Init
  BY InitStep
<1>2. Inv /\ [Next]_vars => [Pipe!Next]_(Pipe!vars)
  BY NextStep DEF StepOK
<1> QED
  BY <1>1, <1>2, AlwaysInv, PTL DEF Spec, ImplementsPipe, Pipe!Spec
=============================================================================
