--------------------------- MODULE SenderTheorems ---------------------------
(***************************************************************************)
(* A TCPSender as a value: what is true of it between two calls            *)
(* (SenderOK), that every method keeps it so, and what the calls put on    *)
(* the wire.  The proofs about the sender by itself (TCPSender_proofs) and *)
(* about a connection (Transfer_proofs) rest on these lemmas.              *)
(***************************************************************************)
EXTENDS TCPSenderOps, TCPState, DataTheorems

-----------------------------------------------------------------------------
(* The invariant. *)

\* A segment as the sender builds it.
SegmentType ==
  [syn : BOOLEAN, fin : BOOLEAN, seqno : WrappingInt32, payload : Seq(Nat)]

\* segments_noack: a map from positions to segments.
NoackType == UNION {[D -> SegmentType] : D \in SUBSET Nat}

SenderType ==
  [isn : WrappingInt32, ack_s : Nat, segments_out : Seq(SegmentType),
   segments_noack : NoackType, rto_base : 0 .. UIntRange - 1,
   stream : ByteStreamType(Nat), next_seqno : Nat, window : Nat \ {0},
   window_zero : BOOLEAN, fin_send : BOOLEAN, start : BOOLEAN,
   retransnum : Nat, RTO : 0 .. UIntRange - 1]

\* The position of the first number of the segment kept under e.
FirstIn(m, e) == e - length_in_sequence_space(m[e])

\* The segments of the map m cover the numbers from ack to next - 1, without
\* overlap; the first of them may begin below ack.
Covers(m, ack, next) ==
  /\ \A e \in DOMAIN m : ack < e /\ e <= next /\ FirstIn(m, e) \in Nat
  /\ \A q \in ack .. next - 1 : \E e \in DOMAIN m : FirstIn(m, e) <= q /\ q < e
  /\ \A d, e \in DOMAIN m : d < e => d <= FirstIn(m, e)

\* The segment seg begins at the position `first` and holds what belongs there.
Holds(seg, first, isn) ==
  /\ seg.seqno = wrap(first, isn)
  /\ seg.syn = (first = 0)
  /\ seg.payload = Bytes(first + Flag(seg.syn) - 1, Len(seg.payload))
  /\ Len(seg.payload) <= MAX_PAYLOAD_SIZE

\* What is true of a sender between two calls, apart from the timer.
SenderCore(s, capacity, isn) ==
  /\ s \in SenderType
  /\ s.isn = isn
  /\ StreamOK(s.stream, capacity)
  /\ s.stream.error = FALSE
  /\ s.ack_s <= s.next_seqno
  /\ Covers(s.segments_noack, s.ack_s, s.next_seqno)
  /\ \A e \in DOMAIN s.segments_noack :
       /\ Holds(s.segments_noack[e], FirstIn(s.segments_noack, e), isn)
       /\ s.segments_noack[e].fin => e = s.next_seqno /\ s.fin_send
       /\ e <= 1 + s.stream.read_count + Flag(s.segments_noack[e].fin)
  /\ s.next_seqno = Flag(s.next_seqno > 0) + s.stream.read_count + Flag(s.fin_send)
  /\ s.fin_send => eof(s.stream)

\* What is true of a sender between two calls.
SenderOK(s, capacity, isn) ==
  /\ SenderCore(s, capacity, isn)
  /\ s.start <=> s.ack_s < s.next_seqno
  /\ ~s.start => s.RTO = initial_retransmission_timeout

\* The types of a sender's fields, one by one.
LEMMA SenderFields ==
  ASSUME NEW s \in SenderType
  PROVE  /\ s.isn \in WrappingInt32 /\ s.ack_s \in Nat
         /\ s.segments_out \in Seq(SegmentType)
         /\ s.rto_base \in 0 .. UIntRange - 1
         /\ s.stream \in ByteStreamType(Nat) /\ s.next_seqno \in Nat
         /\ s.window \in Nat /\ s.window # 0
         /\ s.window_zero \in BOOLEAN /\ s.fin_send \in BOOLEAN /\ s.start \in BOOLEAN
         /\ s.retransnum \in Nat /\ s.RTO \in 0 .. UIntRange - 1
  BY DEF SenderType

\* What is most often used of the invariant.
LEMMA OKFields ==
  ASSUME NEW capacity, NEW isn, NEW s, SenderOK(s, capacity, isn)
  PROVE  /\ s \in SenderType /\ s.isn = isn
         /\ s.ack_s \in Nat /\ s.next_seqno \in Nat /\ s.ack_s <= s.next_seqno
         /\ s.retransnum \in Nat /\ s.fin_send \in BOOLEAN
         /\ StreamOK(s.stream, capacity)
<1>1. s \in SenderType
  BY DEF SenderOK, SenderCore
<1>2. /\ s.isn = isn /\ s.ack_s <= s.next_seqno
      /\ StreamOK(s.stream, capacity)
  BY DEF SenderOK, SenderCore
<1> QED
  BY <1>1, <1>2, SenderFields

\* The map of a sender is a function from positions to segments.
LEMMA NoackFacts ==
  ASSUME NEW s \in SenderType
  PROVE  /\ s.segments_noack \in NoackType
         /\ DOMAIN s.segments_noack \subseteq Nat
         /\ \A e \in DOMAIN s.segments_noack : s.segments_noack[e] \in SegmentType
<1>1. s.segments_noack \in NoackType
  BY DEF SenderType
<1>2. PICK D \in SUBSET Nat : s.segments_noack \in [D -> SegmentType]
  BY <1>1 DEF NoackType
<1> QED
  BY <1>1, <1>2

\* A function from positions to segments is a map.
LEMMA IsNoack ==
  ASSUME NEW D \in SUBSET Nat, NEW m \in [D -> SegmentType]
  PROVE  m \in NoackType
  BY DEF NoackType

\* How many numbers a segment takes up.
LEMMA SegmentLength ==
  ASSUME NEW seg \in SegmentType
  PROVE  /\ length_in_sequence_space(seg) \in Nat
         /\ length_in_sequence_space(seg)
              = Len(seg.payload) + Flag(seg.syn) + Flag(seg.fin)
         /\ Len(seg.payload) \in Nat
         /\ Flag(seg.syn) \in {0, 1} /\ Flag(seg.fin) \in {0, 1}
<1>1. Len(seg.payload) \in Nat
  BY LenProperties DEF SegmentType
<1>2. Flag(seg.syn) \in {0, 1} /\ Flag(seg.fin) \in {0, 1}
  BY DEF Flag
<1>3. length_in_sequence_space(seg) = Len(seg.payload) + Flag(seg.syn) + Flag(seg.fin)
  BY DEF length_in_sequence_space
<1> QED
  BY <1>1, <1>2, <1>3

\* A map with one more segment, behind all the others.
LEMMA CoversMore ==
  ASSUME NEW m \in NoackType, NEW ack \in Nat, NEW next \in Nat,
         ack <= next, Covers(m, ack, next), NEW seg \in SegmentType,
         length_in_sequence_space(seg) > 0,
         NEW next2, next2 = next + length_in_sequence_space(seg),
         NEW m2, m2 = [k \in DOMAIN m \cup {next2} |-> IF k = next2 THEN seg ELSE m[k]]
  PROVE  /\ m2 \in NoackType /\ Covers(m2, ack, next2)
         /\ next2 \notin DOMAIN m
         /\ DOMAIN m2 = DOMAIN m \cup {next2}
         /\ m2[next2] = seg /\ FirstIn(m2, next2) = next
         /\ \A e \in DOMAIN m : m2[e] = m[e] /\ FirstIn(m2, e) = FirstIn(m, e)
<1>1. PICK D \in SUBSET Nat : m \in [D -> SegmentType]
  BY DEF NoackType
<1>2. length_in_sequence_space(seg) \in Nat /\ next2 \in Nat /\ next < next2
  BY SegmentLength
<1>3. m2 \in [D \cup {next2} -> SegmentType] /\ D \cup {next2} \in SUBSET Nat
  BY <1>1, <1>2
<1>4. m2 \in NoackType
  BY <1>3, IsNoack
<1>5. \A e \in DOMAIN m : e \in Nat /\ e # next2
  BY <1>1, <1>2 DEF Covers
<1>6. DOMAIN m2 = DOMAIN m \cup {next2} /\ m2[next2] = seg
      /\ \A e \in DOMAIN m : m2[e] = m[e]
  BY <1>5
<1>7. FirstIn(m2, next2) = next /\ \A e \in DOMAIN m : FirstIn(m2, e) = FirstIn(m, e)
  BY <1>2, <1>6 DEF FirstIn
<1>8. Covers(m2, ack, next2)
  <2>1. ASSUME NEW e \in DOMAIN m2
        PROVE  ack < e /\ e <= next2 /\ FirstIn(m2, e) \in Nat
    BY <1>2, <1>5, <1>6, <1>7 DEF Covers
  <2>2. ASSUME NEW q \in ack .. next2 - 1
        PROVE  \E e \in DOMAIN m2 : FirstIn(m2, e) <= q /\ q < e
    <3>1. CASE q < next
      <4>1. PICK e \in DOMAIN m : FirstIn(m, e) <= q /\ q < e
        BY <1>2, <3>1 DEF Covers
      <4> QED
        BY <1>6, <1>7, <4>1
    <3>2. CASE ~(q < next)
      BY <1>2, <1>6, <1>7, <3>2
    <3> QED
      BY <3>1, <3>2
  <2>3. ASSUME NEW d \in DOMAIN m2, NEW e \in DOMAIN m2, d < e
        PROVE  d <= FirstIn(m2, e)
    <3>1. CASE e = next2
      <4>1. d \in DOMAIN m
        BY <1>2, <1>6, <2>3, <3>1
      <4> QED
        BY <1>7, <3>1, <4>1 DEF Covers
    <3>2. CASE e # next2
      <4>1. e \in DOMAIN m /\ e <= next
        BY <1>6, <3>2 DEF Covers
      <4>2. d \in DOMAIN m
        BY <1>2, <1>5, <1>6, <2>3, <4>1
      <4> QED
        BY <1>7, <2>3, <4>1, <4>2 DEF Covers
    <3> QED
      BY <3>1, <3>2
  <2> QED
    BY <2>1, <2>2, <2>3 DEF Covers
<1> QED
  BY <1>4, <1>5, <1>6, <1>7, <1>8

-----------------------------------------------------------------------------
(* fill_window *)

\* What filling the window up to `end` may have done to s so far.
Filled(s, t, capacity, isn, end) ==
  /\ SenderOK(t, capacity, isn)
  /\ t.ack_s = s.ack_s /\ t.window = s.window /\ t.window_zero = s.window_zero
  /\ t.retransnum = s.retransnum /\ t.RTO = s.RTO /\ t.rto_base = s.rto_base
  /\ t.stream.write_count = s.stream.write_count
  /\ t.stream.end_flag = s.stream.end_flag
  /\ s.next_seqno <= t.next_seqno
  /\ t.next_seqno # s.next_seqno =>
       t.next_seqno <= end + Flag(s.next_seqno = 0) /\ ~s.fin_send
  /\ s.fin_send => t.fin_send
  /\ \A i \in 1 .. Len(t.segments_out) :
       \/ \E j \in 1 .. Len(s.segments_out) : t.segments_out[i] = s.segments_out[j]
       \/ \E e \in DOMAIN t.segments_noack : t.segments_out[i] = t.segments_noack[e]
  /\ \A e \in DOMAIN s.segments_noack :
       e \in DOMAIN t.segments_noack /\ t.segments_noack[e] = s.segments_noack[e]

\* The segment a round of the loop builds: it begins at next_seqno, takes the
\* next bytes of the stream, and is empty once FIN has been sent.
LEMMA NextSegmentFacts ==
  ASSUME NEW capacity \in Nat, NEW isn, NEW s, SenderOK(s, capacity, isn),
         NEW end \in Nat, s.next_seqno < end,
         NEW seg, seg = NextSegment(s, end)
  PROVE  /\ seg \in SegmentType
         /\ Holds(seg, s.next_seqno, isn)
         /\ s.next_seqno + Flag(seg.syn) = 1 + s.stream.read_count + Flag(s.fin_send)
         /\ Len(seg.payload) <= s.stream.write_count - s.stream.read_count
         /\ seg.fin => ~s.fin_send /\ eof(after_read(s.stream, Len(seg.payload)))
         /\ s.next_seqno + length_in_sequence_space(seg) <= end + Flag(s.next_seqno = 0)
         /\ s.fin_send => length_in_sequence_space(seg) = 0
<1> DEFINE room == PayloadRoom(s, end)
           r == s.stream.read_count
           w == s.stream.write_count
           k == Min2(room, w - r)
<1>1. /\ s \in SenderType /\ s.isn = isn /\ StreamOK(s.stream, capacity)
      /\ s.next_seqno = Flag(s.next_seqno > 0) + r + Flag(s.fin_send)
      /\ s.fin_send => eof(s.stream)
  BY DEF SenderOK, SenderCore
<1>2. /\ s.next_seqno \in Nat /\ s.fin_send \in BOOLEAN /\ isn \in WrappingInt32
      /\ s.next_seqno \in Int /\ isn \in Int
  BY <1>1, SenderFields, ModulusType DEF WrappingInt32
<1>3. /\ r \in Nat /\ w \in Nat /\ w - r \in Nat
      /\ buffer_empty(s.stream) <=> w = r
  BY <1>1, StreamFacts
<1> HIDE DEF r, w
<1>4. room \in Nat /\ room <= MAX_PAYLOAD_SIZE /\ room <= end - s.next_seqno
  BY <1>2, SenderConstants DEF PayloadRoom, Min2
<1> HIDE DEF room
<1>5. /\ k \in 0 .. w - r /\ k <= room
      /\ read_output(s.stream, room) = Bytes(r, k)
  <2> DEFINE st == s.stream
             t == after_read(st, room)
  <2>1. k = Min2(room, st.write_count - st.read_count) /\ t = after_read(st, room)
    BY DEF r, w
  <2>2. StreamOK(st, capacity) /\ room \in Nat
    BY <1>1, <1>4
  <2> HIDE DEF k, t, st
  <2>3. /\ k \in 0 .. st.write_count - st.read_count /\ k <= room
        /\ read_output(st, room) = Bytes(st.read_count, k)
    BY <2>1, <2>2, ReadKeepsStream
  <2> QED
    BY <2>3 DEF r, w, st
<1>6. after_read(s.stream, room) = after_read(s.stream, k)
  <2>1. buffer_size(s.stream) = w - r
    BY <1>1, StreamFacts DEF r, w
  <2>2. Min2(k, w - r) = k
    BY <1>3, <1>5 DEF Min2
  <2> QED
    BY <2>1, <2>2 DEF after_read
<1> HIDE DEF k
<1>7. k \in Nat /\ Bytes(r, k) \in Seq(Nat) /\ Len(Bytes(r, k)) = k
  <2>1. k \in Nat
    BY <1>3, <1>5
  <2> QED
    BY <1>3, <2>1, BytesFacts
<1> DEFINE syn == s.next_seqno = 0
           fin == /\ FinDue(s, after_read(s.stream, k))
                  /\ s.next_seqno + k + Flag(syn) < end
<1>8. seg = [syn |-> syn, fin |-> fin, seqno |-> wrap(s.next_seqno, isn),
             payload |-> Bytes(r, k)]
  BY <1>1, <1>5, <1>6, <1>7 DEF NextSegment, Segment, room
<1>9. fin => ~s.fin_send /\ eof(after_read(s.stream, k))
  BY DEF FinDue
<1>10. fin => s.next_seqno + k + Flag(syn) < end
  OBVIOUS
<1>11. fin \in BOOLEAN /\ syn \in BOOLEAN
  BY DEF FinDue, eof, buffer_empty
<1>12. syn <=> s.next_seqno = 0
  OBVIOUS
<1> HIDE DEF fin, syn
<1>13. wrap(s.next_seqno, isn) \in WrappingInt32
  BY <1>2, WrapFacts
<1>14. /\ seg.syn = syn /\ seg.fin = fin /\ seg.seqno = wrap(s.next_seqno, isn)
       /\ seg.payload = Bytes(r, k) /\ Len(seg.payload) = k
  BY <1>7, <1>8
<1>15. seg \in SegmentType
  BY <1>7, <1>8, <1>11, <1>13 DEF SegmentType
<1>16. s.next_seqno + Flag(syn) = 1 + r + Flag(s.fin_send)
  BY <1>1, <1>2, <1>3, <1>12 DEF Flag
<1>17. s.fin_send => k = 0 /\ ~syn /\ ~fin
  <2> SUFFICES ASSUME s.fin_send PROVE k = 0 /\ ~syn /\ ~fin
    OBVIOUS
  <2>1. w = r
    BY <1>1, <1>3 DEF eof
  <2>2. Flag(s.fin_send) = 1
    BY DEF Flag
  <2> QED
    BY <1>1, <1>2, <1>3, <1>5, <1>9, <1>12, <2>1, <2>2 DEF Flag
<1>18. Holds(seg, s.next_seqno, isn)
  <2>1. CASE k = 0
    <3>1. ASSUME NEW i \in Int PROVE Bytes(i, 0) = <<>>
      BY DEF Bytes
    <3>2. s.next_seqno + Flag(syn) - 1 \in Int
      BY <1>2 DEF Flag
    <3>3. seg.payload = Bytes(s.next_seqno + Flag(syn) - 1, 0)
      BY <1>3, <1>14, <2>1, <3>1, <3>2
    <3> QED
      BY <1>4, <1>5, <1>11, <1>12, <1>14, <2>1, <3>3, SenderConstants DEF Holds
  <2>2. CASE k # 0
    <3>1. Flag(s.fin_send) = 0
      BY <1>17, <2>2 DEF Flag
    <3>2. s.next_seqno + Flag(syn) - 1 = r
      <4>1. Flag(syn) \in Int
        BY DEF Flag
      <4> QED
        BY <1>2, <1>3, <1>16, <3>1, <4>1
    <3> QED
      BY <1>3, <1>4, <1>5, <1>11, <1>12, <1>14, <3>2, SenderConstants DEF Holds
  <2> QED
    BY <2>1, <2>2
<1>19. length_in_sequence_space(seg) = k + Flag(syn) + Flag(fin)
  BY <1>14, <1>15, SegmentLength
<1>20. s.next_seqno + length_in_sequence_space(seg) <= end + Flag(s.next_seqno = 0)
  BY <1>2, <1>3, <1>4, <1>5, <1>10, <1>11, <1>12, <1>19 DEF Flag
<1>21. s.fin_send => length_in_sequence_space(seg) = 0
  BY <1>17, <1>19 DEF Flag
<1> QED
  BY <1>3, <1>5, <1>9, <1>14, <1>15, <1>16, <1>18, <1>20, <1>21 DEF r, w

\* A queue with one more segment.
LEMMA AppendFacts ==
  ASSUME NEW S, NEW q \in Seq(S), NEW x \in S, NEW q2, q2 = Append(q, x)
  PROVE  /\ q2 \in Seq(S) /\ Len(q2) = Len(q) + 1 /\ Len(q) \in Nat
         /\ \A i \in 1 .. Len(q) : q2[i] = q[i]
         /\ q2[Len(q) + 1] = x
  BY AppendProperties, LenProperties

\* Sending the segment of one round.
LEMMA SendKeeps ==
  ASSUME NEW capacity \in Nat, NEW isn, NEW s, SenderOK(s, capacity, isn),
         NEW end \in Nat, s.next_seqno < end,
         NEW seg, seg = NextSegment(s, end), length_in_sequence_space(seg) > 0,
         NEW t, t = SendSegment(s, seg)
  PROVE  Filled(s, t, capacity, isn, end)
<1> DEFINE st == s.stream
           n == Len(seg.payload)
           st2 == after_read(st, n)
           next == s.next_seqno
           next2 == next + length_in_sequence_space(seg)
           m == s.segments_noack
           m2 == [k \in DOMAIN m \cup {next2} |-> IF k = next2 THEN seg ELSE m[k]]
           out == s.segments_out
           out2 == Append(out, seg)
           fin2 == s.fin_send \/ seg.fin
<1>1. /\ seg \in SegmentType /\ Holds(seg, next, isn)
      /\ next + Flag(seg.syn) = 1 + st.read_count + Flag(s.fin_send)
      /\ n <= st.write_count - st.read_count
      /\ seg.fin => eof(st2)
      /\ next2 <= end + Flag(next = 0)
      /\ ~s.fin_send
  BY NextSegmentFacts
<1>2. /\ s \in SenderType /\ s.isn = isn /\ StreamOK(st, capacity) /\ st.error = FALSE
      /\ s.ack_s <= next /\ Covers(m, s.ack_s, next)
      /\ next = Flag(next > 0) + st.read_count + Flag(s.fin_send)
  BY DEF SenderOK, SenderCore
<1>3. \A e \in DOMAIN m : /\ Holds(m[e], FirstIn(m, e), isn) /\ ~m[e].fin
                          /\ e <= 1 + st.read_count + Flag(m[e].fin)
  BY <1>1 DEF SenderOK, SenderCore
<1>4. /\ m \in NoackType /\ s.ack_s \in Nat /\ next \in Nat /\ out \in Seq(SegmentType)
      /\ s.fin_send \in BOOLEAN /\ s.ack_s <= s.next_seqno
  BY <1>2, SenderFields, NoackFacts
<1>5. /\ length_in_sequence_space(seg) \in Nat
      /\ length_in_sequence_space(seg) = n + Flag(seg.syn) + Flag(seg.fin)
      /\ n \in Nat /\ Flag(seg.syn) \in {0, 1} /\ Flag(seg.fin) \in {0, 1}
      /\ seg.fin \in BOOLEAN
  BY <1>1, SegmentLength DEF SegmentType
<1>6. next2 \in Nat /\ next < next2
  BY <1>4, <1>5
<1>7. t = [s EXCEPT !.stream = st2, !.fin_send = fin2, !.next_seqno = next2,
                    !.segments_out = out2, !.start = TRUE, !.segments_noack = m2]
  BY <1>2 DEF SendSegment, SenderType
<1>8a. next2 = next + length_in_sequence_space(seg)
  OBVIOUS
<1>8b. m2 = [k \in DOMAIN m \cup {next2} |-> IF k = next2 THEN seg ELSE m[k]]
  OBVIOUS
<1>8c. st2 = after_read(st, n)
  OBVIOUS
<1>8d. out2 = Append(out, seg)
  OBVIOUS
<1>8e. fin2 = (s.fin_send \/ seg.fin)
  OBVIOUS
<1>9. n <= st.write_count - st.read_count
  BY <1>1
<1>10. \A e \in DOMAIN m : ~m[e].fin
  BY <1>3
<1> HIDE DEF st, n, st2, next, next2, m, m2, out, out2, fin2
<1>11. /\ StreamOK(st2, capacity)
       /\ st2.read_count = st.read_count + n /\ st2.write_count = st.write_count
       /\ st2.end_flag = st.end_flag /\ st2.error = FALSE
  <2>1. StreamOK(st, capacity) /\ n \in Nat /\ st.error = FALSE
    BY <1>2, <1>5
  <2>2. /\ StreamOK(st2, capacity)
        /\ st2.read_count = st.read_count + n /\ st2.write_count = st.write_count
        /\ st2.end_flag = st.end_flag /\ st2.error = st.error
    BY <1>8c, <1>9, <2>1, ReadExactly
  <2> QED
    BY <2>1, <2>2
<1>12. /\ m2 \in NoackType /\ Covers(m2, s.ack_s, next2)
       /\ DOMAIN m2 = DOMAIN m \cup {next2}
       /\ m2[next2] = seg /\ FirstIn(m2, next2) = next
       /\ \A e \in DOMAIN m : m2[e] = m[e] /\ FirstIn(m2, e) = FirstIn(m, e)
  <2> DEFINE ack == s.ack_s
  <2>1. /\ ack \in Nat /\ next \in Nat /\ ack <= next /\ m \in NoackType
        /\ Covers(m, ack, next) /\ seg \in SegmentType
    BY <1>1, <1>2, <1>4
  <2> HIDE DEF ack
  <2>2. /\ m2 \in NoackType /\ Covers(m2, ack, next2)
        /\ DOMAIN m2 = DOMAIN m \cup {next2}
        /\ m2[next2] = seg /\ FirstIn(m2, next2) = next
        /\ \A e \in DOMAIN m : m2[e] = m[e] /\ FirstIn(m2, e) = FirstIn(m, e)
    BY <1>8a, <1>8b, <2>1, CoversMore
  <2> QED
    BY <2>2 DEF ack
<1>13. /\ out2 \in Seq(SegmentType) /\ Len(out2) = Len(out) + 1 /\ Len(out) \in Nat
       /\ \A i \in 1 .. Len(out) : out2[i] = out[i]
       /\ out2[Len(out) + 1] = seg
  BY <1>1, <1>4, <1>8d, AppendFacts
<1>14. fin2 = seg.fin
  BY <1>1, <1>5, <1>8e
<1>15. st2 \in ByteStreamType(Nat) /\ fin2 \in BOOLEAN
  BY <1>5, <1>11, <1>14 DEF StreamOK
<1>16. t \in SenderType
  BY <1>2, <1>6, <1>7, <1>12, <1>13, <1>15 DEF SenderType
<1>17. /\ t.stream = st2 /\ t.fin_send = fin2 /\ t.next_seqno = next2
       /\ t.segments_out = out2 /\ t.start = TRUE /\ t.segments_noack = m2
       /\ t.isn = s.isn /\ t.ack_s = s.ack_s /\ t.rto_base = s.rto_base
       /\ t.window = s.window /\ t.window_zero = s.window_zero
       /\ t.retransnum = s.retransnum /\ t.RTO = s.RTO
  BY <1>2, <1>7 DEF SenderType
<1>18. \A e \in DOMAIN m2 : /\ Holds(m2[e], FirstIn(m2, e), isn)
                            /\ m2[e].fin => e = next2 /\ fin2
  BY <1>1, <1>3, <1>10, <1>12, <1>14
<1>19. next2 = Flag(next2 > 0) + st2.read_count + Flag(fin2)
  <2>1. Flag(next2 > 0) = 1 /\ Flag(s.fin_send) = 0 /\ Flag(fin2) = Flag(seg.fin)
    BY <1>1, <1>4, <1>6, <1>14 DEF Flag
  <2>2. st.read_count \in Nat
    BY <1>2, StreamFacts
  <2>3. next + Flag(seg.syn) = 1 + st.read_count
    BY <1>1, <2>1, <2>2
  <2>4. next2 = next + (n + Flag(seg.syn) + Flag(seg.fin))
    BY <1>5, <1>8a
  <2>5. st2.read_count = st.read_count + n
    BY <1>11
  <2> DEFINE a == Flag(seg.syn)
             b == Flag(seg.fin)
             r == st.read_count
  <2>6. /\ a \in Nat /\ b \in Nat /\ r \in Nat /\ n \in Nat /\ next \in Nat
        /\ next + a = 1 + r /\ next2 = next + (n + a + b)
    BY <1>4, <1>5, <2>2, <2>3, <2>4
  <2> HIDE DEF a, b, r
  <2>7. next2 = 1 + (r + n) + b
    BY <2>6
  <2> QED
    BY <2>1, <2>5, <2>7 DEF b, r
<1>19a. \A e \in DOMAIN m2 : e <= 1 + st2.read_count + Flag(m2[e].fin)
  <2> SUFFICES ASSUME NEW e \in DOMAIN m2 PROVE e <= 1 + st2.read_count + Flag(m2[e].fin)
    OBVIOUS
  <2>1. st.read_count \in Nat
    BY <1>2, StreamFacts
  <2>2. CASE e = next2
    <3>1. Flag(next2 > 0) = 1
      BY <1>4, <1>6 DEF Flag
    <3>2. next2 = 1 + st2.read_count + Flag(seg.fin)
      BY <1>14, <1>19, <3>1
    <3>3. m2[e] = seg /\ Flag(seg.fin) \in Nat /\ st2.read_count \in Nat
      BY <1>5, <1>11, <1>12, <2>1, <2>2
    <3> QED
      BY <2>2, <3>2, <3>3
  <2>3. CASE e # next2
    <3>1. e \in DOMAIN m /\ m2[e] = m[e] /\ e \in Nat
      BY <1>4, <1>12, <2>3 DEF NoackType
    <3>2. e <= 1 + st.read_count + Flag(m2[e].fin) /\ Flag(m2[e].fin) \in Nat
      BY <1>3, <3>1 DEF Flag
    <3> QED
      BY <1>5, <1>11, <2>1, <3>1, <3>2
  <2> QED
    BY <2>2, <2>3
<1>20. SenderOK(t, capacity, isn)
  <2>1. t.ack_s < t.next_seqno
    BY <1>2, <1>4, <1>6, <1>17
  <2>2. t.ack_s \in Nat /\ t.next_seqno \in Nat
    BY <1>16, SenderFields
  <2>3. t.ack_s <= t.next_seqno /\ (t.start <=> t.ack_s < t.next_seqno)
    BY <1>17, <2>1, <2>2
  <2>4. Covers(t.segments_noack, t.ack_s, t.next_seqno)
    BY <1>12, <1>17
  <2>5. \A e \in DOMAIN t.segments_noack :
          /\ Holds(t.segments_noack[e], FirstIn(t.segments_noack, e), isn)
          /\ t.segments_noack[e].fin => e = t.next_seqno /\ t.fin_send
          /\ e <= 1 + t.stream.read_count + Flag(t.segments_noack[e].fin)
    BY <1>17, <1>18, <1>19a
  <2>6. t.fin_send => eof(t.stream)
    BY <1>1, <1>14, <1>17
  <2>7. t.next_seqno = Flag(t.next_seqno > 0) + t.stream.read_count + Flag(t.fin_send)
    BY <1>17, <1>19
  <2>8. t.isn = isn /\ StreamOK(t.stream, capacity) /\ t.stream.error = FALSE
    BY <1>2, <1>11, <1>17
  <2>9. ~t.start => t.RTO = initial_retransmission_timeout
    BY <1>17
  <2> QED
    BY <1>16, <2>3, <2>4, <2>5, <2>6, <2>7, <2>8, <2>9 DEF SenderOK, SenderCore
<1>21. \A i \in 1 .. Len(out2) :
         \/ \E j \in 1 .. Len(out) : out2[i] = out[j]
         \/ \E e \in DOMAIN m2 : out2[i] = m2[e]
  BY <1>12, <1>13
<1> QED
  BY <1>1, <1>4, <1>6, <1>11, <1>12, <1>17, <1>20, <1>21
  DEF Filled, st, next, out, m

\* Nothing sent yet.
LEMMA FilledNothing ==
  ASSUME NEW capacity \in Nat, NEW isn, NEW s, SenderOK(s, capacity, isn), NEW end \in Nat
  PROVE  Filled(s, s, capacity, isn, end)
<1>1. s.next_seqno \in Nat
  BY SenderFields DEF SenderOK, SenderCore
<1> QED
  BY <1>1 DEF Filled

\* One round after another.
LEMMA FilledFurther ==
  ASSUME NEW capacity \in Nat, NEW isn, NEW end \in Nat, NEW s, NEW x, NEW y,
         SenderOK(s, capacity, isn),
         Filled(s, x, capacity, isn, end), Filled(x, y, capacity, isn, end)
  PROVE  Filled(s, y, capacity, isn, end)
<1>1. /\ s.next_seqno \in Nat /\ x.next_seqno \in Nat /\ y.next_seqno \in Nat
      /\ SenderOK(y, capacity, isn)
  BY SenderFields DEF SenderOK, SenderCore, Filled
<1>2. /\ y.ack_s = s.ack_s /\ y.window = s.window /\ y.window_zero = s.window_zero
      /\ y.retransnum = s.retransnum /\ y.RTO = s.RTO /\ y.rto_base = s.rto_base
      /\ y.stream.write_count = s.stream.write_count
      /\ y.stream.end_flag = s.stream.end_flag
      /\ s.fin_send => y.fin_send
  BY DEF Filled
<1>3. s.next_seqno <= x.next_seqno /\ x.next_seqno <= y.next_seqno
  BY DEF Filled
<1>4. s.next_seqno <= y.next_seqno
  BY <1>1, <1>3
<1>5. ASSUME y.next_seqno # s.next_seqno
      PROVE  y.next_seqno <= end + Flag(s.next_seqno = 0) /\ ~s.fin_send
  <2>1. CASE y.next_seqno # x.next_seqno
    <3>1. y.next_seqno <= end + Flag(x.next_seqno = 0) /\ ~x.fin_send
      BY <2>1 DEF Filled
    <3>2. ~s.fin_send
      BY <3>1 DEF Filled
    <3>3. x.next_seqno = 0 => s.next_seqno = 0
      BY <1>1, <1>3
    <3> QED
      BY <1>1, <3>1, <3>2, <3>3 DEF Flag
  <2>2. CASE y.next_seqno = x.next_seqno
    <3>1. x.next_seqno # s.next_seqno
      BY <1>5, <2>2
    <3> QED
      BY <2>2, <3>1 DEF Filled
  <2> QED
    BY <2>1, <2>2
<1>6. ASSUME NEW i \in 1 .. Len(y.segments_out)
      PROVE  \/ \E j \in 1 .. Len(s.segments_out) : y.segments_out[i] = s.segments_out[j]
             \/ \E e \in DOMAIN y.segments_noack : y.segments_out[i] = y.segments_noack[e]
  BY DEF Filled
<1>7. \A e \in DOMAIN s.segments_noack :
        e \in DOMAIN y.segments_noack /\ y.segments_noack[e] = s.segments_noack[e]
  BY DEF Filled
<1> QED
  BY <1>1, <1>2, <1>4, <1>5, <1>6, <1>7 DEF Filled

\* One round of the loop.
LEMMA FillStepKeeps ==
  ASSUME NEW capacity \in Nat, NEW isn, NEW s, SenderOK(s, capacity, isn), NEW end \in Nat
  PROVE  Filled(s, FillStep(s, end), capacity, isn, end)
<1> DEFINE seg == NextSegment(s, end)
           t == FillStep(s, end)
<1>1. CASE s.next_seqno < end /\ length_in_sequence_space(seg) > 0
  <2>1. t = SendSegment(s, seg)
    BY <1>1 DEF FillStep
  <2>2. seg = NextSegment(s, end)
    OBVIOUS
  <2> HIDE DEF seg, t
  <2>3. Filled(s, t, capacity, isn, end)
    BY <1>1, <2>1, <2>2, SendKeeps
  <2> QED
    BY <2>3 DEF t
<1>2. CASE ~(s.next_seqno < end /\ length_in_sequence_space(seg) > 0)
  <2>1. t = s
    BY <1>2 DEF FillStep
  <2> QED
    BY <2>1, FilledNothing
<1> QED
  BY <1>1, <1>2

\* The recursive function in fill_window is the run of its loop.
LEMMA FillWindowIsLoop ==
  ASSUME NEW s, ~s.fin_send, NEW end, end = s.ack_s + s.window,
         NEW g, g = [k \in 0 .. end |-> IF k = 0 THEN s ELSE FillStep(g[k - 1], end)]
  PROVE  \E f : /\ f = [k \in 0 .. end |-> IF k = 0 THEN s ELSE FillStep(f[k - 1], end)]
                /\ fill_window(s) = f[end]
<1> DEFINE P(f) == f = [k \in 0 .. end |->
                         IF k = 0 THEN s
                         ELSE CHOOSE y \in {FillStep(x, end) : x \in {f[k - 1]}} : TRUE]
<1>1. fill_window(s) = (CHOOSE f : P(f))[end]
  BY DEF fill_window, Then
<1>2. ASSUME NEW f
      PROVE  P(f) <=> f = [k \in 0 .. end |-> IF k = 0 THEN s ELSE FillStep(f[k - 1], end)]
  <2>1. ASSUME NEW e
        PROVE  (CHOOSE y \in {FillStep(x, end) : x \in {e}} : TRUE) = FillStep(e, end)
    <3>1. {FillStep(x, end) : x \in {e}} = {FillStep(e, end)}
      OBVIOUS
    <3> QED
      BY <3>1
  <2> QED
    BY <2>1
<1>3. P(g)
  BY <1>2
<1>4. P(CHOOSE f : P(f))
  <2> HIDE DEF P
  <2> QED
    BY <1>3
<1> QED
  BY <1>1, <1>2, <1>4

\* fill_window keeps the invariant and sends within the window.
LEMMA FillWindowKeeps ==
  ASSUME NEW capacity \in Nat, NEW isn, NEW s, SenderOK(s, capacity, isn),
         NEW end, end = s.ack_s + s.window
  PROVE  Filled(s, fill_window(s), capacity, isn, end)
<1>1. end \in Nat
  BY SenderFields DEF SenderOK, SenderCore
<1>2. CASE s.fin_send
  <2>1. fill_window(s) = s
    BY <1>2 DEF fill_window
  <2> QED
    BY <1>1, <2>1, FilledNothing
<1>3. CASE ~s.fin_send
  <2> DEFINE X == {x \in SenderType : Filled(s, x, capacity, isn, end)}
             step == [k \in Nat |-> [x \in X |-> FillStep(x, end)]]
  <2>1. s \in X
    BY <1>1, FilledNothing, OKFields
  <2>2. ASSUME NEW x \in X PROVE FillStep(x, end) \in X
    <3>1. Filled(s, x, capacity, isn, end) /\ SenderOK(x, capacity, isn)
      BY DEF Filled
    <3>2. Filled(x, FillStep(x, end), capacity, isn, end)
      BY <1>1, <3>1, FillStepKeeps
    <3>3. Filled(s, FillStep(x, end), capacity, isn, end)
      BY <1>1, <3>1, <3>2, FilledFurther
    <3>4. FillStep(x, end) \in SenderType
      BY <3>2 DEF Filled, SenderOK, SenderCore
    <3> QED
      BY <3>3, <3>4
  <2>3. step \in [Nat -> [X -> X]]
    BY <2>2
  <2>4. \A k \in Nat, x \in X : step[k][x] = FillStep(x, end)
    OBVIOUS
  <2>5. \A x \in X : Filled(s, x, capacity, isn, end)
    OBVIOUS
  <2> HIDE DEF X, step
  <2>6. PICK g : IsLoop(g, end, X, s, step)
    BY <1>1, <2>1, <2>3, LoopExists
  <2>7. g = [k \in 0 .. end |-> IF k = 0 THEN s ELSE FillStep(g[k - 1], end)]
    <3>1. ASSUME NEW k \in 0 .. end, k # 0 PROVE step[k - 1][g[k - 1]] = FillStep(g[k - 1], end)
      <4>1. k - 1 \in Nat /\ k - 1 \in 0 .. end
        BY <1>1, <3>1
      <4> QED
        BY <2>4, <2>6, <4>1 DEF IsLoop
    <3> QED
      BY <2>6, <3>1 DEF IsLoop
  <2>8. PICK f : /\ f = [k \in 0 .. end |-> IF k = 0 THEN s ELSE FillStep(f[k - 1], end)]
                 /\ fill_window(s) = f[end]
    BY <1>3, <2>7, FillWindowIsLoop
  <2>9. f[0] \in X
    BY <1>1, <2>1, <2>8
  <2>10. ASSUME NEW k \in 1 .. end, f[k - 1] \in X PROVE f[k] \in X
    <3>1. k \in 0 .. end /\ k # 0
      BY <1>1
    <3>2. f[k] = FillStep(f[k - 1], end)
      BY <2>8, <3>1
    <3> QED
      BY <2>2, <2>10, <3>2
  <2>11. \A k \in 0 .. end : f[k] \in X
    <3>1. \A k \in 1 .. end : f[k - 1] \in X => f[k] \in X
      BY <2>10
    <3> QED
      BY <1>1, <2>9, <3>1, LoopKeeps, Zenon
  <2>12. f[end] \in X
    BY <1>1, <2>11
  <2> QED
    BY <2>5, <2>8, <2>12
<1> QED
  BY <1>2, <1>3

-----------------------------------------------------------------------------
(* ack_received *)

\* In the middle of ack_received: the timer may still run with nothing in flight.
AckTaken(s, capacity, isn) ==
  /\ SenderCore(s, capacity, isn)
  /\ s.ack_s < s.next_seqno => s.start
  /\ s.ack_s = s.next_seqno => s.RTO = initial_retransmission_timeout

\* What an acknowledgment leaves alone.
AckFrame(s, t) ==
  /\ t.stream = s.stream /\ t.next_seqno = s.next_seqno /\ t.fin_send = s.fin_send
  /\ t.segments_out = s.segments_out
  /\ s.ack_s <= t.ack_s
  /\ t.retransnum \in {0, s.retransnum}
  /\ t.retransnum = 0 \/ (t.RTO = s.RTO /\ t.rto_base = s.rto_base)
  /\ \A e \in DOMAIN t.segments_noack :
       e \in DOMAIN s.segments_noack /\ t.segments_noack[e] = s.segments_noack[e]

\* A map without the segments that are acknowledged as a whole.
LEMMA CoversFewer ==
  ASSUME NEW m \in NoackType, NEW ack \in Nat, NEW next \in Nat, Covers(m, ack, next),
         NEW ack2 \in Nat, ack <= ack2, ack2 <= next,
         NEW m2, m2 = Restrict(m, StillUnacked(m, ack2))
  PROVE  /\ m2 \in NoackType /\ Covers(m2, ack2, next)
         /\ \A e \in DOMAIN m2 : /\ e \in DOMAIN m /\ m2[e] = m[e]
                                 /\ FirstIn(m2, e) = FirstIn(m, e)
<1>1. PICK D \in SUBSET Nat : m \in [D -> SegmentType]
  BY DEF NoackType
<1> DEFINE K == StillUnacked(m, ack2)
<1>2. K = {k \in D : k > ack2}
  BY <1>1 DEF StillUnacked
<1>3. m2 = [x \in K |-> m[x]]
  BY DEF Restrict
<1> HIDE DEF K
<1>4. m2 \in [K -> SegmentType] /\ K \in SUBSET Nat
  BY <1>1, <1>2, <1>3
<1>5. m2 \in NoackType
  BY <1>4, IsNoack
<1>6. \A e \in DOMAIN m2 : e \in DOMAIN m /\ e > ack2 /\ m2[e] = m[e]
  BY <1>1, <1>2, <1>3
<1>7. \A e \in DOMAIN m2 : FirstIn(m2, e) = FirstIn(m, e)
  BY <1>6 DEF FirstIn
<1>8. ASSUME NEW q \in ack2 .. next - 1
      PROVE  \E e \in DOMAIN m2 : FirstIn(m2, e) <= q /\ q < e
  <2>1. q \in ack .. next - 1
    OBVIOUS
  <2>2. PICK e \in DOMAIN m : FirstIn(m, e) <= q /\ q < e
    BY <2>1 DEF Covers
  <2>3. e \in D /\ e > ack2
    BY <1>1, <2>2
  <2>4. e \in DOMAIN m2
    BY <1>2, <1>3, <2>3
  <2> QED
    BY <1>7, <2>2, <2>4
<1>9. \A e \in DOMAIN m2 : ack2 < e /\ e <= next /\ FirstIn(m2, e) \in Nat
  BY <1>6, <1>7 DEF Covers
<1>10. \A d, e \in DOMAIN m2 : d < e => d <= FirstIn(m2, e)
  BY <1>6, <1>7 DEF Covers
<1>11. Covers(m2, ack2, next)
  BY <1>8, <1>9, <1>10 DEF Covers
<1> QED
  BY <1>5, <1>6, <1>7, <1>11

\* The acknowledgment number itself.
LEMMA AcceptAckKeeps ==
  ASSUME NEW capacity \in Nat, NEW isn, NEW s, SenderOK(s, capacity, isn),
         NEW new_ack \in Nat, new_ack <= s.next_seqno,
         NEW t, t = AcceptAck(s, new_ack)
  PROVE  /\ AckTaken(t, capacity, isn) /\ AckFrame(s, t)
         /\ t.window = s.window /\ t.ack_s \in {s.ack_s, new_ack}
<1>1. /\ s \in SenderType /\ s.ack_s \in Nat /\ s.next_seqno \in Nat
      /\ s.ack_s <= s.next_seqno
  BY SenderFields DEF SenderOK, SenderCore
<1>2. CASE ~(new_ack > s.ack_s)
  <2>1. t = s
    BY <1>2 DEF AcceptAck, IsNewAck
  <2>2. s.ack_s = s.next_seqno => s.RTO = initial_retransmission_timeout
    BY <1>1 DEF SenderOK
  <2>3. AckTaken(s, capacity, isn)
    BY <2>2 DEF AckTaken, SenderOK
  <2> QED
    BY <1>1, <2>1, <2>3 DEF AckFrame
<1>3. CASE new_ack > s.ack_s
  <2> DEFINE m == s.segments_noack
             m2 == Restrict(m, StillUnacked(m, new_ack))
             next == s.next_seqno
             ack == s.ack_s
  <2>1. t = [s EXCEPT !.RTO = initial_retransmission_timeout, !.retransnum = 0,
                      !.ack_s = new_ack, !.segments_noack = m2]
    BY <1>1, <1>3 DEF AcceptAck, IsNewAck, SenderType
  <2>2. m \in NoackType /\ Covers(m, ack, next) /\ ack \in Nat /\ next \in Nat
    BY <1>1, NoackFacts DEF SenderOK, SenderCore
  <2>3. m2 = Restrict(m, StillUnacked(m, new_ack)) /\ ack <= new_ack /\ new_ack <= next
    BY <1>1, <1>3
  <2>4. \A e \in DOMAIN m : /\ Holds(m[e], FirstIn(m, e), isn)
                            /\ m[e].fin => e = next /\ s.fin_send
                            /\ e <= 1 + s.stream.read_count + Flag(m[e].fin)
    BY DEF SenderOK, SenderCore
  <2> HIDE DEF m, m2, next, ack
  <2>5. /\ m2 \in NoackType /\ Covers(m2, new_ack, next)
        /\ \A e \in DOMAIN m2 : /\ e \in DOMAIN m /\ m2[e] = m[e]
                                /\ FirstIn(m2, e) = FirstIn(m, e)
    BY <2>2, <2>3, CoversFewer
  <2>6. initial_retransmission_timeout \in 0 .. UIntRange - 1
    BY SenderConstants
  <2>7. t \in SenderType
    <3> DEFINE u == [s EXCEPT !.RTO = initial_retransmission_timeout, !.retransnum = 0]
    <3>1. s \in SenderType /\ m2 \in NoackType /\ new_ack \in Nat
      BY <1>1, <2>5
    <3>2. u \in SenderType
      BY <2>6, <3>1 DEF SenderType
    <3>3. t = [u EXCEPT !.ack_s = new_ack, !.segments_noack = m2]
      BY <2>1, <3>1 DEF SenderType
    <3> HIDE DEF u
    <3> QED
      BY <3>1, <3>2, <3>3 DEF SenderType
  <2>8. /\ t.RTO = initial_retransmission_timeout /\ t.retransnum = 0
        /\ t.ack_s = new_ack /\ t.segments_noack = m2
        /\ t.isn = s.isn /\ t.segments_out = s.segments_out /\ t.stream = s.stream
        /\ t.next_seqno = s.next_seqno /\ t.window = s.window
        /\ t.fin_send = s.fin_send /\ t.start = s.start
    BY <1>1, <2>1 DEF SenderType
  <2>9. \A e \in DOMAIN m2 : /\ Holds(m2[e], FirstIn(m2, e), isn)
                             /\ m2[e].fin => e = next /\ s.fin_send
                             /\ e <= 1 + s.stream.read_count + Flag(m2[e].fin)
    BY <2>4, <2>5
  <2>10. SenderCore(t, capacity, isn)
    BY <2>3, <2>5, <2>7, <2>8, <2>9 DEF SenderOK, SenderCore, next
  <2>11. t.start
    BY <1>1, <1>3, <2>8 DEF SenderOK
  <2>12. AckTaken(t, capacity, isn)
    BY <2>8, <2>10, <2>11 DEF AckTaken
  <2>13. AckFrame(s, t)
    BY <2>3, <2>5, <2>8 DEF AckFrame, m, ack
  <2> QED
    BY <2>8, <2>12, <2>13
<1> QED
  BY <1>2, <1>3

\* The window it carries.
LEMMA AcceptWindowKeeps ==
  ASSUME NEW capacity \in Nat, NEW isn, NEW s, AckTaken(s, capacity, isn),
         NEW win \in Nat, NEW t, t = AcceptWindow(s, win)
  PROVE  /\ AckTaken(t, capacity, isn) /\ AckFrame(s, t)
         /\ t.window \in {1, win} /\ t.ack_s = s.ack_s
         /\ t.retransnum = s.retransnum /\ t.RTO = s.RTO /\ t.rto_base = s.rto_base
         /\ t.start = s.start /\ t.segments_noack = s.segments_noack
<1>1. s \in SenderType /\ s.ack_s \in Nat
  BY SenderFields DEF AckTaken, SenderCore
<1>2. /\ t \in SenderType /\ t.window \in {1, win}
      /\ t.isn = s.isn /\ t.ack_s = s.ack_s /\ t.segments_out = s.segments_out
      /\ t.segments_noack = s.segments_noack /\ t.rto_base = s.rto_base
      /\ t.stream = s.stream /\ t.next_seqno = s.next_seqno /\ t.fin_send = s.fin_send
      /\ t.start = s.start /\ t.retransnum = s.retransnum /\ t.RTO = s.RTO
  <2>1. CASE win # 0
    <3>1. t = [s EXCEPT !.window = win] /\ win \in Nat \ {0}
      BY <2>1 DEF AcceptWindow
    <3> QED
      BY <1>1, <3>1 DEF SenderType
  <2>2. CASE win = 0
    <3>1. t = [s EXCEPT !.window = 1, !.window_zero = TRUE]
      BY <2>2 DEF AcceptWindow
    <3>2. 1 \in Nat \ {0} /\ TRUE \in BOOLEAN /\ s \in SenderType
      BY <1>1
    <3>3. t \in SenderType
      BY <3>1, <3>2 DEF SenderType
    <3> QED
      BY <3>1, <3>2, <3>3 DEF SenderType
  <2> QED
    BY <2>1, <2>2
<1>3. SenderCore(t, capacity, isn)
  BY <1>2 DEF AckTaken, SenderCore
<1> QED
  BY <1>1, <1>2, <1>3 DEF AckTaken, AckFrame

\* Stopping the timer when nothing is left in flight.
LEMMA StopKeeps ==
  ASSUME NEW capacity \in Nat, NEW isn, NEW s, AckTaken(s, capacity, isn),
         NEW t, t = StopIfAllAcked(s)
  PROVE  /\ SenderOK(t, capacity, isn) /\ AckFrame(s, t)
         /\ t.window = s.window /\ t.ack_s = s.ack_s
<1>1. /\ s \in SenderType /\ s.ack_s \in Nat /\ s.next_seqno \in Nat
      /\ s.ack_s <= s.next_seqno
  BY SenderFields DEF AckTaken, SenderCore
<1>2. CASE s.ack_s = s.next_seqno
  <2>1. t = [s EXCEPT !.start = FALSE]
    BY <1>2 DEF StopIfAllAcked
  <2>2. /\ t \in SenderType /\ t.window = s.window /\ t.start = FALSE
        /\ t.isn = s.isn /\ t.ack_s = s.ack_s /\ t.segments_out = s.segments_out
        /\ t.segments_noack = s.segments_noack /\ t.rto_base = s.rto_base
        /\ t.stream = s.stream /\ t.next_seqno = s.next_seqno /\ t.fin_send = s.fin_send
        /\ t.retransnum = s.retransnum /\ t.RTO = s.RTO
    BY <1>1, <2>1 DEF SenderType
  <2>3. SenderCore(t, capacity, isn)
    BY <2>2 DEF AckTaken, SenderCore
  <2>4. SenderOK(t, capacity, isn)
    BY <1>1, <1>2, <2>2, <2>3 DEF SenderOK, AckTaken
  <2> QED
    BY <1>1, <2>2, <2>4 DEF AckFrame
<1>3. CASE s.ack_s # s.next_seqno
  <2>1. t = s
    BY <1>3 DEF StopIfAllAcked
  <2>2. s.ack_s < s.next_seqno /\ s.start
    BY <1>1, <1>3 DEF AckTaken
  <2>3. SenderOK(s, capacity, isn)
    BY <2>2 DEF SenderOK, AckTaken
  <2> QED
    BY <1>1, <2>1, <2>3 DEF AckFrame
<1> QED
  BY <1>2, <1>3

\* Nothing an acknowledgment leaves alone changes over two parts of the method.
LEMMA AckFrameTwice ==
  ASSUME NEW s, NEW t, NEW u, s.ack_s \in Nat, t.ack_s \in Nat, u.ack_s \in Nat,
         AckFrame(s, t), AckFrame(t, u)
  PROVE  AckFrame(s, u)
  BY DEF AckFrame

\* The parts of ack_received, one after another.
LEMMA AckIsThreeParts ==
  ASSUME NEW s, NEW ackno, NEW win, NEW new_ack,
         new_ack = unwrap(ackno, s.isn, s.next_seqno), ~(new_ack > s.next_seqno)
  PROVE  ack_received(s, ackno, win)
           = StopIfAllAcked(AcceptWindow(AcceptAck(s, new_ack), win))
<1> DEFINE v == AcceptWindow(AcceptAck(s, new_ack), win)
<1>1. ack_received(s, ackno, win)
        = CHOOSE y \in {StopIfAllAcked(x) : x \in {v}} : TRUE
  BY DEF ack_received, Then
<1> HIDE DEF v
<1>2. {StopIfAllAcked(x) : x \in {v}} = {StopIfAllAcked(v)}
  OBVIOUS
<1>3. (CHOOSE y \in {StopIfAllAcked(v)} : TRUE) = StopIfAllAcked(v)
  OBVIOUS
<1> QED
  BY <1>1, <1>2, <1>3 DEF v

\* ack_received keeps the invariant, whatever number and window it is given.
LEMMA AckKeeps ==
  ASSUME NEW capacity \in Nat, NEW isn, NEW s, SenderOK(s, capacity, isn),
         NEW ackno \in Int, NEW win \in Nat,
         NEW t, t = ack_received(s, ackno, win)
  PROVE  /\ SenderOK(t, capacity, isn) /\ AckFrame(s, t)
         /\ t.window \in {1, win, s.window}
         /\ \/ t.ack_s = s.ack_s
            \/ /\ t.ack_s = unwrap(ackno, isn, s.next_seqno)
               /\ t.ack_s <= s.next_seqno
<1> DEFINE new_ack == unwrap(ackno, s.isn, s.next_seqno)
<1>1. /\ s \in SenderType /\ s.isn = isn /\ s.ack_s \in Nat /\ s.next_seqno \in Nat
      /\ s.isn \in Int
  BY SenderFields, ModulusType DEF SenderOK, SenderCore, WrappingInt32
<1>2. new_ack \in Nat
  <2> DEFINE n == s.next_seqno
             i == s.isn
  <2>1. n \in Nat /\ i \in Int
    BY <1>1
  <2> HIDE DEF n, i
  <2>2. unwrap(ackno, i, n) \in Nat
    BY <2>1, UnwrapType
  <2> QED
    BY <2>2 DEF n, i
<1>3. new_ack = unwrap(ackno, s.isn, s.next_seqno) /\ new_ack = unwrap(ackno, isn, s.next_seqno)
  BY <1>1
<1> HIDE DEF new_ack
<1>4. CASE new_ack > s.next_seqno
  <2>1. t = s
    BY <1>3, <1>4 DEF ack_received
  <2> QED
    BY <1>1, <2>1 DEF AckFrame
<1>5. CASE ~(new_ack > s.next_seqno)
  <2> DEFINE u == AcceptAck(s, new_ack)
             v == AcceptWindow(u, win)
  <2>1. t = StopIfAllAcked(v)
    BY <1>3, <1>5, AckIsThreeParts
  <2>2. new_ack <= s.next_seqno
    BY <1>1, <1>2, <1>5
  <2>3. u = AcceptAck(s, new_ack) /\ v = AcceptWindow(u, win)
    OBVIOUS
  <2> HIDE DEF u, v
  <2>4. /\ AckTaken(u, capacity, isn) /\ AckFrame(s, u)
        /\ u.window = s.window /\ u.ack_s \in {s.ack_s, new_ack}
    BY <1>2, <2>2, <2>3, AcceptAckKeeps
  <2>5. /\ AckTaken(v, capacity, isn) /\ AckFrame(u, v)
        /\ v.window \in {1, win} /\ v.ack_s = u.ack_s
    BY <2>3, <2>4, AcceptWindowKeeps
  <2>6. /\ SenderOK(t, capacity, isn) /\ AckFrame(v, t)
        /\ t.window = v.window /\ t.ack_s = v.ack_s
    BY <2>1, <2>5, StopKeeps
  <2>7. u.ack_s \in Nat /\ v.ack_s \in Nat /\ t.ack_s \in Nat
    BY <1>1, <1>2, <2>4, <2>5, <2>6
  <2>8. AckFrame(s, v)
    BY <1>1, <2>4, <2>5, <2>7, AckFrameTwice
  <2>9. AckFrame(s, t)
    BY <1>1, <2>6, <2>7, <2>8, AckFrameTwice
  <2> QED
    BY <1>3, <2>2, <2>4, <2>5, <2>6, <2>9
<1> QED
  BY <1>4, <1>5

OnlyWindowChanged(s, t) ==
  t = [s EXCEPT !.window = t.window, !.window_zero = t.window_zero]

\* An acknowledgment below the last one changes the window and nothing else.
LEMMA LateAck ==
  ASSUME NEW capacity \in Nat, NEW isn, NEW s, SenderOK(s, capacity, isn),
         NEW ackno \in Int, NEW win \in Nat,
         unwrap(ackno, isn, s.next_seqno) \in Nat,
         unwrap(ackno, isn, s.next_seqno) < s.ack_s,
         NEW t, t = ack_received(s, ackno, win)
  PROVE  OnlyWindowChanged(s, t)
<1> DEFINE new_ack == unwrap(ackno, isn, s.next_seqno)
           v == AcceptWindow(s, win)
<1>1. /\ s \in SenderType /\ s.isn = isn /\ s.ack_s \in Nat /\ s.next_seqno \in Nat
      /\ s.ack_s <= s.next_seqno
  BY SenderFields DEF SenderOK, SenderCore
<1>2. /\ new_ack = unwrap(ackno, s.isn, s.next_seqno)
      /\ ~(new_ack > s.next_seqno) /\ ~(new_ack > s.ack_s)
  BY <1>1
<1> HIDE DEF new_ack
<1>3. AcceptAck(s, new_ack) = s
  BY <1>2 DEF AcceptAck, IsNewAck
<1>4. t = StopIfAllAcked(v)
  BY <1>2, <1>3, AckIsThreeParts
<1>5. v = [s EXCEPT !.window = v.window, !.window_zero = v.window_zero]
      /\ v.ack_s = s.ack_s /\ v.next_seqno = s.next_seqno /\ v.start = s.start
  <2>1. CASE win # 0
    <3>1. v = [s EXCEPT !.window = win]
      BY <2>1 DEF AcceptWindow
    <3> QED
      BY <1>1, <3>1 DEF SenderType
  <2>2. CASE win = 0
    <3>1. v = [s EXCEPT !.window = 1, !.window_zero = TRUE]
      BY <2>2 DEF AcceptWindow
    <3> QED
      BY <1>1, <3>1 DEF SenderType
  <2> QED
    BY <2>1, <2>2
<1>6. t = v
  <2>1. CASE s.ack_s = s.next_seqno
    <3>1. s.start = FALSE
      BY <1>1, <2>1, SenderFields DEF SenderOK
    <3>2. t = [v EXCEPT !.start = FALSE]
      BY <1>4, <1>5, <2>1 DEF StopIfAllAcked
    <3>3. [v EXCEPT !.start = FALSE] = v
      BY <1>1, <1>5, <3>1 DEF SenderType
    <3> QED
      BY <3>2, <3>3
  <2>2. CASE s.ack_s # s.next_seqno
    BY <1>4, <1>5, <2>2 DEF StopIfAllAcked
  <2> QED
    BY <2>1, <2>2
<1> QED
  BY <1>5, <1>6 DEF OnlyWindowChanged

-----------------------------------------------------------------------------
(* tick and the other methods *)

\* The segment with the smallest key is the one that holds the oldest number
\* that is not acknowledged; while the timer runs there is one.
LEMMA OldestHoldsAck ==
  ASSUME NEW m \in NoackType, NEW ack \in Nat, NEW next \in Nat, ack < next,
         Covers(m, ack, next), NEW e, e = Oldest(m)
  PROVE  e \in DOMAIN m /\ FirstIn(m, e) <= ack /\ ack < e
<1>1. DOMAIN m \subseteq Nat
  BY DEF NoackType
<1>2. ack \in ack .. next - 1
  OBVIOUS
<1>3. PICK d \in DOMAIN m : FirstIn(m, d) <= ack /\ ack < d
  BY <1>2 DEF Covers
<1>4. \E x \in DOMAIN m : \A y \in DOMAIN m : x <= y
  BY <1>1, <1>3, LeastNatural
<1>5. e \in DOMAIN m /\ \A y \in DOMAIN m : e <= y
  BY <1>4 DEF Oldest, Min
<1>6. ack < e /\ e \in Nat /\ d \in Nat /\ e <= d /\ FirstIn(m, d) \in Nat
  BY <1>1, <1>3, <1>5 DEF Covers
<1>7. e < d => e <= FirstIn(m, d)
  BY <1>3, <1>5 DEF Covers
<1>8. e = d
  BY <1>3, <1>6, <1>7
<1> QED
  BY <1>3, <1>8

\* What the clock leaves alone, and what a timeout puts on the queue.
TickFrame(s, t) ==
  /\ t.stream = s.stream /\ t.next_seqno = s.next_seqno /\ t.fin_send = s.fin_send
  /\ t.ack_s = s.ack_s /\ t.window = s.window /\ t.segments_noack = s.segments_noack
  /\ \/ /\ t.retransnum = s.retransnum /\ t.segments_out = s.segments_out
        /\ t.rto_base = s.rto_base /\ t.RTO <= s.RTO
     \/ /\ t.retransnum = s.retransnum + 1
        /\ t.rto_base = NextBase(s)
        /\ t.RTO \in {initial_retransmission_timeout, NextBase(s)}
        /\ \E e \in DOMAIN s.segments_noack :
             /\ FirstIn(s.segments_noack, e) <= s.ack_s /\ s.ack_s < e
             /\ t.segments_out = Append(s.segments_out, s.segments_noack[e])

\* A timeout.
LEMMA RetransmitKeeps ==
  ASSUME NEW capacity \in Nat, NEW isn, NEW s, SenderOK(s, capacity, isn), s.start,
         NEW t, t = Retransmit(s)
  PROVE  SenderOK(t, capacity, isn) /\ TickFrame(s, t)
<1> DEFINE m == s.segments_noack
           ack == s.ack_s
           next == s.next_seqno
           out == s.segments_out
           e == Oldest(m)
           base == NextBase(s)
           rto == IF s.window_zero THEN initial_retransmission_timeout ELSE base
           out2 == Append(out, m[e])
<1>1. /\ s \in SenderType /\ m \in NoackType /\ ack \in Nat /\ next \in Nat
      /\ s.retransnum \in Nat /\ out \in Seq(SegmentType) /\ s.rto_base \in Nat
      /\ Covers(m, ack, next) /\ ack < next
  <2>1. UIntRange \in Nat
    BY SenderConstants
  <2> QED
    BY <2>1, SenderFields, NoackFacts DEF SenderOK, SenderCore
<1>2. e = Oldest(m)
  OBVIOUS
<1>3. base \in 0 .. UIntRange - 1
  <2>1. 2 * (IF s.retransnum = 0 THEN initial_retransmission_timeout ELSE s.rto_base) \in Int
    BY <1>1, SenderConstants
  <2>2. UIntRange \in Nat \ {0}
    BY SenderConstants
  <2> QED
    BY <2>1, <2>2, ModRange DEF NextBase
<1>4. rto \in 0 .. UIntRange - 1
  BY <1>3, SenderConstants
<1>5. \A d \in DOMAIN m : m[d] \in SegmentType
  BY <1>1, NoackFacts
<1>6. DOMAIN m # {} =>
        t = [s EXCEPT !.rto_base = base, !.RTO = rto, !.retransnum = s.retransnum + 1,
                      !.segments_out = out2]
  BY <1>1 DEF Retransmit, SenderType
<1>7. out2 = Append(out, m[e])
  OBVIOUS
<1> HIDE DEF m, ack, next, out, e, base, rto, out2
<1>8. e \in DOMAIN m /\ FirstIn(m, e) <= ack /\ ack < e
  BY <1>1, <1>2, OldestHoldsAck
<1>9. out2 \in Seq(SegmentType)
  BY <1>1, <1>5, <1>7, <1>8, AppendFacts
<1>10. t = [s EXCEPT !.rto_base = base, !.RTO = rto, !.retransnum = s.retransnum + 1,
                     !.segments_out = out2]
  BY <1>6, <1>8
<1>11. t \in SenderType
  <2>1. s \in SenderType /\ s.retransnum + 1 \in Nat
    BY <1>1
  <2> QED
    BY <1>3, <1>4, <1>9, <1>10, <2>1 DEF SenderType
<1>12. /\ t.isn = s.isn /\ t.ack_s = s.ack_s /\ t.segments_noack = s.segments_noack
       /\ t.stream = s.stream /\ t.next_seqno = s.next_seqno /\ t.window = s.window
       /\ t.fin_send = s.fin_send /\ t.start = s.start
       /\ t.retransnum = s.retransnum + 1 /\ t.segments_out = out2
       /\ t.rto_base = base /\ t.RTO = rto
  BY <1>1, <1>10 DEF SenderType
<1>13. SenderOK(t, capacity, isn)
  BY <1>11, <1>12 DEF SenderOK, SenderCore
<1>14. TickFrame(s, t)
  <2>1. t.rto_base = NextBase(s) /\ t.RTO \in {initial_retransmission_timeout, NextBase(s)}
    BY <1>12 DEF base, rto
  <2> QED
    BY <1>7, <1>8, <1>12, <2>1 DEF TickFrame, m, ack, out
<1> QED
  BY <1>13, <1>14

\* tick keeps the invariant.
LEMMA TickKeeps ==
  ASSUME NEW capacity \in Nat, NEW isn, NEW s, SenderOK(s, capacity, isn),
         NEW ms \in Nat, NEW t, t = tick(s, ms)
  PROVE  SenderOK(t, capacity, isn) /\ TickFrame(s, t)
<1>1. s \in SenderType /\ s.RTO \in 0 .. UIntRange - 1 /\ UIntRange \in Nat
  BY SenderFields, SenderConstants DEF SenderOK, SenderCore
<1>2. CASE ~s.start
  <2>1. t = s
    BY <1>2 DEF tick
  <2> QED
    BY <1>1, <2>1 DEF TickFrame
<1>3. CASE s.start /\ s.RTO <= ms
  <2>1. t = Retransmit(s)
    BY <1>3 DEF tick
  <2> QED
    BY <1>3, <2>1, RetransmitKeeps
<1>4. CASE s.start /\ ~(s.RTO <= ms)
  <2> DEFINE rto == s.RTO - ms
  <2>1. t = [s EXCEPT !.RTO = rto]
    BY <1>1, <1>4 DEF tick, SenderType
  <2>2. rto \in 0 .. UIntRange - 1
    BY <1>1, <1>4
  <2> HIDE DEF rto
  <2>3. t \in SenderType
    <3>1. s \in SenderType
      BY <1>1
    <3> QED
      BY <2>1, <2>2, <3>1 DEF SenderType
  <2>4. /\ t.isn = s.isn /\ t.ack_s = s.ack_s /\ t.segments_noack = s.segments_noack
        /\ t.stream = s.stream /\ t.next_seqno = s.next_seqno /\ t.window = s.window
        /\ t.fin_send = s.fin_send /\ t.start = s.start
        /\ t.retransnum = s.retransnum /\ t.segments_out = s.segments_out
        /\ t.rto_base = s.rto_base /\ t.RTO = rto
    BY <1>1, <2>1 DEF SenderType
  <2>5. SenderOK(t, capacity, isn)
    BY <1>4, <2>3, <2>4 DEF SenderOK, SenderCore
  <2>6. rto <= s.RTO
    BY <1>1 DEF rto
  <2> QED
    BY <2>4, <2>5, <2>6 DEF TickFrame
<1> QED
  BY <1>2, <1>3, <1>4

\* s with its stream replaced.
StreamChanged(s, st, t, capacity, isn) ==
  /\ SenderOK(t, capacity, isn)
  /\ t.stream = st /\ t.next_seqno = s.next_seqno /\ t.fin_send = s.fin_send
  /\ t.ack_s = s.ack_s /\ t.window = s.window /\ t.segments_noack = s.segments_noack
  /\ t.retransnum = s.retransnum /\ t.segments_out = s.segments_out
  /\ t.RTO = s.RTO /\ t.rto_base = s.rto_base

\* The application changes the stream, not what was read from it.
LEMMA StreamChangeKeeps ==
  ASSUME NEW capacity \in Nat, NEW isn, NEW s, SenderOK(s, capacity, isn),
         NEW st, StreamOK(st, capacity), st.error = FALSE,
         st.read_count = s.stream.read_count,
         s.fin_send => eof(st),
         NEW t, t = [s EXCEPT !.stream = st]
  PROVE  StreamChanged(s, st, t, capacity, isn)
<1>1. s \in SenderType /\ st \in ByteStreamType(Nat)
  BY DEF SenderOK, SenderCore, StreamOK
<1>2. t \in SenderType
  BY <1>1 DEF SenderType
<1>3. /\ t.isn = s.isn /\ t.ack_s = s.ack_s /\ t.segments_noack = s.segments_noack
      /\ t.stream = st /\ t.next_seqno = s.next_seqno /\ t.window = s.window
      /\ t.fin_send = s.fin_send /\ t.start = s.start /\ t.RTO = s.RTO
      /\ t.retransnum = s.retransnum /\ t.segments_out = s.segments_out
      /\ t.rto_base = s.rto_base
  BY <1>1 DEF SenderType
<1>4. SenderOK(t, capacity, isn)
  BY <1>2, <1>3 DEF SenderOK, SenderCore
<1> QED
  BY <1>3, <1>4 DEF StreamChanged

\* The owner changes the queue: what is on it does not matter to the sender.
LEMMA QueueChangeKeeps ==
  ASSUME NEW capacity \in Nat, NEW isn, NEW s, SenderOK(s, capacity, isn),
         NEW q \in Seq(SegmentType),
         NEW t, t = [s EXCEPT !.segments_out = q]
  PROVE  /\ SenderOK(t, capacity, isn)
         /\ t.stream = s.stream /\ t.next_seqno = s.next_seqno /\ t.fin_send = s.fin_send
         /\ t.ack_s = s.ack_s /\ t.window = s.window /\ t.segments_noack = s.segments_noack
         /\ t.retransnum = s.retransnum /\ t.segments_out = q
         /\ t.RTO = s.RTO /\ t.rto_base = s.rto_base
<1>1. s \in SenderType
  BY DEF SenderOK, SenderCore
<1>2. t \in SenderType
  BY <1>1 DEF SenderType
<1>3. /\ t.isn = s.isn /\ t.ack_s = s.ack_s /\ t.segments_noack = s.segments_noack
      /\ t.stream = s.stream /\ t.next_seqno = s.next_seqno /\ t.window = s.window
      /\ t.fin_send = s.fin_send /\ t.start = s.start /\ t.RTO = s.RTO
      /\ t.retransnum = s.retransnum /\ t.segments_out = q
      /\ t.rto_base = s.rto_base
  BY <1>1 DEF SenderType
<1>4. SenderOK(t, capacity, isn)
  BY <1>2, <1>3 DEF SenderOK, SenderCore
<1> QED
  BY <1>3, <1>4

\* A new sender.
LEMMA NewSenderOK ==
  ASSUME NEW capacity \in Nat, NEW isn \in WrappingInt32,
         NEW t, t = NewSender(capacity, isn)
  PROVE  SenderOK(t, capacity, isn)
<1> DEFINE st == NewByteStream(capacity)
<1>1. /\ StreamOK(st, capacity) /\ st \in ByteStreamType(Nat)
      /\ st.error = FALSE /\ st.read_count = 0
  BY NewStreamOK DEF StreamOK, NewByteStream
<1>2. t = [isn |-> isn, ack_s |-> 0, segments_out |-> <<>>, segments_noack |-> <<>>,
           rto_base |-> initial_retransmission_timeout, stream |-> st,
           next_seqno |-> 0, window |-> 1, window_zero |-> FALSE, fin_send |-> FALSE,
           start |-> FALSE, retransnum |-> 0, RTO |-> initial_retransmission_timeout]
  BY DEF NewSender
<1> HIDE DEF st
<1>3. DOMAIN <<>> = {} /\ <<>> \in [{} -> SegmentType] /\ <<>> \in Seq(SegmentType)
  BY EmptySeq
<1>4. <<>> \in NoackType
  BY <1>3, IsNoack
<1>5. initial_retransmission_timeout \in 0 .. UIntRange - 1
  BY SenderConstants
<1>6. t \in SenderType
  BY <1>1, <1>2, <1>3, <1>4, <1>5 DEF SenderType
<1>7. Covers(<<>>, 0, 0)
  BY <1>3 DEF Covers
<1>9. /\ t.isn = isn /\ t.ack_s = 0 /\ t.segments_noack = <<>>
      /\ t.stream = st /\ t.next_seqno = 0
      /\ t.fin_send = FALSE /\ t.start = FALSE /\ t.RTO = initial_retransmission_timeout
  BY <1>2
<1>10. /\ t.next_seqno = Flag(t.next_seqno > 0) + t.stream.read_count + Flag(t.fin_send)
       /\ t.ack_s <= t.next_seqno /\ ~(t.ack_s < t.next_seqno)
  BY <1>1, <1>9 DEF Flag
<1>11. DOMAIN t.segments_noack = {} /\ Covers(t.segments_noack, t.ack_s, t.next_seqno)
  BY <1>3, <1>7, <1>9
<1> QED
  BY <1>1, <1>6, <1>9, <1>10, <1>11 DEF SenderOK, SenderCore

-----------------------------------------------------------------------------
(* A sender as one end of a connection: what its calls put on the wire. *)

\* The numbers of a sender.
Counts(s) ==
  /\ s.next_seqno \in Nat /\ s.ack_s \in Nat /\ s.ack_s <= s.next_seqno
  /\ s.stream.read_count \in Nat /\ s.stream.write_count \in Nat
  /\ s.stream.read_count <= s.stream.write_count
  /\ s.fin_send \in BOOLEAN /\ s.stream.end_flag \in BOOLEAN
  /\ s.next_seqno = Flag(s.next_seqno > 0) + s.stream.read_count + Flag(s.fin_send)
  /\ s.fin_send => s.stream.end_flag /\ s.stream.read_count = s.stream.write_count

\* They fit together.
LEMMA SenderCounts ==
  ASSUME NEW capacity, NEW isn, NEW s, SenderOK(s, capacity, isn)
  PROVE  Counts(s)
<1> DEFINE st == s.stream
<1>1. /\ s \in SenderType /\ StreamOK(st, capacity) /\ s.ack_s <= s.next_seqno
      /\ s.next_seqno = Flag(s.next_seqno > 0) + st.read_count + Flag(s.fin_send)
      /\ s.fin_send => eof(st)
  BY DEF SenderOK, SenderCore
<1>2. s.next_seqno \in Nat /\ s.ack_s \in Nat /\ s.fin_send \in BOOLEAN
  BY <1>1, SenderFields
<1>3. /\ st.read_count \in Nat /\ st.write_count \in Nat /\ st.end_flag \in BOOLEAN
      /\ buffer_empty(st) <=> st.write_count = st.read_count
  BY <1>1, StreamFacts
<1>4. st.read_count <= st.write_count
  BY <1>1 DEF StreamOK
<1>5. s.fin_send => st.end_flag /\ st.read_count = st.write_count
  BY <1>1, <1>3 DEF eof
<1> QED
  BY <1>1, <1>2, <1>3, <1>4, <1>5 DEF Counts

\* The segment seg begins at the number `first` and t may have sent it: it carries
\* the bytes that belong there, and FIN only behind the last byte.
Carries(seg, first, t, isn) ==
  /\ seg \in SegmentType /\ first \in Nat /\ Holds(seg, first, isn)
  /\ first + Flag(seg.syn) + Len(seg.payload) <= 1 + t.stream.read_count
  /\ seg.fin => /\ t.fin_send
                /\ first + Flag(seg.syn) + Len(seg.payload) = 1 + t.stream.read_count
  /\ t.next_seqno > 0

SentBy(seg, t, isn) == \E first : Carries(seg, first, t, isn)

\* A segment that waits for its acknowledgment is one of them.
LEMMA KeptIsSent ==
  ASSUME NEW capacity, NEW isn, NEW t, SenderOK(t, capacity, isn),
         NEW e \in DOMAIN t.segments_noack
  PROVE  SentBy(t.segments_noack[e], t, isn)
<1> DEFINE m == t.segments_noack
           seg == m[e]
           first == FirstIn(m, e)
           n == Len(seg.payload)
           a == Flag(seg.syn)
           b == Flag(seg.fin)
           r == t.stream.read_count
<1>1. /\ t \in SenderType /\ Covers(m, t.ack_s, t.next_seqno)
      /\ Holds(seg, first, isn)
      /\ seg.fin => e = t.next_seqno /\ t.fin_send
      /\ e <= 1 + r + b
  BY DEF SenderOK, SenderCore
<1>2. seg \in SegmentType /\ e \in Nat
  BY <1>1, NoackFacts
<1>3. t.ack_s < e /\ e <= t.next_seqno /\ first \in Nat
  BY <1>1 DEF Covers
<1>4. Counts(t)
  BY SenderCounts
<1>5. length_in_sequence_space(seg) = n + a + b /\ n \in Nat /\ a \in Nat /\ b \in Nat
  <2>1. a \in {0, 1} /\ b \in {0, 1} /\ n \in Nat
        /\ length_in_sequence_space(seg) = n + a + b
    BY <1>2, SegmentLength
  <2> QED
    BY <2>1
<1>6. first = e - (n + a + b) /\ r \in Nat /\ t.next_seqno > 0
  <2>1. first = e - length_in_sequence_space(seg)
    BY DEF FirstIn
  <2>2. r \in Nat /\ t.next_seqno > 0
    BY <1>2, <1>3, <1>4 DEF Counts
  <2> QED
    BY <1>5, <2>1, <2>2
<1>7. first + a + n <= 1 + r
  <2> HIDE DEF first, a, n, r, b
  <2> QED
    BY <1>1, <1>2, <1>3, <1>5, <1>6
<1>8. ASSUME seg.fin PROVE t.fin_send /\ first + a + n = 1 + r
  <2>1. e = t.next_seqno /\ t.fin_send /\ b = 1
    BY <1>1, <1>8 DEF Flag
  <2>2. t.next_seqno = 1 + r + 1
    BY <1>4, <1>6, <2>1 DEF Counts, Flag
  <2> HIDE DEF first, a, n, r, b
  <2>3. first + a + n = 1 + r
    BY <1>2, <1>3, <1>5, <1>6, <2>1, <2>2
  <2> QED
    BY <2>1, <2>3
<1>9. Carries(seg, first, t, isn)
  BY <1>1, <1>2, <1>3, <1>6, <1>7, <1>8 DEF Carries
<1> QED
  BY <1>9 DEF SentBy

\* The sender went on from s to t; after FIN nothing more is read or sent.
Grows(s, t) ==
  /\ s.next_seqno <= t.next_seqno
  /\ s.stream.read_count <= t.stream.read_count
  /\ s.fin_send => /\ t.fin_send /\ t.next_seqno = s.next_seqno
                   /\ t.stream.read_count = s.stream.read_count

\* What was sent stays right.
LEMMA StillSent ==
  ASSUME NEW isn, NEW s, NEW t, Counts(s), Counts(t), Grows(s, t),
         NEW seg, SentBy(seg, s, isn)
  PROVE  SentBy(seg, t, isn)
<1>1. PICK first : Carries(seg, first, s, isn)
  BY DEF SentBy
<1> DEFINE x == first + Flag(seg.syn) + Len(seg.payload)
           r == s.stream.read_count
           r2 == t.stream.read_count
<1>2. /\ seg \in SegmentType /\ first \in Nat /\ Holds(seg, first, isn)
      /\ x <= 1 + r /\ (seg.fin => s.fin_send /\ x = 1 + r) /\ s.next_seqno > 0
  BY <1>1 DEF Carries
<1>3. /\ r \in Nat /\ r2 \in Nat /\ r <= r2 /\ t.next_seqno > 0
      /\ s.fin_send => t.fin_send /\ r2 = r
  BY <1>2 DEF Counts, Grows
<1>4. x \in Int
  <2>1. Len(seg.payload) \in Nat
    BY <1>2, SegmentLength
  <2> QED
    BY <1>2, <2>1 DEF Flag
<1>5. x <= 1 + r2
  <2> HIDE DEF x, r, r2
  <2> QED
    BY <1>2, <1>3, <1>4
<1>6. seg.fin => t.fin_send /\ x = 1 + r2
  BY <1>2, <1>3
<1>7. Carries(seg, first, t, isn)
  BY <1>2, <1>3, <1>5, <1>6 DEF Carries
<1> QED
  BY <1>7 DEF SentBy

\* A call took the sender from s to t and left the segments to be sent in
\* segments_out.
Calls(s, t, capacity, isn) ==
  /\ SenderOK(t, capacity, isn)
  /\ Grows(s, t)
  /\ \A i \in DOMAIN t.segments_out : SentBy(t.segments_out[i], t, isn)

\* What fill_window leaves alone.
Fills(s, t, capacity, isn) ==
  /\ Calls(s, t, capacity, isn)
  /\ t.ack_s = s.ack_s /\ t.window = s.window /\ t.retransnum = s.retransnum
  /\ t.stream.write_count = s.stream.write_count
  /\ t.stream.end_flag = s.stream.end_flag

\* fill_window, called with an empty queue.
LEMMA FillCalls ==
  ASSUME NEW capacity \in Nat, NEW isn, NEW s, SenderOK(s, capacity, isn),
         s.segments_out = <<>>
  PROVE  Fills(s, fill_window(s), capacity, isn)
<1> DEFINE end == s.ack_s + s.window
           t == fill_window(s)
<1>1. Filled(s, t, capacity, isn, end)
  BY FillWindowKeeps
<1> HIDE DEF t, end
<1>2. /\ SenderOK(t, capacity, isn)
      /\ t.ack_s = s.ack_s /\ t.window = s.window /\ t.retransnum = s.retransnum
      /\ t.stream.write_count = s.stream.write_count
      /\ t.stream.end_flag = s.stream.end_flag
      /\ s.next_seqno <= t.next_seqno
      /\ s.fin_send => t.fin_send /\ t.next_seqno = s.next_seqno
  BY <1>1 DEF Filled
<1>3. Counts(s) /\ Counts(t)
  BY <1>2, SenderCounts
<1>4. Grows(s, t)
  <2> DEFINE r == s.stream.read_count
             r2 == t.stream.read_count
             n == s.next_seqno
             n2 == t.next_seqno
  <2>1. /\ r \in Nat /\ r2 \in Nat /\ n \in Nat /\ n2 \in Nat /\ n <= n2
        /\ n = Flag(n > 0) + r + Flag(s.fin_send)
        /\ n2 = Flag(n2 > 0) + r2 + Flag(t.fin_send)
        /\ s.fin_send \in BOOLEAN /\ t.fin_send \in BOOLEAN
    BY <1>2, <1>3 DEF Counts
  <2>2. CASE s.fin_send
    <3>1. t.fin_send /\ n2 = n
      BY <1>2, <2>2
    <3> HIDE DEF r, r2, n, n2
    <3>2. r2 = r
      BY <2>1, <2>2, <3>1 DEF Flag
    <3> QED
      BY <2>1, <2>2, <3>1, <3>2 DEF Grows, r, r2, n, n2
  <2>3. CASE ~s.fin_send /\ ~t.fin_send
    <3> HIDE DEF r, r2, n, n2
    <3>1. r <= r2
      BY <2>1, <2>3 DEF Flag
    <3> QED
      BY <2>1, <2>3, <3>1 DEF Grows, r, r2, n, n2
  <2>4. CASE ~s.fin_send /\ t.fin_send
    <3>1. r <= r2
      BY <1>2, <1>3, <2>4 DEF Counts
    <3> QED
      BY <2>1, <2>4, <3>1 DEF Grows
  <2> QED
    BY <2>1, <2>2, <2>3, <2>4
<1>5. \A i \in DOMAIN t.segments_out : SentBy(t.segments_out[i], t, isn)
  <2> SUFFICES ASSUME NEW i \in DOMAIN t.segments_out
               PROVE  SentBy(t.segments_out[i], t, isn)
    OBVIOUS
  <2>1. i \in 1 .. Len(t.segments_out) /\ Len(s.segments_out) = 0
    BY <1>2, SenderFields DEF SenderOK, SenderCore
  <2>2. PICK e \in DOMAIN t.segments_noack : t.segments_out[i] = t.segments_noack[e]
    BY <1>1, <2>1 DEF Filled
  <2> QED
    BY <1>2, <2>2, KeptIsSent
<1>6. Fills(s, t, capacity, isn)
  BY <1>2, <1>4, <1>5 DEF Fills, Calls
<1> QED
  BY <1>6 DEF t

\* The application writes or closes, and the window is filled.
StreamCalls(s, st, t, capacity, isn) ==
  /\ Calls(s, t, capacity, isn)
  /\ t.ack_s = s.ack_s /\ t.window = s.window /\ t.retransnum = s.retransnum
  /\ t.stream.write_count = st.write_count /\ t.stream.end_flag = st.end_flag

\* That is what they do.
LEMMA StreamThenFill ==
  ASSUME NEW capacity \in Nat, NEW isn, NEW s, SenderOK(s, capacity, isn),
         s.segments_out = <<>>, ~s.stream.end_flag,
         NEW st, StreamOK(st, capacity), st.error = FALSE,
         st.read_count = s.stream.read_count
  PROVE  StreamCalls(s, st, fill_window([s EXCEPT !.stream = st]), capacity, isn)
<1> DEFINE u == [s EXCEPT !.stream = st]
           t == fill_window(u)
<1>1. ~s.fin_send
  BY SenderCounts DEF Counts
<1>2. StreamChanged(s, st, u, capacity, isn)
  BY <1>1, StreamChangeKeeps
<1> HIDE DEF u
<1>3. /\ SenderOK(u, capacity, isn) /\ u.segments_out = <<>> /\ u.stream = st
      /\ u.next_seqno = s.next_seqno /\ u.fin_send = s.fin_send /\ u.ack_s = s.ack_s
      /\ u.window = s.window /\ u.retransnum = s.retransnum
  BY <1>2 DEF StreamChanged
<1>4. Fills(u, t, capacity, isn)
  BY <1>3, FillCalls
<1> HIDE DEF t
<1>5. Calls(s, t, capacity, isn)
  BY <1>3, <1>4 DEF Fills, Calls, Grows
<1>6. StreamCalls(s, st, t, capacity, isn)
  BY <1>3, <1>4, <1>5 DEF Fills, StreamCalls
<1> QED
  BY <1>6 DEF t, u

\* Writing no more than fits.
Writes(s, t, n, capacity, isn) ==
  /\ Calls(s, t, capacity, isn)
  /\ t.ack_s = s.ack_s /\ t.window = s.window /\ t.retransnum = s.retransnum
  /\ t.stream.write_count = s.stream.write_count + n
  /\ t.stream.end_flag = s.stream.end_flag

\* That is what it does.
LEMMA WriteCalls ==
  ASSUME NEW capacity \in Nat, NEW isn, NEW s, SenderOK(s, capacity, isn),
         s.segments_out = <<>>, ~s.stream.end_flag,
         NEW n \in Nat, n <= remaining_capacity(s.stream)
  PROVE  Writes(s, fill_window([s EXCEPT !.stream = write(@, Bytes(@.write_count, n))]),
                n, capacity, isn)
<1> DEFINE st == s.stream
           w == st.write_count
           st2 == write(st, Bytes(w, n))
           t == fill_window([s EXCEPT !.stream = st2])
<1>1. StreamOK(st, capacity) /\ st.error = FALSE /\ s \in SenderType
  BY DEF SenderOK, SenderCore
<1>2. /\ st.read_count \in Nat /\ w \in Nat
      /\ remaining_capacity(st) = capacity - (w - st.read_count)
  BY <1>1, StreamFacts DEF remaining_capacity, StreamOK
<1>3. /\ StreamOK(st2, capacity) /\ st2.read_count = st.read_count
      /\ st2.write_count = w + Min2(n, capacity - (w - st.read_count))
      /\ st2.end_flag = st.end_flag /\ st2.error = st.error
  <2> HIDE DEF st
  <2> QED
    BY <1>1, WriteKeepsStream
<1>4. st2.write_count = w + n
  BY <1>2, <1>3 DEF Min2
<1>5. StreamCalls(s, st2, t, capacity, isn)
  <2> HIDE DEF st2
  <2> QED
    BY <1>1, <1>3, StreamThenFill
<1>6. fill_window([s EXCEPT !.stream = write(@, Bytes(@.write_count, n))]) = t
  BY <1>1 DEF SenderType
<1> HIDE DEF t, st2
<1>7. Writes(s, t, n, capacity, isn)
  BY <1>3, <1>4, <1>5 DEF StreamCalls, Writes
<1> QED
  BY <1>6, <1>7

\* Closing.
Closes(s, t, capacity, isn) ==
  /\ Calls(s, t, capacity, isn)
  /\ t.ack_s = s.ack_s /\ t.window = s.window /\ t.retransnum = s.retransnum
  /\ t.stream.write_count = s.stream.write_count
  /\ t.stream.end_flag = TRUE

\* end_input touches neither the buffer nor the counters.
EndOf(st, st2, capacity) ==
  /\ StreamOK(st2, capacity)
  /\ st2.read_count = st.read_count /\ st2.write_count = st.write_count
  /\ st2.error = st.error

\* That is so.
LEMMA EndedStream ==
  ASSUME NEW capacity \in Nat, NEW st, StreamOK(st, capacity)
  PROVE  EndOf(st, end_input(st), capacity)
  BY EndKeepsStream DEF EndOf

\* Closing does what Closes says.
LEMMA CloseCalls ==
  ASSUME NEW capacity \in Nat, NEW isn, NEW s, SenderOK(s, capacity, isn),
         s.segments_out = <<>>, ~s.stream.end_flag
  PROVE  Closes(s, fill_window([s EXCEPT !.stream = end_input(@)]), capacity, isn)
<1> DEFINE st == s.stream
           st2 == end_input(st)
           t == fill_window([s EXCEPT !.stream = st2])
<1>1. StreamOK(st, capacity) /\ st.error = FALSE /\ s \in SenderType
  BY DEF SenderOK, SenderCore
<1>2. /\ StreamOK(st2, capacity) /\ st2.read_count = st.read_count
      /\ st2.write_count = st.write_count /\ st2.end_flag = TRUE /\ st2.error = st.error
  <2>1. EndOf(st, st2, capacity)
    BY <1>1, EndedStream
  <2>2. st2.end_flag = TRUE
    BY <1>1 DEF end_input, StreamOK, ByteStreamType
  <2> HIDE DEF st, st2
  <2> QED
    BY <2>1, <2>2 DEF EndOf
<1>3. StreamCalls(s, st2, t, capacity, isn)
  <2>1. /\ StreamOK(st2, capacity) /\ st2.error = FALSE
        /\ st2.read_count = s.stream.read_count
    BY <1>1, <1>2
  <2> HIDE DEF st2
  <2> QED
    BY <1>1, <2>1, StreamThenFill
<1>4. fill_window([s EXCEPT !.stream = end_input(@)]) = t
  BY <1>1 DEF SenderType
<1> HIDE DEF t, st2
<1>5. Closes(s, t, capacity, isn)
  BY <1>2, <1>3 DEF StreamCalls, Closes
<1> QED
  BY <1>4, <1>5

\* An acknowledgment of everything below n, where n is not beyond what was sent.
Acks(s, t, n, win, capacity, isn) ==
  /\ Calls(s, t, capacity, isn)
  /\ s.ack_s <= t.ack_s /\ t.ack_s \in {s.ack_s, n}
  /\ t.window \in {1, win, s.window} /\ t.retransnum \in {0, s.retransnum}
  /\ t.stream.write_count = s.stream.write_count
  /\ t.stream.end_flag = s.stream.end_flag

\* What ack_received alone does.
AckKept(s, t, new_ack, win, capacity, isn) ==
  /\ SenderOK(t, capacity, isn) /\ AckFrame(s, t)
  /\ t.window \in {1, win, s.window} /\ t.ack_s \in {s.ack_s, new_ack}

\* That is so.
LEMMA AckTakes ==
  ASSUME NEW capacity \in Nat, NEW isn, NEW s, SenderOK(s, capacity, isn),
         NEW ackno \in Int, NEW win \in Nat
  PROVE  AckKept(s, ack_received(s, ackno, win), unwrap(ackno, isn, s.next_seqno),
                  win, capacity, isn)
<1> DEFINE t == ack_received(s, ackno, win)
<1>1. t = ack_received(s, ackno, win)
  OBVIOUS
<1> HIDE DEF t
<1>2. /\ SenderOK(t, capacity, isn) /\ AckFrame(s, t)
      /\ t.window \in {1, win, s.window}
      /\ \/ t.ack_s = s.ack_s
         \/ /\ t.ack_s = unwrap(ackno, isn, s.next_seqno)
            /\ t.ack_s <= s.next_seqno
  BY <1>1, AckKeeps
<1>3. AckKept(s, t, unwrap(ackno, isn, s.next_seqno), win, capacity, isn)
  BY <1>2 DEF AckKept
<1> QED
  BY <1>3 DEF t

\* ack_received, then fill_window.
LEMMA AckCalls ==
  ASSUME NEW capacity \in Nat, NEW isn \in Int, NEW s, SenderOK(s, capacity, isn),
         s.segments_out = <<>>, s.next_seqno <= HalfRange,
         NEW n \in Nat, n <= s.next_seqno, NEW win \in Nat
  PROVE  Acks(s, fill_window(ack_received(s, wrap(n, isn), win)), n, win, capacity, isn)
<1> DEFINE a == wrap(n, isn)
           next == s.next_seqno
           u == ack_received(s, a, win)
           t == fill_window(u)
<1>1. next \in Nat /\ next <= HalfRange /\ n <= next /\ HalfRange \in Nat /\ HalfRange > 0
  BY SenderCounts, ModulusType DEF Counts
<1>2. a \in Int
  <2>1. n \in Int
    OBVIOUS
  <2> QED
    BY <2>1, WrapFacts, ModulusType DEF WrappingInt32
<1>3. unwrap(a, isn, next) = n
  <2> HIDE DEF next
  <2>1. next - HalfRange <= n /\ n < next + HalfRange
    BY <1>1
  <2> QED
    BY <1>1, <2>1, UnwrapOfWrap
<1> HIDE DEF a
<1>4. /\ SenderOK(u, capacity, isn) /\ AckFrame(s, u)
      /\ u.window \in {1, win, s.window} /\ u.ack_s \in {s.ack_s, n}
  <2>1. AckKept(s, u, unwrap(a, isn, s.next_seqno), win, capacity, isn)
    BY <1>2, AckTakes
  <2>2. AckKept(s, u, n, win, capacity, isn)
    BY <1>3, <2>1
  <2> HIDE DEF u
  <2> QED
    BY <2>2 DEF AckKept
<1> HIDE DEF u, next
<1>5. /\ u.stream = s.stream /\ u.next_seqno = s.next_seqno /\ u.fin_send = s.fin_send
      /\ u.segments_out = <<>> /\ s.ack_s <= u.ack_s /\ u.retransnum \in {0, s.retransnum}
  BY <1>4 DEF AckFrame
<1>6. Fills(u, t, capacity, isn)
  BY <1>4, <1>5, FillCalls
<1> HIDE DEF t
<1>7. Calls(s, t, capacity, isn)
  BY <1>5, <1>6 DEF Fills, Calls, Grows
<1>8. Acks(s, t, n, win, capacity, isn)
  BY <1>4, <1>5, <1>6, <1>7 DEF Fills, Acks
<1> QED
  BY <1>8 DEF t, u, a

\* The clock.
Ticked(s, t, capacity, isn) ==
  /\ Calls(s, t, capacity, isn)
  /\ t.ack_s = s.ack_s /\ t.window = s.window /\ t.stream = s.stream
  /\ t.next_seqno = s.next_seqno /\ t.fin_send = s.fin_send

\* tick sends nothing new.
LEMMA TickCalls ==
  ASSUME NEW capacity \in Nat, NEW isn, NEW s, SenderOK(s, capacity, isn),
         s.segments_out = <<>>, NEW ms \in Nat
  PROVE  Ticked(s, tick(s, ms), capacity, isn)
<1> DEFINE t == tick(s, ms)
<1>1. SenderOK(t, capacity, isn) /\ TickFrame(s, t)
  BY TickKeeps
<1> HIDE DEF t
<1>2. /\ t.stream = s.stream /\ t.next_seqno = s.next_seqno /\ t.fin_send = s.fin_send
      /\ t.ack_s = s.ack_s /\ t.window = s.window /\ t.segments_noack = s.segments_noack
      /\ \/ t.segments_out = <<>>
         \/ \E e \in DOMAIN t.segments_noack :
              t.segments_out = Append(<<>>, t.segments_noack[e])
  BY <1>1 DEF TickFrame
<1>3. \A i \in DOMAIN t.segments_out : SentBy(t.segments_out[i], t, isn)
  <2>1. CASE t.segments_out = <<>>
    BY <2>1
  <2>2. ASSUME NEW e \in DOMAIN t.segments_noack,
               t.segments_out = Append(<<>>, t.segments_noack[e])
        PROVE  \A i \in DOMAIN t.segments_out : SentBy(t.segments_out[i], t, isn)
    <3> DEFINE seg == t.segments_noack[e]
    <3>1. SentBy(seg, t, isn)
      BY <1>1, KeptIsSent
    <3>2. t.segments_out = Append(<<>>, seg)
      BY <2>2
    <3> HIDE DEF seg
    <3>3. \A i \in DOMAIN t.segments_out : t.segments_out[i] = seg
      BY <3>2
    <3> QED
      BY <3>1, <3>3
  <2> QED
    BY <1>2, <2>1, <2>2
<1>4. Counts(s)
  BY SenderCounts
<1>5. Ticked(s, t, capacity, isn)
  BY <1>1, <1>2, <1>3, <1>4 DEF Ticked, Calls, Grows, Counts
<1> QED
  BY <1>5 DEF t

\* The timer runs out.
LEMMA TimeoutCalls ==
  ASSUME NEW capacity \in Nat, NEW isn, NEW s, SenderOK(s, capacity, isn),
         s.segments_out = <<>>
  PROVE  Ticked(s, tick(s, s.RTO), capacity, isn)
<1>1. s.RTO \in Nat
  BY SenderFields, SenderConstants DEF SenderOK, SenderCore
<1> DEFINE ms == s.RTO
<1>2. ms \in Nat
  BY <1>1
<1> HIDE DEF ms
<1>3. Ticked(s, tick(s, ms), capacity, isn)
  BY <1>2, TickCalls
<1> QED
  BY <1>3 DEF ms

\* What tcp_state.cc reports of a sender.
SummaryOf(s) ==
  SenderSummary(s.stream.error, s.next_seqno, bytes_in_flight(s), eof(s.stream),
                s.stream.write_count)

\* The stage of a connection, in terms of the sender's own flag.
StageOf(s) ==
  IF s.next_seqno = 0 THEN CLOSED
  ELSE IF s.ack_s = 0 THEN SYN_SENT
  ELSE IF ~s.fin_send THEN SYN_ACKED
  ELSE IF s.ack_s < s.next_seqno THEN FIN_SENT
  ELSE FIN_ACKED

\* The two agree: FIN is reported exactly when FIN has been sent.
LEMMA SummaryOfStage ==
  ASSUME NEW capacity \in Nat, NEW isn, NEW s, SenderOK(s, capacity, isn)
  PROVE  SummaryOf(s) = StageOf(s)
<1> DEFINE st == s.stream
           next == s.next_seqno
           ack == s.ack_s
           r == st.read_count
           w == st.write_count
<1>0. /\ next \in Nat /\ ack \in Nat /\ ack <= next /\ s.fin_send \in BOOLEAN
      /\ StreamOK(st, capacity)
  BY SenderFields DEF SenderOK, SenderCore
<1>1. /\ next \in Nat /\ ack \in Nat /\ ack <= next /\ s.fin_send \in BOOLEAN
      /\ StreamOK(st, capacity) /\ st.error = FALSE
      /\ next = Flag(next > 0) + r + Flag(s.fin_send)
      /\ s.fin_send => eof(st)
  BY <1>0 DEF SenderOK, SenderCore
<1>2. r \in Nat /\ w \in Nat /\ r <= w /\ (buffer_empty(st) <=> w = r)
  BY <1>1, StreamFacts DEF StreamOK
<1>3. eof(st) => w = r
  BY <1>2 DEF eof
<1>4. next # 0 => (s.fin_send <=> ~(~eof(st) \/ next < w + 2))
  <2> SUFFICES ASSUME next # 0 PROVE s.fin_send <=> ~(~eof(st) \/ next < w + 2)
    OBVIOUS
  <2>1. CASE s.fin_send
    <3>1. Flag(next > 0) = 1 /\ Flag(s.fin_send) = 1
      BY <1>1, <2>1 DEF Flag
    <3>2. eof(st) /\ w = r
      BY <1>1, <1>3, <2>1
    <3>3. next = 1 + r + 1
      BY <1>1, <3>1
    <3>4. ~(next < w + 2)
      BY <1>2, <3>2, <3>3
    <3> HIDE DEF st, next, w
    <3> QED
      BY <2>1, <3>2, <3>4, Zenon
  <2>2. CASE ~s.fin_send
    <3>1. Flag(next > 0) = 1 /\ Flag(s.fin_send) = 0
      BY <1>1, <2>2 DEF Flag
    <3>2. next = 1 + r
      BY <1>1, <1>2, <3>1
    <3>3. eof(st) => next < w + 2
      BY <1>2, <1>3, <3>2
    <3>4. ~eof(st) \/ next < w + 2
      BY <3>3
    <3> HIDE DEF st, next, w
    <3> QED
      BY <2>2, <3>4, Zenon
  <2> QED
    BY <1>1, <2>1, <2>2
<1>5. next = next - ack <=> ack = 0
  BY <1>1
<1>6. next - ack > 0 <=> ack < next
  BY <1>1
<1>7. SummaryOf(s) = SenderSummary(st.error, next, next - ack, eof(st), w)
  BY DEF SummaryOf, bytes_in_flight
<1> HIDE DEF st, next, ack, w
<1>8. SummaryOf(s) = IF next = 0 THEN CLOSED
                ELSE IF ack = 0 THEN SYN_SENT
                ELSE IF ~s.fin_send THEN SYN_ACKED
                ELSE IF ack < next THEN FIN_SENT
                ELSE FIN_ACKED
  BY <1>1, <1>4, <1>5, <1>6, <1>7 DEF SenderSummary
<1> QED
  BY <1>8 DEF StageOf, next, ack

\* FIN_ACKED is reported when FIN was sent and everything is acknowledged.
LEMMA AllAcked ==
  ASSUME NEW capacity \in Nat, NEW isn, NEW s, SenderOK(s, capacity, isn)
  PROVE  SummaryOf(s) = FIN_ACKED <=> s.fin_send /\ s.ack_s = s.next_seqno
<1>1. SummaryOf(s) = StageOf(s)
  BY SummaryOfStage
<1>2. Counts(s)
  BY SenderCounts
<1>3. s.next_seqno \in Nat /\ s.ack_s \in Nat /\ s.ack_s <= s.next_seqno
  BY <1>2 DEF Counts
<1>4. s.fin_send => s.next_seqno # 0
  BY <1>2 DEF Counts, Flag
<1> QED
  BY <1>1, <1>3, <1>4 DEF StageOf, CLOSED, SYN_SENT, SYN_ACKED, FIN_SENT, FIN_ACKED

\* The owner takes the queue, and the counter of retransmissions is set.
Drains(t, v, capacity, isn) ==
  /\ SenderOK(v, capacity, isn) /\ v.segments_out = <<>>
  /\ v.stream = t.stream /\ v.next_seqno = t.next_seqno /\ v.fin_send = t.fin_send
  /\ v.ack_s = t.ack_s /\ v.window = t.window
  /\ \A seg : SentBy(seg, t, isn) => SentBy(seg, v, isn)

\* Neither touches what the sender promises.
LEMMA DrainCalls ==
  ASSUME NEW capacity \in Nat, NEW isn, NEW t, SenderOK(t, capacity, isn), NEW k \in Nat
  PROVE  Drains(t, [t EXCEPT !.segments_out = <<>>, !.retransnum = k], capacity, isn)
<1> DEFINE v == [t EXCEPT !.segments_out = <<>>, !.retransnum = k]
<1>1. t \in SenderType /\ <<>> \in Seq(SegmentType)
  BY EmptySeq DEF SenderOK, SenderCore
<1>2. v \in SenderType
  BY <1>1 DEF SenderType
<1>3. /\ v.isn = t.isn /\ v.ack_s = t.ack_s /\ v.segments_noack = t.segments_noack
      /\ v.stream = t.stream /\ v.next_seqno = t.next_seqno /\ v.window = t.window
      /\ v.fin_send = t.fin_send /\ v.start = t.start /\ v.RTO = t.RTO
      /\ v.segments_out = <<>>
  BY <1>1 DEF SenderType
<1> HIDE DEF v
<1>4. SenderOK(v, capacity, isn)
  BY <1>2, <1>3 DEF SenderOK, SenderCore
<1>5. Counts(t) /\ Counts(v)
  BY <1>4, SenderCounts
<1>6. Grows(t, v)
  BY <1>3, <1>5 DEF Grows, Counts
<1>7. Drains(t, v, capacity, isn)
  BY <1>3, <1>4, <1>5, <1>6, StillSent DEF Drains
<1> QED
  BY <1>7 DEF v

\* Taking the queue alone.
LEMMA DrainOnly ==
  ASSUME NEW capacity \in Nat, NEW isn, NEW t, SenderOK(t, capacity, isn)
  PROVE  Drains(t, [t EXCEPT !.segments_out = <<>>], capacity, isn)
<1>1. t \in SenderType /\ t.retransnum \in Nat
  BY SenderFields DEF SenderOK, SenderCore
<1>2. [t EXCEPT !.segments_out = <<>>]
        = [t EXCEPT !.segments_out = <<>>, !.retransnum = t.retransnum]
  BY <1>1 DEF SenderType
<1> QED
  BY <1>1, <1>2, DrainCalls

\* Taking it while the counter of retransmissions saturates at m.
LEMMA DrainCapped ==
  ASSUME NEW capacity \in Nat, NEW isn, NEW t, SenderOK(t, capacity, isn), NEW m \in Nat
  PROVE  Drains(t, [t EXCEPT !.segments_out = <<>>, !.retransnum = Min2(@, m)],
                capacity, isn)
<1> DEFINE k == Min2(t.retransnum, m)
<1>1. t \in SenderType /\ t.retransnum \in Nat
  BY SenderFields DEF SenderOK, SenderCore
<1>2. k \in Nat
  BY <1>1 DEF Min2
<1>3. [t EXCEPT !.segments_out = <<>>, !.retransnum = Min2(@, m)]
        = [t EXCEPT !.segments_out = <<>>, !.retransnum = k]
  BY <1>1 DEF SenderType
<1> HIDE DEF k
<1> QED
  BY <1>2, <1>3, DrainCalls

\* The sender s between two calls, and the segments of it that the network holds.
WireOK(s, segs, capacity, isn) ==
  /\ SenderOK(s, capacity, isn) /\ s.segments_out = <<>>
  /\ \A seg \in segs : SentBy(seg, s, isn)

\* A call took the sender from s to t, its owner left it as v, and the network is
\* left with some of what it held and of what was sent.
Leaves(s, t, v, segs, segs2, capacity, isn) ==
  /\ Drains(t, v, capacity, isn)
  /\ segs2 \subseteq segs \cup Range(t.segments_out)

\* Everything in the network is still right.
LEMMA StillOnWire ==
  ASSUME NEW capacity \in Nat, NEW isn, NEW s, NEW segs, WireOK(s, segs, capacity, isn),
         NEW t, Calls(s, t, capacity, isn),
         NEW v, NEW segs2, Leaves(s, t, v, segs, segs2, capacity, isn)
  PROVE  WireOK(v, segs2, capacity, isn) /\ Grows(s, v)
<1>1. Counts(s) /\ Counts(t)
  BY SenderCounts DEF WireOK, Calls
<1>2. \A seg \in segs : SentBy(seg, t, isn)
  BY <1>1, StillSent DEF WireOK, Calls
<1>3. \A seg \in Range(t.segments_out) : SentBy(seg, t, isn)
  BY DEF Calls, Range
<1>4. \A seg \in segs2 : SentBy(seg, v, isn)
  BY <1>2, <1>3 DEF Leaves, Drains
<1>5. WireOK(v, segs2, capacity, isn)
  BY <1>4 DEF WireOK, Leaves, Drains
<1>6. Grows(s, v)
  BY DEF Leaves, Drains, Calls, Grows
<1> QED
  BY <1>5, <1>6

\* A new sender opens the connection: SYN is on the wire.
Opens(v, segs, capacity, isn) ==
  /\ WireOK(v, segs, capacity, isn)
  /\ v.ack_s = 0 /\ v.stream.write_count = 0 /\ v.stream.end_flag = FALSE

\* That is what the first fill_window does.
LEMMA OpenWire ==
  ASSUME NEW capacity \in Nat, NEW isn \in WrappingInt32
  PROVE  LET t == fill_window(NewSender(capacity, isn))
         IN  Opens([t EXCEPT !.segments_out = <<>>], Range(t.segments_out), capacity, isn)
<1> DEFINE s == NewSender(capacity, isn)
           t == fill_window(s)
           v == [t EXCEPT !.segments_out = <<>>]
<1>1. SenderOK(s, capacity, isn)
  BY NewSenderOK
<1>2. s.segments_out = <<>> /\ s.ack_s = 0 /\ s.stream.write_count = 0 /\ s.stream.end_flag = FALSE
  BY DEF NewSender, NewByteStream
<1> HIDE DEF s
<1>3. Fills(s, t, capacity, isn)
  BY <1>1, <1>2, FillCalls
<1> HIDE DEF t
<1>4. Calls(s, t, capacity, isn) /\ SenderOK(t, capacity, isn)
  BY <1>3 DEF Fills, Calls
<1>5. Drains(t, v, capacity, isn)
  BY <1>4, DrainOnly
<1> HIDE DEF v
<1>6. Leaves(s, t, v, {}, Range(t.segments_out), capacity, isn) /\ WireOK(s, {}, capacity, isn)
  BY <1>1, <1>2, <1>5 DEF Leaves, WireOK
<1>7. WireOK(v, Range(t.segments_out), capacity, isn)
  BY <1>4, <1>6, StillOnWire
<1>8. v.ack_s = 0 /\ v.stream.write_count = 0 /\ v.stream.end_flag = FALSE
  BY <1>2, <1>3, <1>5 DEF Fills, Drains
<1>9. Opens(v, Range(t.segments_out), capacity, isn)
  BY <1>7, <1>8 DEF Opens
<1> QED
  BY <1>9 DEF v, t, s
=============================================================================
