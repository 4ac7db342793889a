-------------------------- MODULE ReceiverTheorems --------------------------
(***************************************************************************)
(* A TCPReceiver as a value: what is true of it between two calls          *)
(* (ReceiverOK), that every segment and every read keeps it so, and what   *)
(* it promises to a peer whose stream is still being written (Serves).     *)
(* The proofs about the receiver by itself (TCPReceiver_proofs) and about  *)
(* a connection (Transfer_proofs) rest on these lemmas.                    *)
(*                                                                         *)
(* A receiver is new, open or closed.  While it is open its reassembler    *)
(* satisfies ReassemblerOK.  Once it is closed _checkp is 0 again, so late *)
(* duplicates may be stored under a wrong index; what matters then is only *)
(* that they lie below write_ptr (Finished).                               *)
(***************************************************************************)
EXTENDS TCPReceiverOps, DataTheorems

-----------------------------------------------------------------------------
(* A reassembler whose stream has ended. *)

\* The whole stream of `top` bytes was written and its end signalled.  Late
\* duplicates may still be stored, under any key, but only below write_ptr.
Finished(r, capacity, top) ==
  /\ r \in ReassemblerType
  /\ StreamOK(r.output, capacity) /\ r.capacity = capacity
  /\ r.write_ptr = r.output.write_count /\ r.write_ptr = top
  /\ r.output.end_flag
  /\ UpTo(r.stream, top)

\* The first loop of push_substring passes over strings that lie below write_ptr.
LEMMA AssembleStale ==
  ASSUME NEW r \in ReassemblerType, UpTo(r.stream, r.write_ptr)
  PROVE  Assemble(r) = r
<1> DEFINE keys == DOMAIN r.stream
           end == LoopEnd(keys)
           g == [i \in 0 .. end |-> r]
<1>1. /\ r.stream \in StringMap /\ r.write_ptr \in Nat
  BY ReassemblerFields
<1>2. \A k \in keys : k \in Nat /\ End(r.stream, k) \in Nat /\ k <= End(r.stream, k)
                      /\ End(r.stream, k) <= r.write_ptr
  BY <1>1, MapFacts DEF UpTo
<1>3. end \in Nat /\ \A k \in keys : k < end
  <2>1. keys \subseteq Nat /\ \A k \in keys : k <= r.write_ptr
    BY <1>1, <1>2
  <2> QED
    BY <1>1, <2>1, LoopEndFacts
<1>4. \A k \in keys : AssembleStep(r, k) = r
  BY <1>1, <1>2 DEF AssembleStep
<1> HIDE DEF end
<1>5. AssembleLoop(g, r, keys, end)
  BY <1>3, <1>4 DEF AssembleLoop
<1>6. PICK f : AssembleLoop(f, r, keys, end) /\ Assemble(r) = f[end]
  BY <1>5, AssembleIsLoop DEF end
<1>7. /\ f[0] = r
      /\ \A k \in 1 .. end :
           f[k] = IF (k - 1) \in keys THEN AssembleStep(f[k - 1], k - 1) ELSE f[k - 1]
  BY <1>3, <1>6 DEF AssembleLoop
<1> DEFINE X == {r}
<1>8. f[0] \in X /\ \A k \in 1 .. end : f[k - 1] \in X => f[k] \in X
  BY <1>4, <1>7
<1> HIDE DEF X, keys
<1>9. \A k \in 0 .. end : f[k] \in X
  BY <1>3, <1>8, LoopKeeps
<1> QED
  BY <1>3, <1>6, <1>9 DEF X, keys

\* Storing any string below n leaves a map below n.
LEMMA StoreStale ==
  ASSUME NEW m \in StringMap, NEW index \in Nat, NEW data \in Seq(Nat), NEW t \in Nat,
         UpTo(m, t), index + Len(data) <= t
  PROVE  Store(m, index, data) \in StringMap /\ UpTo(Store(m, index, data), t)
<1>1. CASE index \in DOMAIN m /\ Len(data) <= Len(m[index])
  BY <1>1 DEF Store
<1>2. CASE ~(index \in DOMAIN m /\ Len(data) <= Len(m[index]))
  <2> DEFINE D == DOMAIN m \cup {index}
             n == [k \in D |-> IF k = index THEN data ELSE m[k]]
  <2>1. Store(m, index, data) = n
    BY <1>2 DEF Store
  <2>2. D \subseteq Nat /\ \A k \in DOMAIN m : m[k] \in Seq(Nat)
    BY MapFacts
  <2>3. n \in [D -> Seq(Nat)]
    BY <2>2
  <2>4. n \in StringMap
    BY <2>2, <2>3 DEF StringMap
  <2>5. \A k \in DOMAIN n : End(n, k) <= t
    <3>1. TAKE k \in DOMAIN n
    <3>2. CASE k = index
      BY <3>2 DEF End
    <3>3. CASE k # index
      BY <3>3 DEF End, UpTo
    <3> QED
      BY <3>2, <3>3
  <2> QED
    BY <2>1, <2>4, <2>5 DEF UpTo
<1> QED
  BY <1>1, <1>2

\* y is r after the push of a late duplicate.
Unmoved(r, y, capacity, top) ==
  /\ Finished(y, capacity, top)
  /\ y.output.read_count = r.output.read_count
  /\ y.output.error = r.output.error

\* A push that reaches no further than the output does not touch the output.
LEMMA StalePush ==
  ASSUME NEW capacity \in Nat, NEW top \in Nat, NEW r, Finished(r, capacity, top),
         NEW index \in Nat, NEW data \in Seq(Nat), index + Len(data) <= top,
         NEW last \in BOOLEAN,
         NEW y, y = push_substring(r, data, index, last)
  PROVE  Unmoved(r, y, capacity, top)
<1> DEFINE noted == NoteEof(r, data, index, last)
           s == StoredString(r, data, index, last)
<1>1. /\ r \in ReassemblerType /\ StreamOK(r.output, capacity) /\ r.capacity = capacity
      /\ r.write_ptr = r.output.write_count /\ r.write_ptr = top
      /\ r.output.end_flag /\ UpTo(r.stream, top)
      /\ r.stream \in StringMap /\ index + Len(data) \in Nat
  BY ReassemblerFields DEF Finished
<1>2. Clip(r, data, index) = data
  <2>1. Limit(r) \in Nat /\ top <= Limit(r)
    <3>1. /\ r.output.read_count \in Nat /\ r.output.write_count \in Nat
          /\ r.output.write_count - r.output.read_count <= capacity
      BY <1>1, StreamFacts DEF StreamOK
    <3> QED
      BY <1>1, <3>1 DEF Limit
  <2> QED
    BY <1>1, <2>1 DEF Clip
<1>3. /\ noted \in ReassemblerType /\ noted.output = r.output
      /\ noted.capacity = r.capacity /\ noted.write_ptr = r.write_ptr
      /\ noted.stream = r.stream
  BY <1>1 DEF NoteEof, ReassemblerType
<1> DEFINE m == Store(r.stream, index, data)
<1>4. m \in StringMap /\ UpTo(m, top)
  BY <1>1, StoreStale
<1>5. s = [noted EXCEPT !.stream = m]
  BY <1>2, <1>3 DEF StoredString
<1> HIDE DEF noted, s, m
<1>6. /\ s \in ReassemblerType /\ s.output = r.output
      /\ s.capacity = r.capacity /\ s.write_ptr = r.write_ptr /\ s.stream = m
  BY <1>3, <1>4, <1>5 DEF ReassemblerType
<1>7. Assemble(s) = s
  BY <1>1, <1>4, <1>6, AssembleStale
<1>8. PICK n : Coalesced(s.stream, n) /\ Coalesce(s) = [s EXCEPT !.stream = n]
  BY <1>4, <1>6, CoalesceKeeps
<1>9. n \in StringMap /\ UpTo(n, top)
  BY <1>4, <1>6, <1>8 DEF Coalesced
<1> DEFINE c == [s EXCEPT !.stream = n]
<1>10. /\ c \in ReassemblerType /\ c.output = r.output
       /\ c.capacity = r.capacity /\ c.write_ptr = r.write_ptr /\ c.stream = n
  BY <1>6, <1>9 DEF ReassemblerType
<1>11. y = EndWhenComplete(c)
  BY <1>7, <1>8, PushIsThreeParts DEF s
<1> HIDE DEF c
<1> DEFINE w == c.output
           o == end_input(w)
<1>12. StreamOK(w, capacity)
  BY <1>1, <1>10
<1> HIDE DEF w
<1>13. /\ StreamOK(o, capacity) /\ o.read_count = w.read_count
       /\ o.write_count = w.write_count /\ o.end_flag = TRUE /\ o.error = w.error
  BY <1>12, EndKeepsStream
<1>14. /\ StreamOK(o, capacity) /\ o \in ByteStreamType(Nat)
       /\ o.read_count = r.output.read_count /\ o.write_count = r.output.write_count
       /\ o.end_flag /\ o.error = r.output.error
  BY <1>10, <1>13 DEF StreamOK, w
<1> HIDE DEF o
<1>15. CASE y = c
  BY <1>1, <1>9, <1>10, <1>15 DEF Unmoved, Finished
<1>16. CASE y = [c EXCEPT !.output = o]
  <2>1. /\ y \in ReassemblerType /\ y.output = o
        /\ y.capacity = c.capacity /\ y.write_ptr = c.write_ptr /\ y.stream = c.stream
    <3>1. c \in ReassemblerType /\ o \in ByteStreamType(Nat)
      BY <1>10, <1>14
    <3>2. y \in ReassemblerType
      BY <1>16, <3>1 DEF ReassemblerType
    <3> QED
      BY <1>16, <3>1, <3>2 DEF ReassemblerType
  <2> QED
    BY <1>1, <1>9, <1>10, <1>14, <2>1 DEF Unmoved, Finished
<1> QED
  BY <1>11, <1>15, <1>16 DEF EndWhenComplete, o, w

\* y is r after a read.
StaleReadFrom(r, y, n, capacity, top) ==
  /\ Finished(y, capacity, top)
  /\ y.output.read_count = r.output.read_count + n
  /\ y.output.error = r.output.error

\* The output is still read.
LEMMA StaleRead ==
  ASSUME NEW capacity \in Nat, NEW top \in Nat, NEW r, Finished(r, capacity, top),
         NEW n \in Nat, n <= buffer_size(r.output),
         NEW y, y = [r EXCEPT !.output = after_read(r.output, n)]
  PROVE  StaleReadFrom(r, y, n, capacity, top)
<1> DEFINE o == r.output
           t == after_read(o, n)
<1>1. /\ r \in ReassemblerType /\ StreamOK(o, capacity) /\ r.capacity = capacity
      /\ r.write_ptr = o.write_count /\ r.write_ptr = top
      /\ o.end_flag /\ UpTo(r.stream, top) /\ y = [r EXCEPT !.output = t]
  BY DEF Finished
<1>2. n <= o.write_count - o.read_count
  BY <1>1, StreamFacts
<1> HIDE DEF o
<1>3. /\ StreamOK(t, capacity)
      /\ t.read_count = o.read_count + n
      /\ t.write_count = o.write_count
      /\ t.end_flag = o.end_flag /\ t.error = o.error
  <2>1. StreamOK(o, capacity)
    BY <1>1
  <2> QED
    BY <1>2, <2>1, ReadExactly
<1>4. t \in ByteStreamType(Nat)
  BY <1>3 DEF StreamOK
<1> HIDE DEF t
<1>5. /\ y \in ReassemblerType /\ y.output = t /\ y.write_ptr = r.write_ptr
      /\ y.capacity = r.capacity /\ y.stream = r.stream
  BY <1>1, <1>4 DEF ReassemblerType
<1> QED
  BY <1>1, <1>3, <1>5 DEF StaleReadFrom, Finished, o

\* A reassembler that signals the end of its output is finished.
LEMMA EndedIsFinished ==
  ASSUME NEW capacity \in Nat, NEW top \in Nat, NEW r, ReassemblerOK(r, capacity, top),
         r.output.end_flag
  PROVE  Finished(r, capacity, top)
  BY DEF ReassemblerOK, Loaded, Finished

-----------------------------------------------------------------------------
(* The index that segment_received computes. *)

\* The distance of two wrapped positions.
LEMMA OffsetOfWrap ==
  ASSUME NEW p \in Int, NEW c \in Int, NEW i \in Int
  PROVE  (wrap(p, i) - wrap(c, i)) % Modulus = (p - c) % Modulus
<1>1. PICK k1 \in Int : wrap(p, i) = p + i + Modulus * k1
  BY WrapFacts
<1>2. PICK k2 \in Int : wrap(c, i) = c + i + Modulus * k2
  BY WrapFacts
<1>3. wrap(p, i) - wrap(c, i) = (p - c) + Modulus * (k1 - k2)
  <2>1. Modulus * (k1 - k2) = Modulus * k1 - Modulus * k2
        /\ Modulus * k1 \in Int /\ Modulus * k2 \in Int
    BY Distribute, ModulusType
  <2> QED
    BY <1>1, <1>2, <2>1
<1>4. p - c \in Int /\ k1 - k2 \in Int
  OBVIOUS
<1>5. ((p - c) + Modulus * (k1 - k2)) % Modulus = (p - c) % Modulus
  BY <1>4, ModShift, ModulusType
<1> QED
  BY <1>3, <1>5

\* The initial sequence number is the one of position 0.
LEMMA WrapZero ==
  ASSUME NEW i \in WrappingInt32
  PROVE  wrap(0, i) = i /\ i \in Int
<1>1. i \in 0 .. Modulus - 1 /\ i \in Int /\ 0 \in 0 .. Modulus - 1
  BY ModulusType DEF WrappingInt32
<1>2. 0 = Modulus * 0 + 0 /\ i = Modulus * 0 + i
  BY <1>1, ModulusType
<1>3. 0 % Modulus = 0
  BY <1>1, <1>2, ModUnique, ModulusType
<1>4. i % Modulus = i
  BY <1>1, <1>2, ModUnique, ModulusType
<1> QED
  BY <1>1, <1>3, <1>4 DEF wrap

\* The number before the one of position p + 1 is the one of position p.
LEMMA WrapBefore ==
  ASSUME NEW p \in Int, NEW i \in Int
  PROVE  (wrap(p + 1, i) - 1) % Modulus = wrap(p, i)
<1>1. PICK k1 \in Int : wrap(p + 1, i) = p + 1 + i + Modulus * k1
  BY WrapFacts
<1>2. PICK k2 \in Int : wrap(p, i) = p + i + Modulus * k2
  BY WrapFacts
<1>3. wrap(p, i) \in 0 .. Modulus - 1
  BY WrapFacts DEF WrappingInt32
<1>4. wrap(p + 1, i) - 1 = Modulus * (k1 - k2) + wrap(p, i)
  <2>1. Modulus * (k1 - k2) = Modulus * k1 - Modulus * k2
        /\ Modulus * k1 \in Int /\ Modulus * k2 \in Int
    BY Distribute, ModulusType
  <2> QED
    BY <1>1, <1>2, <2>1
<1>5. wrap(p + 1, i) - 1 \in Int /\ k1 - k2 \in Int
  BY <1>1, ModulusType
<1> DEFINE a == wrap(p + 1, i) - 1
           r == wrap(p, i)
<1> HIDE DEF a, r
<1> QED
  BY <1>3, <1>4, <1>5, ModUnique, ModulusType DEF a, r

\* From the checkpoint 0 unwrap returns the residue: never more than the position.
LEMMA UnwrapFromZero ==
  ASSUME NEW p \in Nat, NEW i \in Int
  PROVE  unwrap(wrap(p, i), i, 0) \in 0 .. p
<1> DEFINE offset == (wrap(p, i) - wrap(0, i)) % Modulus
<1>1. offset = p % Modulus
  <2>1. offset = (p - 0) % Modulus
    BY OffsetOfWrap
  <2> QED
    BY <2>1
<1>2. unwrap(wrap(p, i), i, 0) = IF offset < HalfRange \/ 0 < Modulus - offset
                                 THEN 0 + offset ELSE 0 - Modulus + offset
  BY DEF unwrap
<1> HIDE DEF offset
<1>3. offset \in 0 .. Modulus - 1
  BY <1>1, ModRange, ModulusType
<1>4. PICK q \in Int : p = Modulus * q + (p % Modulus)
  <2>1. p \in Int
    OBVIOUS
  <2> QED
    BY <2>1, ModSplit, ModulusType
<1>5. offset <= p
  <2>1. CASE q >= 0
    <3>1. Modulus * q >= 0 /\ Modulus * q \in Int
      BY <2>1, ModulusType
    <3> QED
      BY <1>1, <1>3, <1>4, <3>1, ModulusType
  <2>2. CASE q < 0
    <3>1. Modulus * q <= 0 - Modulus /\ Modulus * q \in Int
      BY <2>2, ModulusType
    <3> QED
      BY <1>1, <1>3, <1>4, <3>1, ModulusType
  <2> QED
    BY <2>1, <2>2
<1> QED
  BY <1>2, <1>3, <1>5, ModulusType

\* The number before the initial one is taken for a position far beyond the
\* window, not for one below the stream.
LEMMA UnwrapBeforeStream ==
  ASSUME NEW c \in Nat, c + 1 < HalfRange, NEW i \in Int
  PROVE  unwrap(wrap(-1, i), i, c) = Modulus - 1
<1> DEFINE offset == (wrap(-1, i) - wrap(c, i)) % Modulus
<1>1. offset = (-1 - c) % Modulus
  BY OffsetOfWrap
<1>2. -1 - c = Modulus * (0 - 1) + (Modulus - 1 - c) /\ -1 - c \in Int
      /\ Modulus - 1 - c \in 0 .. Modulus - 1
  BY ModulusType DEF Modulus
<1>3. (-1 - c) % Modulus = Modulus - 1 - c
  BY <1>2, ModUnique, ModulusType
<1>4. unwrap(wrap(-1, i), i, c) = IF offset < HalfRange \/ c < Modulus - offset
                                  THEN c + offset ELSE c - Modulus + offset
  BY DEF unwrap
<1> HIDE DEF offset
<1> QED
  BY <1>1, <1>3, <1>4, ModulusType

-----------------------------------------------------------------------------
(* The receiver as a value. *)

\* The values of the members of a TCPReceiver.
ReceiverType ==
  [reassembler : ReassemblerType, syn : BOOLEAN, isn : Int, checkp : Nat, ack : Int]

\* A segment was accepted and the end has not been reached.
Open(r, isn, capacity, top) ==
  /\ r.syn
  /\ ReassemblerOK(r.reassembler, capacity, top)
  /\ ~stream_out(r).end_flag
  /\ r.isn = isn
  /\ r.checkp = stream_out(r).write_count
  /\ r.ack = wrap(stream_out(r).write_count + 1, isn)

\* The end was reached: _syn and _checkp were reset, and a late SYN may have set
\* _syn again, which happens when it meets a full buffer.
Closed(r, isn, capacity, top) ==
  /\ Finished(r.reassembler, capacity, top)
  /\ r.isn = isn
  /\ r.checkp = 0
  /\ r.ack = wrap(stream_out(r).write_count + 2, isn)

\* The invariant of a receiver with this capacity, for a peer with this initial
\* sequence number and a stream of `top` bytes.
ReceiverOK(r, isn, capacity, top) ==
  /\ r \in ReceiverType
  /\ ~stream_out(r).error
  /\ \/ r = NewReceiver(capacity)
     \/ Open(r, isn, capacity, top)
     \/ Closed(r, isn, capacity, top)

\* The types of the members.
LEMMA ReceiverFields ==
  ASSUME NEW r \in ReceiverType
  PROVE  /\ r.reassembler \in ReassemblerType /\ r.syn \in BOOLEAN /\ r.isn \in Int
         /\ r.checkp \in Nat /\ r.ack \in Int
  BY DEF ReceiverType

\* A new receiver.
LEMMA NewReceiverFields ==
  ASSUME NEW capacity \in Nat, NEW top \in Nat, NEW r, r = NewReceiver(capacity)
  PROVE  /\ r \in ReceiverType /\ ~r.syn /\ r.checkp = 0 /\ r.ack = NoAckno
         /\ ReassemblerOK(r.reassembler, capacity, top)
         /\ stream_out(r).write_count = 0 /\ stream_out(r).read_count = 0
         /\ ~stream_out(r).end_flag /\ ~stream_out(r).error
<1> DEFINE a == NewReassembler(capacity)
<1>1. /\ ReassemblerOK(a, capacity, top)
      /\ a.output.write_count = 0 /\ a.output.read_count = 0
      /\ a.output.end_flag = FALSE /\ a.output.error = FALSE
  BY NewReassemblerOK DEF NewReassembler, NewByteStream
<1>2. a \in ReassemblerType
  BY <1>1 DEF ReassemblerOK, Loaded
<1> HIDE DEF a
<1>3. r = [reassembler |-> a, syn |-> FALSE, isn |-> 0, checkp |-> 0, ack |-> NoAckno]
  BY DEF NewReceiver, a
<1>4. NoAckno \in Int
  BY DEF NoAckno
<1>5. r \in ReceiverType /\ ~r.syn /\ r.checkp = 0 /\ r.ack = NoAckno /\ r.reassembler = a
  BY <1>2, <1>3, <1>4 DEF ReceiverType
<1> QED
  BY <1>1, <1>5 DEF stream_out

\* The window that is left ends at the limit of the reassembler.
LEMMA WindowFacts ==
  ASSUME NEW capacity \in Nat, NEW s, StreamOK(s, capacity)
  PROVE  /\ remaining_capacity(s) = s.read_count + capacity - s.write_count
         /\ remaining_capacity(s) \in 0 .. capacity
<1>1. /\ s.read_count \in Nat /\ s.write_count \in Nat /\ s.write_count - s.read_count \in Nat
      /\ Len(s.bts) = s.write_count - s.read_count
      /\ s.b_size = capacity /\ Len(s.bts) <= capacity
  BY StreamFacts DEF StreamOK
<1> QED
  BY <1>1 DEF remaining_capacity

\* The bytes of a segment, without SYN and FIN.
LEMMA PayloadLength ==
  ASSUME NEW seg, Len(seg.payload) \in Nat
  PROVE  length_in_sequence_space(seg) - Flag(seg.syn) - Flag(seg.fin) = Len(seg.payload)
<1>1. Flag(seg.syn) \in Nat /\ Flag(seg.fin) \in Nat
  BY DEF Flag
<1> QED
  BY <1>1 DEF length_in_sequence_space

\* The second half of segment_received (tcp_receiver.cc:32-46): the window test,
\* push_substring, and the acknowledgment.
Taken(o, index, data, fin, y) ==
  y = IF Acceptable(o, index, Len(data))
      THEN Acknowledge([o EXCEPT !.reassembler = push_substring(@, data, index, fin)])
      ELSE o

\* The first half with SYN (tcp_receiver.cc:13-20).
LEMMA WithSyn ==
  ASSUME NEW r, NEW seg, seg.syn, Len(seg.payload) \in Nat, ~r.syn,
         NEW o, o = OpenOnSyn(r, seg), o.syn
  PROVE  Taken(o, unwrap(seg.seqno, o.isn, o.checkp), seg.payload, seg.fin,
               segment_received(r, seg))
<1> DEFINE begin == IF seg.syn THEN seg.seqno ELSE (seg.seqno - 1) % Modulus
           index == unwrap(begin, o.isn, o.checkp)
           len == length_in_sequence_space(seg) - Flag(seg.syn) - Flag(seg.fin)
<1>1. segment_received(r, seg) =
        IF (seg.syn /\ r.syn) \/ ~o.syn THEN r
        ELSE IF Acceptable(o, index, len)
        THEN Acknowledge([o EXCEPT !.reassembler =
                            push_substring(@, seg.payload, index, seg.fin)])
        ELSE o
  BY DEF segment_received, Then
<1>2. len = Len(seg.payload)
  BY PayloadLength
<1>3. begin = seg.seqno
  OBVIOUS
<1> HIDE DEF begin, len
<1> QED
  BY <1>1, <1>2, <1>3 DEF Taken

\* An open receiver ignores SYN (tcp_receiver.cc:14-17).
LEMMA SecondSyn ==
  ASSUME NEW r, NEW seg, seg.syn, r.syn
  PROVE  segment_received(r, seg) = r
  BY DEF segment_received

\* The first half without SYN (tcp_receiver.cc:22-28).
LEMMA WithoutSyn ==
  ASSUME NEW r, NEW seg, ~seg.syn, Len(seg.payload) \in Nat
  PROVE  LET y == segment_received(r, seg)
         IN  IF r.syn
             THEN Taken(r, unwrap((seg.seqno - 1) % Modulus, r.isn, r.checkp),
                        seg.payload, seg.fin, y)
             ELSE y = r
  BY PayloadLength DEF segment_received, Then, OpenOnSyn, Taken

\* _checkp and ack after the reassembler became z.
Acknowledged(o, z, y) ==
  /\ y \in ReceiverType
  /\ y.reassembler = z
  /\ y.isn = o.isn
  /\ IF z.output.end_flag
     THEN y.ack = wrap(z.output.write_count + 2, o.isn) /\ y.checkp = 0
     ELSE /\ y.ack = wrap(z.output.write_count + 1, o.isn)
          /\ y.checkp = z.output.write_count /\ y.syn = o.syn

\* Acknowledge does that.
LEMMA AcknowledgeFacts ==
  ASSUME NEW o \in ReceiverType, NEW z \in ReassemblerType, z.output.write_count \in Nat,
         NEW y, y = Acknowledge([o EXCEPT !.reassembler = z])
  PROVE  Acknowledged(o, z, y)
<1> DEFINE p == [o EXCEPT !.reassembler = z]
           w == z.output.write_count
           a == wrap(w + 1, o.isn)
           b == wrap(w + 2, o.isn)
<1>1. p \in ReceiverType /\ p.reassembler = z /\ p.isn = o.isn /\ p.syn = o.syn
  BY DEF ReceiverType
<1>2. y = Acknowledge(p) /\ o.isn \in Int /\ w \in Nat
  BY <1>1, ReceiverFields
<1> HIDE DEF p
<1>3. stream_out(p).write_count = w /\ input_ended(stream_out(p)) = z.output.end_flag
  BY <1>1 DEF stream_out, input_ended
<1> HIDE DEF w
<1>4. a \in Int /\ b \in Int
  <2>1. w + 1 \in Int /\ w + 2 \in Int
    BY <1>2
  <2> QED
    BY <1>2, <2>1, WrapFacts, ModulusType DEF WrappingInt32
<1>5. y = IF z.output.end_flag THEN [p EXCEPT !.ack = b, !.syn = FALSE, !.checkp = 0]
          ELSE [p EXCEPT !.ack = a, !.checkp = w]
  BY <1>1, <1>2, <1>3 DEF Acknowledge
<1> HIDE DEF a, b
<1>6. CASE z.output.end_flag
  <2>1. y = [p EXCEPT !.ack = b, !.syn = FALSE, !.checkp = 0]
    BY <1>5, <1>6
  <2>2. /\ y \in ReceiverType /\ y.reassembler = p.reassembler /\ y.isn = p.isn
        /\ y.ack = b /\ y.checkp = 0
    <3> DEFINE no == FALSE
               zero == 0
    <3>0. no \in BOOLEAN /\ zero \in Nat /\ y = [p EXCEPT !.ack = b, !.syn = no, !.checkp = zero]
      BY <2>1
    <3> HIDE DEF no, zero
    <3>1. y \in ReceiverType
      BY <1>1, <1>4, <3>0 DEF ReceiverType
    <3>2. y.ack = b /\ y.checkp = 0
      BY <1>1, <2>1 DEF ReceiverType
    <3>3. y.reassembler = p.reassembler /\ y.isn = p.isn
      BY <1>1, <2>1 DEF ReceiverType
    <3> QED
      BY <3>1, <3>2, <3>3
  <2> QED
    BY <1>1, <1>6, <2>2 DEF Acknowledged, b, w
<1>7. CASE ~z.output.end_flag
  <2>1. y = [p EXCEPT !.ack = a, !.checkp = w]
    BY <1>5, <1>7
  <2>2. /\ y \in ReceiverType /\ y.reassembler = p.reassembler /\ y.isn = p.isn
        /\ y.ack = a /\ y.checkp = w /\ y.syn = p.syn
    BY <1>1, <1>2, <1>4, <2>1 DEF ReceiverType
  <2> QED
    BY <1>1, <1>7, <2>2 DEF Acknowledged, a, w
<1> QED
  BY <1>6, <1>7

\* r became y: the right edge of its window is where it was, or further.
Received(r, y, isn, capacity, top) ==
  /\ ReceiverOK(y, isn, capacity, top)
  /\ stream_out(y).read_count = stream_out(r).read_count
  /\ stream_out(y).write_count >= stream_out(r).write_count
  /\ stream_out(r).end_flag => stream_out(y).end_flag
  /\ r.ack # NoAckno => y.ack # NoAckno

\* An acknowledgment is a sequence number, not the empty optional.
LEMMA AcknoIsSet ==
  ASSUME NEW n \in Int, NEW isn \in Int
  PROVE  wrap(n, isn) # NoAckno
  BY WrapFacts, ModulusType DEF WrappingInt32, NoAckno

\* An acceptable segment before the end: its bytes are pushed and what is there is
\* acknowledged.
LEMMA AcceptOpen ==
  ASSUME NEW capacity \in Nat, NEW top \in Nat, NEW isn \in Int,
         NEW o \in ReceiverType, ~stream_out(o).error, o.syn, o.isn = isn,
         ~stream_out(o).end_flag,
         ReassemblerOK(o.reassembler, capacity, top),
         NEW index \in Nat, NEW len \in Nat, index + len <= top,
         index <= Limit(o.reassembler),
         NEW last \in BOOLEAN, last => index + len = top,
         NEW y, y = Acknowledge([o EXCEPT !.reassembler =
                                   push_substring(@, Bytes(index, len), index, last)])
  PROVE  Received(o, y, isn, capacity, top)
<1> DEFINE a == o.reassembler
           z == push_substring(a, Bytes(index, len), index, last)
<1>1. ReassemblerOK(a, capacity, top) /\ index <= Limit(a)
  OBVIOUS
<1> HIDE DEF a
<1>2. Pushed(a, z, index, len, last, capacity, top)
  BY <1>1, PushKeeps
<1>3. y = Acknowledge([o EXCEPT !.reassembler = z])
  BY DEF a
<1> HIDE DEF z
<1>4. /\ ReassemblerOK(z, capacity, top) /\ z.output.read_count = a.output.read_count
      /\ z.output.error = a.output.error /\ z.write_ptr >= a.write_ptr
  BY <1>2 DEF Pushed
<1>4a. z.output.write_count >= a.output.write_count
  BY <1>1, <1>4 DEF ReassemblerOK, Loaded
<1>5. z \in ReassemblerType /\ StreamOK(z.output, capacity)
  BY <1>4 DEF ReassemblerOK, Loaded
<1>6. z.output.write_count \in Nat
  BY <1>5, StreamFacts
<1>7. Acknowledged(o, z, y)
  BY <1>3, <1>5, <1>6, AcknowledgeFacts
<1>8. y \in ReceiverType /\ y.reassembler = z /\ y.isn = isn
  BY <1>7 DEF Acknowledged
<1>9. stream_out(y) = z.output /\ stream_out(o) = a.output
  BY <1>8 DEF stream_out, a
<1>10. Open(y, isn, capacity, top) \/ Closed(y, isn, capacity, top)
  <2>1. CASE z.output.end_flag
    <3>1. Finished(z, capacity, top)
      BY <1>4, <2>1, EndedIsFinished
    <3>2. y.ack = wrap(z.output.write_count + 2, isn) /\ y.checkp = 0
      BY <1>7, <2>1 DEF Acknowledged
    <3> QED
      BY <1>8, <1>9, <3>1, <3>2 DEF Closed
  <2>2. CASE ~z.output.end_flag
    <3>1. /\ y.ack = wrap(z.output.write_count + 1, isn)
          /\ y.checkp = z.output.write_count /\ y.syn = o.syn
      BY <1>7, <2>2 DEF Acknowledged
    <3> QED
      BY <1>4, <1>8, <1>9, <2>2, <3>1 DEF Open
  <2> QED
    BY <2>1, <2>2
<1>11. ReceiverOK(y, isn, capacity, top)
  BY <1>4, <1>8, <1>9, <1>10 DEF ReceiverOK
<1>12. y.ack # NoAckno
  <2> DEFINE w == z.output.write_count
  <2>1. y.ack = wrap(w + 1, isn) \/ y.ack = wrap(w + 2, isn)
    BY <1>9, <1>10 DEF Open, Closed
  <2>2. w + 1 \in Int /\ w + 2 \in Int
    BY <1>6
  <2> HIDE DEF w
  <2> QED
    BY <2>1, <2>2, AcknoIsSet
<1> QED
  BY <1>4, <1>4a, <1>9, <1>11, <1>12 DEF Received

\* An acceptable segment after the end: a late duplicate.
LEMMA AcceptClosed ==
  ASSUME NEW capacity \in Nat, NEW top \in Nat, NEW isn \in Int,
         NEW o \in ReceiverType, ~stream_out(o).error, o.isn = isn,
         Finished(o.reassembler, capacity, top),
         NEW index \in Nat, NEW data \in Seq(Nat), index + Len(data) <= top,
         NEW last \in BOOLEAN,
         NEW y, y = Acknowledge([o EXCEPT !.reassembler =
                                   push_substring(@, data, index, last)])
  PROVE  Received(o, y, isn, capacity, top)
<1> DEFINE a == o.reassembler
           z == push_substring(a, data, index, last)
<1>1. Finished(a, capacity, top)
  OBVIOUS
<1> HIDE DEF a
<1>2. Unmoved(a, z, capacity, top)
  BY <1>1, StalePush
<1>3. y = Acknowledge([o EXCEPT !.reassembler = z])
  BY DEF a
<1> HIDE DEF z
<1>4. /\ Finished(z, capacity, top) /\ z.output.read_count = a.output.read_count
      /\ z.output.error = a.output.error
  BY <1>2 DEF Unmoved
<1>5. z \in ReassemblerType /\ StreamOK(z.output, capacity) /\ z.output.end_flag
  BY <1>4 DEF Finished
<1>6. z.output.write_count \in Nat
  BY <1>5, StreamFacts
<1>7. Acknowledged(o, z, y)
  BY <1>3, <1>5, <1>6, AcknowledgeFacts
<1>8. /\ y \in ReceiverType /\ y.reassembler = z /\ y.isn = isn
      /\ y.ack = wrap(z.output.write_count + 2, isn) /\ y.checkp = 0
  BY <1>5, <1>7 DEF Acknowledged
<1>8a. z.output.write_count >= a.output.write_count
  <2>1. z.output.write_count = top /\ a.output.write_count = top
    BY <1>1, <1>4 DEF Finished
  <2> QED
    BY <2>1
<1>9. stream_out(y) = z.output /\ stream_out(o) = a.output
  BY <1>8 DEF stream_out, a
<1>10. ReceiverOK(y, isn, capacity, top)
  BY <1>4, <1>8, <1>9 DEF ReceiverOK, Closed
<1>11. y.ack # NoAckno
  <2> DEFINE w == z.output.write_count
  <2>1. y.ack = wrap(w + 2, isn) /\ w + 2 \in Int
    BY <1>6, <1>8
  <2> HIDE DEF w
  <2> QED
    BY <2>1, AcknoIsSet
<1> QED
  BY <1>4, <1>5, <1>8a, <1>9, <1>10, <1>11 DEF Received

\* A segment that segment_received ignores.
LEMMA Ignored ==
  ASSUME NEW isn, NEW capacity, NEW top, NEW r, ReceiverOK(r, isn, capacity, top)
  PROVE  Received(r, r, isn, capacity, top)
<1>1. stream_out(r) \in ByteStreamType(Nat)
  BY ReceiverFields, ReassemblerFields DEF ReceiverOK, stream_out
<1>2. stream_out(r).write_count \in Nat
  BY <1>1 DEF ByteStreamType
<1> QED
  BY <1>2 DEF Received

\* o is r after SYN was seen.
Opened(r, o, isn) ==
  /\ o \in ReceiverType /\ o.syn /\ o.isn = isn
  /\ o.reassembler = r.reassembler /\ o.checkp = r.checkp /\ o.ack = r.ack

\* OpenOnSyn does that.
LEMMA OpenFacts ==
  ASSUME NEW isn \in Int, NEW r \in ReceiverType, NEW seg, seg.syn, seg.seqno = isn
  PROVE  Opened(r, OpenOnSyn(r, seg), isn)
<1> DEFINE yes == TRUE
           o == [r EXCEPT !.syn = yes, !.isn = isn]
<1>1. yes \in BOOLEAN /\ yes
  OBVIOUS
<1>2. OpenOnSyn(r, seg) = o
  BY DEF OpenOnSyn
<1> HIDE DEF yes
<1>3. o \in ReceiverType
  BY <1>1 DEF ReceiverType
<1>4. o.syn = yes /\ o.isn = isn
  BY DEF ReceiverType
<1>5. o.reassembler = r.reassembler /\ o.checkp = r.checkp /\ o.ack = r.ack
  BY DEF ReceiverType
<1> HIDE DEF o
<1> QED
  BY <1>1, <1>2, <1>3, <1>4, <1>5 DEF Opened

\* r became y by a segment with SYN: its bytes are those from index 0.
SynTaken(r, isn, len, fin, y) ==
  \E o : /\ Opened(r, o, isn)
         /\ y = IF 0 < window_size(r)
                THEN Acknowledge([o EXCEPT !.reassembler =
                                    push_substring(@, Bytes(0, len), 0, fin)])
                ELSE o

\* What a segment with SYN does to a receiver that is not open.
LEMMA SynBranches ==
  ASSUME NEW isn \in WrappingInt32, NEW len \in Nat, NEW fin \in BOOLEAN,
         NEW r \in ReceiverType, ~r.syn, r.checkp = 0, window_size(r) \in Nat,
         NEW y, y = segment_received(r, Segment(TRUE, fin, isn, Bytes(0, len)))
  PROVE  SynTaken(r, isn, len, fin, y)
<1> DEFINE data == Bytes(0, len)
           seg == Segment(TRUE, fin, isn, data)
           o == OpenOnSyn(r, seg)
           index == unwrap(isn, isn, o.checkp)
<1>1. wrap(0, isn) = isn /\ isn \in Int
  BY WrapZero
<1>2. Len(data) = len
  BY BytesFacts
<1> HIDE DEF data
<1>3. seg.syn = TRUE /\ seg.fin = fin /\ seg.seqno = isn /\ seg.payload = data
  BY DEF Segment
<1>4. y = segment_received(r, seg)
  BY DEF data
<1> HIDE DEF seg
<1>5. Opened(r, o, isn)
  BY <1>1, <1>3, OpenFacts
<1>6. Taken(o, index, data, fin, y)
  <2>1. seg.syn /\ o.syn /\ o.isn = isn /\ Len(seg.payload) \in Nat
    BY <1>2, <1>3, <1>5 DEF Opened
  <2>2. Taken(o, unwrap(seg.seqno, o.isn, o.checkp), seg.payload, seg.fin, y)
    BY <1>4, <2>1, WithSyn
  <2> QED
    BY <1>3, <2>1, <2>2
<1> HIDE DEF o, index
<1>7. index = 0
  <2>1. 0 \in Nat /\ 0 - HalfRange <= 0 /\ 0 < 0 + HalfRange
    BY ModulusType
  <2>2. unwrap(wrap(0, isn), isn, 0) = 0
    BY <1>1, <2>1, UnwrapOfWrap
  <2> QED
    BY <1>1, <1>5, <2>2 DEF index, Opened
<1>8. Acceptable(o, index, Len(data)) <=> 0 < window_size(r)
  <2>1. o.checkp = 0 /\ window_size(o) = window_size(r)
    BY <1>5 DEF Opened, window_size, stream_out
  <2> QED
    BY <1>2, <1>7, <2>1 DEF Acceptable
<1>9. y = IF 0 < window_size(r)
          THEN Acknowledge([o EXCEPT !.reassembler = push_substring(@, data, 0, fin)])
          ELSE o
  BY <1>6, <1>7, <1>8 DEF Taken
<1> QED
  BY <1>5, <1>9 DEF SynTaken, data

\* r became y by a segment without SYN.
DataTaken(r, p, isn, data, fin, y) ==
  IF r.syn THEN Taken(r, unwrap(wrap(p, isn), isn, r.checkp), data, fin, y) ELSE y = r

\* What a segment without SYN does, given the position of its first byte.
LEMMA DataBranches ==
  ASSUME NEW p \in Int, NEW isn \in Int, NEW data \in Seq(Nat), NEW fin \in BOOLEAN,
         NEW r, r.isn = isn
  PROVE  DataTaken(r, p, isn, data, fin,
                   segment_received(r, Segment(FALSE, fin, wrap(p + 1, isn), data)))
<1> DEFINE seqno == wrap(p + 1, isn)
           index == unwrap(wrap(p, isn), isn, r.checkp)
           seg == Segment(FALSE, fin, seqno, data)
<1>1. seg.syn = FALSE /\ seg.fin = fin /\ seg.seqno = seqno /\ seg.payload = data
  BY DEF Segment
<1>2. index = unwrap((seg.seqno - 1) % Modulus, r.isn, r.checkp)
  BY <1>1, WrapBefore
<1> HIDE DEF seg
<1>3. Len(seg.payload) \in Nat
  BY <1>1
<1> QED
  BY <1>1, <1>2, <1>3, WithoutSyn DEF seg, DataTaken

\* The output in every phase.
LEMMA ReceiverFacts ==
  ASSUME NEW capacity \in Nat, NEW top \in Nat, NEW isn, NEW r,
         ReceiverOK(r, isn, capacity, top)
  PROVE  /\ StreamOK(stream_out(r), capacity)
         /\ stream_out(r).write_count \in Nat /\ stream_out(r).read_count \in Nat
         /\ window_size(r) = stream_out(r).read_count + capacity - stream_out(r).write_count
         /\ window_size(r) \in 0 .. capacity
<1>1. StreamOK(stream_out(r), capacity)
  <2>1. CASE r = NewReceiver(capacity)
    BY <2>1, NewReceiverFields DEF stream_out, ReassemblerOK, Loaded
  <2>2. CASE Open(r, isn, capacity, top)
    BY <2>2 DEF Open, stream_out, ReassemblerOK, Loaded
  <2>3. CASE Closed(r, isn, capacity, top)
    BY <2>3 DEF Closed, stream_out, Finished
  <2> QED
    BY <2>1, <2>2, <2>3 DEF ReceiverOK
<1> DEFINE s == stream_out(r)
<1>2. window_size(r) = remaining_capacity(s)
  BY DEF window_size
<1> HIDE DEF s
<1>3. StreamOK(s, capacity)
  BY <1>1 DEF s
<1>4. /\ s.write_count \in Nat /\ s.read_count \in Nat
      /\ remaining_capacity(s) = s.read_count + capacity - s.write_count
      /\ remaining_capacity(s) \in 0 .. capacity
  BY <1>3, StreamFacts, WindowFacts
<1> QED
  BY <1>1, <1>2, <1>4 DEF s

\* What a receiver tells its peer and its application: nothing before SYN, then
\* the number after the last one written, FIN included.
Tells(r, isn, top) ==
  /\ stream_out(r).write_count <= top
  /\ stream_out(r).end_flag => stream_out(r).write_count = top
  /\ IF r.ack = NoAckno
     THEN stream_out(r).write_count = 0 /\ ~stream_out(r).end_flag
     ELSE r.ack = wrap(1 + stream_out(r).write_count + Flag(stream_out(r).end_flag), isn)

\* That is so in every phase.
LEMMA ReceiverTells ==
  ASSUME NEW capacity \in Nat, NEW top \in Nat, NEW isn \in Int, NEW r,
         ReceiverOK(r, isn, capacity, top)
  PROVE  Tells(r, isn, top)
<1> DEFINE w == stream_out(r).write_count
<1>1. w \in Nat
  BY ReceiverFacts
<1>2. CASE r = NewReceiver(capacity)
  BY <1>2, NewReceiverFields DEF Tells
<1>3. CASE Open(r, isn, capacity, top)
  <2>1. ~stream_out(r).end_flag /\ r.ack = wrap(w + 1, isn) /\ w <= top
    BY <1>3 DEF Open, ReassemblerOK, Loaded, stream_out
  <2>2. w + 1 \in Int /\ w + 1 = 1 + w + Flag(stream_out(r).end_flag)
    BY <1>1, <2>1 DEF Flag
  <2> HIDE DEF w
  <2>3. r.ack # NoAckno
    BY <2>1, <2>2, AcknoIsSet
  <2> QED
    BY <2>1, <2>2, <2>3 DEF Tells, w
<1>4. CASE Closed(r, isn, capacity, top)
  <2>1. stream_out(r).end_flag /\ r.ack = wrap(w + 2, isn) /\ w = top
    BY <1>4 DEF Closed, Finished, stream_out
  <2>2. w + 2 \in Int /\ w + 2 = 1 + w + Flag(stream_out(r).end_flag)
    BY <1>1, <2>1 DEF Flag
  <2> HIDE DEF w
  <2>3. r.ack # NoAckno /\ w <= top
    BY <1>1, <2>1, <2>2, AcknoIsSet
  <2> QED
    BY <2>1, <2>2, <2>3 DEF Tells, w
<1> QED
  BY <1>2, <1>3, <1>4 DEF ReceiverOK

\* SYN, possibly with data and FIN.
LEMMA SynReceived ==
  ASSUME NEW capacity \in Nat, capacity > 0, NEW top \in Nat, NEW isn \in WrappingInt32,
         NEW r, ReceiverOK(r, isn, capacity, top),
         NEW len \in Nat, len <= top, NEW fin \in BOOLEAN, fin => len = top,
         NEW y, y = segment_received(r, Segment(TRUE, fin, isn, Bytes(0, len)))
  PROVE  Received(r, y, isn, capacity, top)
<1>1. r \in ReceiverType /\ window_size(r) \in Nat /\ isn \in Int /\ ~stream_out(r).error
  BY ReceiverFacts, WrapZero DEF ReceiverOK
<1>2. CASE r.syn
  <2>1. Segment(TRUE, fin, isn, Bytes(0, len)).syn
    BY DEF Segment
  <2>2. y = r
    BY <1>2, <2>1, SecondSyn
  <2> QED
    BY <2>2, Ignored
<1>3. CASE ~r.syn
  <2>1. r = NewReceiver(capacity) \/ Closed(r, isn, capacity, top)
    BY <1>3 DEF ReceiverOK, Open
  <2>2. r.checkp = 0
    BY <2>1, NewReceiverFields DEF Closed
  <2>3. PICK o : /\ Opened(r, o, isn)
                 /\ y = IF 0 < window_size(r)
                        THEN Acknowledge([o EXCEPT !.reassembler =
                                            push_substring(@, Bytes(0, len), 0, fin)])
                        ELSE o
    <3>1. SynTaken(r, isn, len, fin, y)
      BY <1>1, <1>3, <2>2, SynBranches
    <3> QED
      BY <3>1 DEF SynTaken
  <2>4. /\ o \in ReceiverType /\ o.syn /\ o.isn = isn
        /\ o.reassembler = r.reassembler /\ o.checkp = r.checkp /\ o.ack = r.ack
        /\ stream_out(o) = stream_out(r)
    BY <2>3 DEF Opened, stream_out
  <2>5. ASSUME Received(o, y, isn, capacity, top) PROVE Received(r, y, isn, capacity, top)
    BY <2>4, <2>5 DEF Received
  <2>6. CASE r = NewReceiver(capacity)
    <3>1. /\ ReassemblerOK(o.reassembler, capacity, top)
          /\ ~stream_out(o).end_flag /\ ~stream_out(o).error
          /\ stream_out(r).write_count = 0 /\ stream_out(r).read_count = 0
      BY <2>4, <2>6, NewReceiverFields
    <3>2. 0 < window_size(r)
      BY <3>1, ReceiverFacts
    <3>3. y = Acknowledge([o EXCEPT !.reassembler = push_substring(@, Bytes(0, len), 0, fin)])
      BY <2>3, <3>2
    <3>4. 0 <= Limit(o.reassembler) /\ 0 + len <= top /\ (fin => 0 + len = top) /\ 0 \in Nat
      <4>1. o.reassembler.output.read_count = 0 /\ o.reassembler.capacity = capacity
        BY <2>4, <3>1 DEF stream_out, ReassemblerOK, Loaded
      <4> QED
        BY <4>1 DEF Limit
    <3>5. Received(o, y, isn, capacity, top)
      BY <1>1, <2>4, <3>1, <3>3, <3>4, AcceptOpen
    <3> QED
      BY <2>5, <3>5
  <2>7. CASE Closed(r, isn, capacity, top)
    <3>1. Finished(o.reassembler, capacity, top) /\ ~stream_out(o).error
      BY <1>1, <2>4, <2>7 DEF Closed
    <3>2. CASE 0 < window_size(r)
      <4> DEFINE data == Bytes(0, len)
      <4>1. y = Acknowledge([o EXCEPT !.reassembler = push_substring(@, data, 0, fin)])
        BY <2>3, <3>2
      <4>2. data \in Seq(Nat) /\ 0 + Len(data) <= top /\ 0 \in Nat
        <5>1. data \in Seq(Nat) /\ Len(data) = len
          BY BytesFacts
        <5> QED
          BY <5>1
      <4> HIDE DEF data
      <4>3. Received(o, y, isn, capacity, top)
        BY <1>1, <2>4, <3>1, <4>1, <4>2, AcceptClosed
      <4> QED
        BY <2>5, <4>3
    <3>3. CASE ~(0 < window_size(r))
      <4>1. y = o
        BY <2>3, <3>3
      <4>2. Closed(o, isn, capacity, top)
        BY <2>4, <2>7 DEF Closed
      <4>3. ReceiverOK(o, isn, capacity, top)
        BY <2>4, <3>1, <4>2 DEF ReceiverOK
      <4> QED
        BY <2>5, <4>1, <4>3, Ignored
    <3> QED
      BY <3>2, <3>3
  <2> QED
    BY <2>1, <2>6, <2>7
<1> QED
  BY <1>2, <1>3

\* A segment without SYN.
LEMMA DataReceived ==
  ASSUME NEW capacity \in Nat, NEW top \in Nat, NEW isn \in Int,
         NEW r, ReceiverOK(r, isn, capacity, top),
         NEW index \in Nat, NEW len \in Nat, index + len <= top,
         NEW fin \in BOOLEAN, fin => index + len = top,
         index < stream_out(r).write_count + HalfRange,
         stream_out(r).write_count <= index + HalfRange,
         NEW y, y = segment_received(r, Segment(FALSE, fin, wrap(index + 1, isn),
                                                Bytes(index, len)))
  PROVE  Received(r, y, isn, capacity, top)
<1> DEFINE data == Bytes(index, len)
           seqno == wrap(index + 1, isn)
           seg == Segment(FALSE, fin, seqno, data)
           i == unwrap(wrap(index, isn), isn, r.checkp)
<1>1. r \in ReceiverType /\ ~stream_out(r).error
  BY DEF ReceiverOK
<1>2. data \in Seq(Nat) /\ Len(data) = len
  BY BytesFacts
<1>3. y = segment_received(r, seg)
  OBVIOUS
<1> HIDE DEF data
<1>4. ASSUME r.isn = isn PROVE IF r.syn THEN Taken(r, i, data, fin, y) ELSE y = r
  <2>1. index \in Int
    OBVIOUS
  <2>2. DataTaken(r, index, isn, data, fin, segment_received(r, seg))
    BY <1>2, <1>4, <2>1, DataBranches
  <2>3. DataTaken(r, index, isn, data, fin, y)
    BY <1>3, <2>2
  <2> QED
    BY <2>3 DEF DataTaken
<1>5. CASE r = NewReceiver(capacity)
  <2>1. ~r.syn
    BY <1>5, NewReceiverFields
  <2>2. ~seg.syn /\ seg.payload = data
    BY DEF Segment
  <2> HIDE DEF seg
  <2>3. Len(seg.payload) \in Nat
    BY <1>2, <2>2
  <2>4. y = r
    BY <1>3, <2>1, <2>2, <2>3, WithoutSyn
  <2> QED
    BY <2>4, Ignored
<1>6. CASE Open(r, isn, capacity, top)
  <2> DEFINE w == stream_out(r).write_count
  <2>1. r.syn /\ r.isn = isn /\ r.checkp = w /\ ~stream_out(r).end_flag
        /\ ReassemblerOK(r.reassembler, capacity, top)
    BY <1>6 DEF Open
  <2>2. i = index
    <3>1. w \in Nat /\ w - HalfRange <= index /\ index < w + HalfRange
      BY ReceiverFacts, ModulusType
    <3> HIDE DEF w
    <3> QED
      BY <2>1, <3>1, UnwrapOfWrap
  <2>3. Taken(r, index, data, fin, y)
    BY <1>4, <2>1, <2>2
  <2>4. CASE Acceptable(r, index, Len(data))
    <3>1. y = Acknowledge([r EXCEPT !.reassembler = push_substring(@, data, index, fin)])
      BY <2>3, <2>4 DEF Taken
    <3>2. index <= Limit(r.reassembler)
      <4>1. index < w + window_size(r) /\ w \in Nat
        BY <2>1, <2>4, ReceiverFacts DEF Acceptable
      <4>2. window_size(r) = stream_out(r).read_count + capacity - w
            /\ stream_out(r).read_count \in Nat
        BY ReceiverFacts
      <4>3. Limit(r.reassembler) = stream_out(r).read_count + capacity
        BY <2>1 DEF Limit, stream_out, ReassemblerOK, Loaded
      <4> HIDE DEF w
      <4> QED
        BY <4>1, <4>2, <4>3
    <3> QED
      BY <1>1, <2>1, <3>1, <3>2, AcceptOpen DEF data
  <2>5. CASE ~Acceptable(r, index, Len(data))
    BY <2>3, <2>5, Ignored DEF Taken
  <2> QED
    BY <2>4, <2>5
<1>7. CASE Closed(r, isn, capacity, top)
  <2>1. r.isn = isn /\ r.checkp = 0 /\ Finished(r.reassembler, capacity, top)
    BY <1>7 DEF Closed
  <2>2. i \in Nat /\ i <= index
    <3>1. unwrap(wrap(index, isn), isn, 0) \in 0 .. index
      BY UnwrapFromZero
    <3> QED
      BY <2>1, <3>1
  <2> HIDE DEF i
  <2>3. CASE r.syn /\ Acceptable(r, i, Len(data))
    <3>1. y = Acknowledge([r EXCEPT !.reassembler = push_substring(@, data, i, fin)])
      BY <1>4, <2>1, <2>3 DEF Taken
    <3>2. i + Len(data) <= top
      BY <1>2, <2>2
    <3> QED
      BY <1>1, <1>2, <2>1, <2>2, <3>1, <3>2, AcceptClosed
  <2>4. CASE ~(r.syn /\ Acceptable(r, i, Len(data)))
    BY <1>4, <2>1, <2>4, Ignored DEF Taken
  <2> QED
    BY <2>3, <2>4
<1> QED
  BY <1>5, <1>6, <1>7 DEF ReceiverOK

\* A byte with the SYN's own sequence number is beyond the window.
LEMMA StrayReceived ==
  ASSUME NEW capacity \in Nat, capacity < HalfRange, NEW top \in Nat,
         NEW isn \in WrappingInt32, NEW r, ReceiverOK(r, isn, capacity, top),
         stream_out(r).write_count + 1 < HalfRange, NEW data \in Seq(Nat),
         NEW y, y = segment_received(r, Segment(FALSE, FALSE, isn, data))
  PROVE  Received(r, y, isn, capacity, top)
<1> DEFINE w == stream_out(r).write_count
           i == unwrap(wrap(-1, isn), isn, r.checkp)
<1>1. /\ w \in Nat /\ w + 1 < HalfRange /\ window_size(r) \in Nat
      /\ window_size(r) <= capacity
  BY ReceiverFacts
<1>2. wrap(0, isn) = isn /\ isn \in Int
  BY WrapZero
<1>3. CASE r = NewReceiver(capacity)
  <2> DEFINE seg == Segment(FALSE, FALSE, isn, data)
  <2>1. ~r.syn
    BY <1>3, NewReceiverFields
  <2>2. ~seg.syn /\ seg.payload = data
    BY DEF Segment
  <2>3. y = segment_received(r, seg)
    OBVIOUS
  <2> HIDE DEF seg
  <2>4. Len(seg.payload) \in Nat
    BY <2>2
  <2>5. y = r
    BY <2>1, <2>2, <2>3, <2>4, WithoutSyn
  <2> QED
    BY <2>5, Ignored
<1>4. CASE r.isn = isn /\ (r.checkp = w \/ r.checkp = 0)
  <2>1. DataTaken(r, -1, isn, data, FALSE, y)
    <3> DEFINE p == -1
    <3>1. p \in Int /\ p + 1 = 0 /\ FALSE \in BOOLEAN
      OBVIOUS
    <3>2. y = segment_received(r, Segment(FALSE, FALSE, wrap(p + 1, isn), data))
      BY <1>2, <3>1
    <3> HIDE DEF p
    <3>3. DataTaken(r, p, isn, data, FALSE, y)
      BY <1>2, <1>4, <3>1, <3>2, DataBranches
    <3> QED
      BY <3>3 DEF p
  <2>2. r.checkp \in Nat /\ r.checkp + 1 < HalfRange
    BY <1>1, <1>4, ModulusType
  <2> DEFINE c == r.checkp
  <2> HIDE DEF c, w
  <2>3. c \in Nat /\ c + 1 < HalfRange
    BY <2>2 DEF c
  <2>4. i = Modulus - 1
    BY <1>2, <2>3, UnwrapBeforeStream DEF c
  <2> HIDE DEF i
  <2>5. ~(i < c + window_size(r))
    BY <1>1, <2>3, <2>4, ModulusType DEF Modulus
  <2>6. ~Acceptable(r, i, Len(data))
    BY <2>5 DEF Acceptable, c
  <2>7. y = r
    BY <2>1, <2>6 DEF DataTaken, Taken, i
  <2> QED
    BY <2>7, Ignored
<1> QED
  BY <1>3, <1>4 DEF ReceiverOK, Open, Closed

\* y is r after the application read n bytes.
ReadBy(r, y, n, isn, capacity, top) ==
  /\ ReceiverOK(y, isn, capacity, top)
  /\ stream_out(y).read_count = stream_out(r).read_count + n
  /\ stream_out(y).write_count = stream_out(r).write_count
  /\ stream_out(y).end_flag = stream_out(r).end_flag
  /\ y.ack = r.ack

\* The application reads.
LEMMA ReceiverRead ==
  ASSUME NEW capacity \in Nat, NEW top \in Nat, NEW isn \in Int,
         NEW r, ReceiverOK(r, isn, capacity, top),
         NEW n \in Nat, n > 0, n <= buffer_size(stream_out(r)),
         NEW y, y = [r EXCEPT !.reassembler.output = after_read(@, n)]
  PROVE  ReadBy(r, y, n, isn, capacity, top)
<1> DEFINE a == r.reassembler
           z == [a EXCEPT !.output = after_read(a.output, n)]
<1>1. r \in ReceiverType /\ ~a.output.error /\ n <= buffer_size(a.output)
  BY DEF ReceiverOK, stream_out
<1>2. r # NewReceiver(capacity)
  <2>1. ASSUME r = NewReceiver(capacity) PROVE FALSE
    <3>1. buffer_size(stream_out(r)) = 0
      BY <2>1, NewReceiverFields, ReceiverFacts, StreamFacts
    <3> QED
      BY <3>1
  <2> QED
    BY <2>1
<1>3. y = [r EXCEPT !.reassembler = z]
  BY <1>1 DEF ReceiverType, ReassemblerType
<1> HIDE DEF a
<1>4. CASE Open(r, isn, capacity, top)
  <2>1. /\ r.syn /\ ReassemblerOK(a, capacity, top) /\ ~a.output.end_flag
        /\ r.isn = isn /\ r.checkp = a.output.write_count
        /\ r.ack = wrap(a.output.write_count + 1, isn)
    BY <1>4 DEF Open, stream_out, a
  <2>2. ReadFrom(a, z, n, capacity, top)
    BY <1>1, <2>1, ReassemblerReadKeeps
  <2> HIDE DEF z
  <2>3. /\ ReassemblerOK(z, capacity, top)
        /\ z.output.read_count = a.output.read_count + n
        /\ z.output.write_count = a.output.write_count
        /\ z.output.end_flag = a.output.end_flag /\ z.output.error = a.output.error
    BY <2>2 DEF ReadFrom
  <2>4. z \in ReassemblerType
    BY <2>3 DEF ReassemblerOK, Loaded
  <2>5. /\ y \in ReceiverType /\ y.reassembler = z /\ y.isn = r.isn /\ y.syn = r.syn
        /\ y.checkp = r.checkp /\ y.ack = r.ack
    BY <1>1, <1>3, <2>4 DEF ReceiverType
  <2>6. stream_out(y) = z.output /\ stream_out(r) = a.output
    BY <2>5 DEF stream_out, a
  <2>7. Open(y, isn, capacity, top)
    BY <2>1, <2>3, <2>5, <2>6 DEF Open
  <2>8. ReceiverOK(y, isn, capacity, top)
    BY <1>1, <2>3, <2>5, <2>6, <2>7 DEF ReceiverOK
  <2> QED
    BY <2>3, <2>5, <2>6, <2>8 DEF ReadBy
<1>5. CASE Closed(r, isn, capacity, top)
  <2>1. /\ Finished(a, capacity, top) /\ r.isn = isn /\ r.checkp = 0
        /\ r.ack = wrap(a.output.write_count + 2, isn)
    BY <1>5 DEF Closed, stream_out, a
  <2>2. StaleReadFrom(a, z, n, capacity, top)
    BY <1>1, <2>1, StaleRead
  <2> HIDE DEF z
  <2>3. /\ Finished(z, capacity, top)
        /\ z.output.read_count = a.output.read_count + n
        /\ z.output.error = a.output.error
    BY <2>2 DEF StaleReadFrom
  <2>4. /\ z \in ReassemblerType /\ z.output.write_count = a.output.write_count
        /\ z.output.end_flag = a.output.end_flag
    <3>1. z.output.end_flag /\ a.output.end_flag
          /\ StreamOK(z.output, capacity) /\ StreamOK(a.output, capacity)
      BY <2>1, <2>3 DEF Finished
    <3>2. z.output.end_flag \in BOOLEAN /\ a.output.end_flag \in BOOLEAN
      BY <3>1, StreamFacts
    <3> QED
      BY <2>1, <2>3, <3>1, <3>2 DEF Finished
  <2>5. /\ y \in ReceiverType /\ y.reassembler = z /\ y.isn = r.isn
        /\ y.checkp = r.checkp /\ y.ack = r.ack
    BY <1>1, <1>3, <2>4 DEF ReceiverType
  <2>6. stream_out(y) = z.output /\ stream_out(r) = a.output
    BY <2>5 DEF stream_out, a
  <2>7. Closed(y, isn, capacity, top)
    BY <2>1, <2>3, <2>4, <2>5, <2>6 DEF Closed
  <2>8. ReceiverOK(y, isn, capacity, top)
    BY <1>1, <2>3, <2>5, <2>6, <2>7 DEF ReceiverOK
  <2> QED
    BY <2>3, <2>4, <2>5, <2>6, <2>8 DEF ReadBy
<1> QED
  BY <1>2, <1>4, <1>5 DEF ReceiverOK

-----------------------------------------------------------------------------
(* A receiver as one end of a connection whose stream is still being written. *)

\* r is right for a peer that has sent `sent` bytes so far, and FIN if fin: it is
\* right for every stream that begins with them, or for the one that ends there.
Serves(r, isn, capacity, sent, fin) ==
  \A top \in Nat : top >= sent /\ (fin => top = sent) => ReceiverOK(r, isn, capacity, top)

\* A new receiver.
LEMMA NewServes ==
  ASSUME NEW capacity \in Nat, NEW isn, NEW sent, NEW fin
  PROVE  Serves(NewReceiver(capacity), isn, capacity, sent, fin)
<1> DEFINE r == NewReceiver(capacity)
<1>1. SUFFICES ASSUME NEW top \in Nat PROVE ReceiverOK(r, isn, capacity, top)
  BY DEF Serves
<1>2. r \in ReceiverType /\ ~stream_out(r).error
  BY NewReceiverFields
<1> QED
  BY <1>2 DEF ReceiverOK

\* The peer sends more, or FIN.
LEMMA ServesMore ==
  ASSUME NEW capacity, NEW isn, NEW r, NEW sent \in Nat, NEW fin \in BOOLEAN,
         Serves(r, isn, capacity, sent, fin),
         NEW sent2 \in Nat, NEW fin2 \in BOOLEAN, sent <= sent2,
         fin => fin2 /\ sent2 = sent
  PROVE  Serves(r, isn, capacity, sent2, fin2)
<1>1. SUFFICES ASSUME NEW top \in Nat, top >= sent2, fin2 => top = sent2
               PROVE  ReceiverOK(r, isn, capacity, top)
  BY DEF Serves
<1>2. top >= sent /\ (fin => top = sent)
  BY <1>1
<1> QED
  BY <1>2 DEF Serves

\* What such a receiver tells: no byte that was not sent, and the end only when the
\* peer has sent FIN.
Reports(r, isn, capacity, sent, fin) ==
  /\ StreamOK(stream_out(r), capacity)
  /\ stream_out(r).write_count \in Nat /\ stream_out(r).read_count \in Nat
  /\ stream_out(r).end_flag \in BOOLEAN
  /\ window_size(r) \in 0 .. capacity
  /\ Tells(r, isn, sent)
  /\ stream_out(r).end_flag => fin

\* That is so.
LEMMA ServesFacts ==
  ASSUME NEW capacity \in Nat, NEW isn \in Int, NEW r, NEW sent \in Nat, NEW fin \in BOOLEAN,
         Serves(r, isn, capacity, sent, fin)
  PROVE  Reports(r, isn, capacity, sent, fin)
<1>1. ReceiverOK(r, isn, capacity, sent)
  BY DEF Serves
<1>2. /\ StreamOK(stream_out(r), capacity)
      /\ stream_out(r).write_count \in Nat /\ stream_out(r).read_count \in Nat
      /\ window_size(r) \in 0 .. capacity /\ Tells(r, isn, sent)
  BY <1>1, ReceiverFacts, ReceiverTells
<1>3. stream_out(r).end_flag \in BOOLEAN
  BY <1>2, StreamFacts
<1>4. ASSUME stream_out(r).end_flag, ~fin PROVE FALSE
  <2>1. sent + 1 \in Nat /\ sent + 1 >= sent
    OBVIOUS
  <2>2. ReceiverOK(r, isn, capacity, sent + 1)
    BY <1>4, <2>1 DEF Serves
  <2>3. Tells(r, isn, sent + 1)
    BY <2>1, <2>2, ReceiverTells
  <2>4. stream_out(r).write_count = sent + 1 /\ stream_out(r).write_count = sent
    BY <1>2, <1>4, <2>3 DEF Tells
  <2> QED
    BY <2>4
<1> QED
  BY <1>2, <1>3, <1>4 DEF Reports

\* The segment seg begins at the number `first` of a stream of which `sent` bytes
\* have been sent so far, and FIN if fin.
Belongs(seg, first, isn, sent, fin) ==
  /\ seg = Segment(seg.syn, seg.fin, seg.seqno, seg.payload)
  /\ first \in Nat /\ seg.syn = (first = 0) /\ seg.fin \in BOOLEAN
  /\ seg.seqno = wrap(first, isn)
  /\ Len(seg.payload) \in Nat
  /\ seg.payload = Bytes(first + Flag(seg.syn) - 1, Len(seg.payload))
  /\ first + Flag(seg.syn) + Len(seg.payload) <= 1 + sent
  /\ seg.fin => fin /\ first + Flag(seg.syn) + Len(seg.payload) = 1 + sent

\* r became y when a segment arrived.
Served(r, y, isn, capacity, sent, fin) ==
  /\ Serves(y, isn, capacity, sent, fin)
  /\ stream_out(y).read_count = stream_out(r).read_count
  /\ stream_out(y).write_count >= stream_out(r).write_count
  /\ stream_out(r).end_flag => stream_out(y).end_flag
  /\ r.ack # NoAckno => y.ack # NoAckno

\* A segment of the peer arrives, in any order and any number of times.
LEMMA SegmentServed ==
  ASSUME NEW capacity \in Nat, capacity > 0, NEW isn \in WrappingInt32, NEW r,
         NEW sent \in Nat, sent < HalfRange, NEW fin \in BOOLEAN,
         Serves(r, isn, capacity, sent, fin),
         NEW seg, NEW first, Belongs(seg, first, isn, sent, fin)
  PROVE  Served(r, segment_received(r, seg), isn, capacity, sent, fin)
<1> DEFINE y == segment_received(r, seg)
           len == Len(seg.payload)
           w == stream_out(r).write_count
<1>1. isn \in Int /\ wrap(0, isn) = isn
  BY WrapZero
<1>2. Reports(r, isn, capacity, sent, fin)
  BY <1>1, ServesFacts
<1>3. w \in Nat /\ w <= sent
  BY <1>2 DEF Reports, Tells
<1>4. ASSUME NEW top \in Nat, top >= sent, fin => top = sent
      PROVE  Received(r, y, isn, capacity, top)
  <2>1. ReceiverOK(r, isn, capacity, top)
    BY <1>4 DEF Serves
  <2>2. len \in Nat /\ first \in Nat /\ seg.fin \in BOOLEAN
    BY DEF Belongs
  <2>3. CASE first = 0
    <3>1. seg.syn = TRUE /\ Flag(seg.syn) = 1 /\ seg.seqno = isn
      BY <1>1, <2>3 DEF Belongs, Flag
    <3>2. /\ seg.payload = Bytes(0, len) /\ len <= sent
          /\ seg.fin => fin /\ len = sent
      BY <2>2, <2>3, <3>1 DEF Belongs
    <3>3. len <= top /\ (seg.fin => len = top)
      BY <1>4, <2>2, <3>2
    <3>4. seg = Segment(TRUE, seg.fin, isn, Bytes(0, len))
      BY <3>1, <3>2 DEF Belongs
    <3>5. y = segment_received(r, Segment(TRUE, seg.fin, isn, Bytes(0, len)))
      BY <3>4
    <3> HIDE DEF y, len
    <3> QED
      BY <2>1, <2>2, <3>3, <3>5, SynReceived
  <2>4. CASE first # 0
    <3> DEFINE index == first - 1
    <3>1. /\ seg.syn = FALSE /\ Flag(seg.syn) = 0 /\ seg.seqno = wrap(first, isn)
          /\ index \in Nat /\ index + 1 = first
      <4>1. seg.syn = FALSE /\ seg.seqno = wrap(first, isn)
        BY <2>4, Zenon DEF Belongs
      <4> QED
        BY <2>2, <2>4, <4>1 DEF Flag
    <3>2. /\ seg.payload = Bytes(index, len) /\ index + len <= sent
          /\ seg.fin => fin /\ index + len = sent
      BY <2>2, <3>1 DEF Belongs
    <3>3. index + len <= top /\ (seg.fin => index + len = top)
      BY <1>4, <2>2, <3>1, <3>2
    <3>4. seg = Segment(FALSE, seg.fin, wrap(index + 1, isn), Bytes(index, len))
      BY <3>1, <3>2 DEF Belongs
    <3>5. y = segment_received(r, Segment(FALSE, seg.fin, wrap(index + 1, isn),
                                          Bytes(index, len)))
      BY <3>4
    <3>6. index < w + HalfRange /\ w <= index + HalfRange
      BY <1>3, <2>2, <3>1, <3>2, ModulusType
    <3> HIDE DEF y, len, index
    <3> QED
      BY <1>1, <2>1, <2>2, <3>1, <3>3, <3>5, <3>6, DataReceived
  <2> QED
    BY <2>3, <2>4
<1> HIDE DEF y
<1>5. Serves(y, isn, capacity, sent, fin)
  BY <1>4 DEF Serves, Received
<1>6. Received(r, y, isn, capacity, sent)
  BY <1>4
<1>7. Served(r, y, isn, capacity, sent, fin)
  BY <1>5, <1>6 DEF Served, Received
<1> QED
  BY <1>7 DEF y

\* y is r after the application read n bytes.
ServedRead(r, y, n, isn, capacity, sent, fin) ==
  /\ Serves(y, isn, capacity, sent, fin)
  /\ stream_out(y).read_count = stream_out(r).read_count + n
  /\ stream_out(y).write_count = stream_out(r).write_count
  /\ stream_out(y).end_flag = stream_out(r).end_flag
  /\ y.ack = r.ack

\* The application reads.
LEMMA ReadServed ==
  ASSUME NEW capacity \in Nat, NEW isn \in Int, NEW r, NEW sent \in Nat, NEW fin \in BOOLEAN,
         Serves(r, isn, capacity, sent, fin),
         NEW n \in Nat, n > 0, n <= buffer_size(stream_out(r))
  PROVE  ServedRead(r, [r EXCEPT !.reassembler.output = after_read(@, n)], n,
                    isn, capacity, sent, fin)
<1> DEFINE y == [r EXCEPT !.reassembler.output = after_read(@, n)]
<1>1. y = [r EXCEPT !.reassembler.output = after_read(@, n)]
  OBVIOUS
<1> HIDE DEF y
<1>2. ASSUME NEW top \in Nat, top >= sent, fin => top = sent
      PROVE  ReadBy(r, y, n, isn, capacity, top)
  <2>1. ReceiverOK(r, isn, capacity, top)
    BY <1>2 DEF Serves
  <2> QED
    BY <1>1, <2>1, ReceiverRead
<1>3. Serves(y, isn, capacity, sent, fin)
  BY <1>2 DEF Serves, ReadBy
<1>4. ReadBy(r, y, n, isn, capacity, sent)
  BY <1>2
<1>5. ServedRead(r, y, n, isn, capacity, sent, fin)
  BY <1>3, <1>4 DEF ServedRead, ReadBy
<1> QED
  BY <1>5 DEF y
=============================================================================
