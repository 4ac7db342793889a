------------------------- MODULE TCPReceiver_proofs -------------------------
(***************************************************************************)
(* The receiver and what it is built from, for every length of the stream  *)
(* and every capacity, width and order of arrival.                         *)
(*                                                                         *)
(* The two ends of a connection agree about every position, and unwrap     *)
(* keeps its contract (SequenceTracking).  The reassembler hands on the    *)
(* stream without a gap, keeps every byte of its window, holds no more     *)
(* than its capacity, and implements Reassembly (StreamReassembler).  The  *)
(* receiver delivers the peer's stream, acknowledges exactly what it has,  *)
(* never withdraws window and never goes back to an earlier state          *)
(* (TCPReceiver).                                                          *)
(*                                                                         *)
(* What push_substring does to a reassembler is in DataTheorems; the       *)
(* invariant ReceiverOK, and what each call does to it, in                 *)
(* ReceiverTheorems.                                                       *)
(***************************************************************************)
EXTENDS SequenceTracking, StreamReassembler, TCPReceiver, ReceiverTheorems

-----------------------------------------------------------------------------
(* Sequence numbers. *)

\* A multiple of a positive number is zero or at least that number away from it.
LEMMA MultipleIsFar ==
  ASSUME NEW m \in Nat \ {0}, NEW k \in Int
  PROVE  m * k \in Int /\ (m * k = 0 \/ m * k >= m \/ m * k <= 0 - m)
<1>1. CASE k = 0
  BY <1>1
<1>2. CASE k >= 1
  <2>1. m * k = m + m * (k - 1) /\ m * (k - 1) >= 0 /\ m * (k - 1) \in Int
    BY <1>2
  <2> QED
    BY <2>1
<1>3. CASE k <= 0 - 1
  <2>1. m * k = 0 - m - m * (0 - 1 - k) /\ m * (0 - 1 - k) >= 0 /\ m * (0 - 1 - k) \in Int
    BY <1>3
  <2> QED
    BY <2>1
<1> QED
  BY <1>1, <1>2, <1>3

\* Positions that wrap to the same number are a multiple of the modulus apart.
LEMMA SameWrap ==
  ASSUME NEW u \in Int, NEW v \in Int, NEW i \in Int, wrap(u, i) = wrap(v, i)
  PROVE  \E k \in Int : v = u + Modulus * k
<1>1. PICK k1 \in Int : wrap(u, i) = u + i + Modulus * k1
  BY WrapFacts
<1>2. PICK k2 \in Int : wrap(v, i) = v + i + Modulus * k2
  BY WrapFacts
<1>3. /\ Modulus * (k1 - k2) = Modulus * k1 - Modulus * k2
      /\ Modulus * k1 \in Int /\ Modulus * k2 \in Int
  BY Distribute, ModulusType
<1>4. u + i + Modulus * k1 = v + i + Modulus * k2
  BY <1>1, <1>2
<1>5. v = u + (Modulus * k1 - Modulus * k2)
  <2> DEFINE a == Modulus * k1
             b == Modulus * k2
  <2>1. a \in Int /\ b \in Int /\ u + i + a = v + i + b
    BY <1>3, <1>4
  <2> HIDE DEF a, b
  <2>2. v = u + (a - b)
    BY <2>1
  <2> QED
    BY <2>2 DEF a, b
<1>6. k1 - k2 \in Int
  OBVIOUS
<1> QED
  BY <1>3, <1>5, <1>6

\* Positions a multiple of the modulus apart wrap to the same number.
LEMMA WrapOfMultiple ==
  ASSUME NEW u \in Int, NEW i \in Int, NEW n \in WrappingInt32, NEW k \in Int,
         n = u + i + Modulus * k
  PROVE  wrap(u, i) = n
<1>1. PICK k1 \in Int : wrap(u, i) = u + i + Modulus * k1
  BY WrapFacts
<1>2. /\ Modulus * (k - k1) = Modulus * k - Modulus * k1
      /\ Modulus * k \in Int /\ Modulus * k1 \in Int
  BY Distribute, ModulusType
<1>3. wrap(u, i) \in 0 .. Modulus - 1 /\ n \in 0 .. Modulus - 1
  BY WrapFacts DEF WrappingInt32
<1>4. n = Modulus * (k - k1) + wrap(u, i)
  BY <1>1, <1>2, <1>3
<1>5. Modulus * (k - k1) = 0
  BY <1>3, <1>4, MultipleIsFar, ModulusType
<1> QED
  BY <1>3, <1>4, <1>5, ModulusType

\* The contract of unwrap (wrapping_integers.cc:30-43): the answer wraps to n and
\* no other position that wraps to n is nearer to the checkpoint.
LEMMA UnwrapIsClosest ==
  ASSUME NEW n \in WrappingInt32, NEW i \in Int, NEW c \in Nat,
         NEW u, u = unwrap(n, i, c)
  PROVE  /\ u \in Nat
         /\ wrap(u, i) = n
         /\ \A v \in Nat : wrap(v, i) = n => Distance(u, c) <= Distance(v, c)
<1> DEFINE offset == (n - wrap(c, i)) % Modulus
<1>1. n \in Int /\ wrap(c, i) \in Int
  BY WrapFacts, ModulusType DEF WrappingInt32
<1>2. n - wrap(c, i) \in Int
  BY <1>1
<1>3. offset \in 0 .. Modulus - 1
  BY <1>2, ModRange, ModulusType
<1>4. u = IF offset < HalfRange \/ c < Modulus - offset
          THEN c + offset ELSE c - Modulus + offset
  BY DEF unwrap
<1>5. PICK q \in Int : n - wrap(c, i) = Modulus * q + offset
  BY <1>2, ModSplit, ModulusType
<1>6. PICK k2 \in Int : wrap(c, i) = c + i + Modulus * k2
  BY WrapFacts
<1> HIDE DEF offset
<1>7. u \in Nat
  BY <1>1, UnwrapType
<1>8. wrap(u, i) = n
  <2>1. /\ Modulus * (q + k2) = Modulus * q + Modulus * k2
        /\ Modulus * (q + k2 + 1) = Modulus * q + Modulus * k2 + Modulus
        /\ Modulus * q \in Int /\ Modulus * k2 \in Int
    BY ModulusType
  <2>2. n = (c + offset) + i + Modulus * (q + k2)
    BY <1>1, <1>3, <1>5, <1>6, <2>1, ModulusType
  <2>3. n = (c - Modulus + offset) + i + Modulus * (q + k2 + 1)
    BY <1>1, <1>3, <1>5, <1>6, <2>1, ModulusType
  <2>4. CASE u = c + offset
    BY <1>7, <2>2, <2>4, WrapOfMultiple
  <2>5. CASE u = c - Modulus + offset
    BY <1>7, <2>3, <2>5, WrapOfMultiple
  <2> QED
    BY <1>4, <2>4, <2>5
<1>9. ASSUME NEW v \in Nat, wrap(v, i) = n
      PROVE  Distance(u, c) <= Distance(v, c)
  <2>1. PICK k \in Int : v = u + Modulus * k
    BY <1>7, <1>8, <1>9, SameWrap
  <2>2. v = u \/ v >= u + Modulus \/ v <= u - Modulus
    BY <1>7, <2>1, MultipleIsFar, ModulusType
  <2>3. Modulus = 2 * HalfRange
    BY DEF Modulus
  <2> QED
    BY <1>3, <1>4, <1>7, <2>2, <2>3, ModulusType DEF Distance
<1> QED
  BY <1>7, <1>8, <1>9

\* The two ends of a connection agree about every position, for every width of
\* the sequence space, every isn and every length of the stream.
THEOREM AlwaysAgree == TrackingSpec => [](TrackingTypeOK /\ PeersAgree)
<1> DEFINE Agree == TrackingTypeOK /\ PeersAgree
<1>1. TrackingInit => Agree
  BY MaxPositionAssumption DEF TrackingInit, TrackingTypeOK, PeersAgree
<1>2. Agree /\ [TrackingNext]_trackingVars => Agree'
  <2> SUFFICES ASSUME Agree, [TrackingNext]_trackingVars
               PROVE  Agree'
    OBVIOUS
  <2>1. ASSUME NEW p \in 0 .. MaxPosition, Hear(p)
        PROVE  Agree'
    <3>1. p \in Nat /\ checkpoint \in Nat /\ isn \in Int
      BY MaxPositionAssumption, ModulusType DEF TrackingTypeOK, WrappingInt32
    <3>2. checkpoint' = p
      BY <2>1, <3>1, UnwrapOfWrap DEF Hear
    <3> QED
      BY <2>1, <3>1, <3>2 DEF Hear, TrackingTypeOK, PeersAgree
  <2>2. CASE UNCHANGED trackingVars
    BY <2>2 DEF trackingVars, TrackingTypeOK, PeersAgree
  <2> QED
    BY <2>1, <2>2 DEF TrackingNext
<1> QED
  BY <1>1, <1>2, PTL DEF TrackingSpec

\* Along every run unwrap returns, for whatever number the peer sends, the
\* position nearest to the checkpoint.
THEOREM AlwaysClosest == TrackingSpec => []ClosestToCheckpoint
<1>1. TrackingTypeOK => ClosestToCheckpoint
  <2> SUFFICES ASSUME TrackingTypeOK, NEW n \in WrappingInt32,
                      NEW u, u = unwrap(n, isn, checkpoint)
               PROVE  /\ u \in Nat
                      /\ wrap(u, isn) = n
                      /\ \A v \in 0 .. checkpoint + Modulus :
                           wrap(v, isn) = n
                             => Distance(u, checkpoint) <= Distance(v, checkpoint)
    BY DEF ClosestToCheckpoint
  <2>1. checkpoint \in Nat /\ isn \in Int
    BY MaxPositionAssumption, ModulusType DEF TrackingTypeOK, WrappingInt32
  <2>2. \A v \in 0 .. checkpoint + Modulus : v \in Nat
    BY <2>1, ModulusType
  <2> QED
    BY <2>1, <2>2, UnwrapIsClosest
<1> QED
  BY <1>1, AlwaysAgree, PTL

-----------------------------------------------------------------------------
(* The reassembler. *)

ReassemblerNext == PushInWindow \/ ReadAny

\* The inductive invariant.
ReassemblerInv == ReassemblerOK(reassembler, ReassemblerCapacity, SourceLen)

\* The constants are numbers.
LEMMA ReassemblerConstants ==
  SourceLen \in Nat /\ ReassemblerCapacity \in Nat /\ ReassemblerCapacity > 0
  BY ReassemblerAssumption

\* A push of a string that begins inside the window.
LEMMA PushStep ==
  ASSUME ReassemblerInv, NEW index \in 0 .. SourceLen, NEW len \in 0 .. SourceLen - index,
         NEW last \in {FALSE, index + len = SourceLen},
         index <= Limit(reassembler), Push(index, len, last)
  PROVE  Pushed(reassembler, reassembler', index, len, last, ReassemblerCapacity, SourceLen)
<1>1. /\ index \in Nat /\ len \in Nat /\ index + len <= SourceLen /\ last \in BOOLEAN
      /\ last => index + len = SourceLen
  <2>1. index \in Nat /\ len \in Nat /\ index + len <= SourceLen
    BY ReassemblerConstants
  <2>2. last \in BOOLEAN /\ (last => index + len = SourceLen)
    BY Zenon
  <2> QED
    BY <2>1, <2>2
<1>2. reassembler' = push_substring(reassembler, Bytes(index, len), index, last)
  BY DEF Push
<1>3. ReassemblerOK(reassembler, ReassemblerCapacity, SourceLen)
  BY DEF ReassemblerInv
<1> DEFINE r == reassembler
           y == reassembler'
<1>4. ReassemblerOK(r, ReassemblerCapacity, SourceLen) /\ index <= Limit(r)
      /\ y = push_substring(r, Bytes(index, len), index, last)
  BY <1>2, <1>3
<1> HIDE DEF r, y
<1>5. Pushed(r, y, index, len, last, ReassemblerCapacity, SourceLen)
  BY <1>1, <1>4, ReassemblerConstants, PushKeeps
<1> QED
  BY <1>5 DEF r, y

\* A read of the output.
LEMMA ReadOutputStep ==
  ASSUME ReassemblerInv, NEW n \in 1 .. ReassemblerCapacity, ReadOutput(n)
  PROVE  ReadFrom(reassembler, reassembler', n, ReassemblerCapacity, SourceLen)
<1> DEFINE r == reassembler
           y == reassembler'
<1>1. ReassemblerOK(r, ReassemblerCapacity, SourceLen)
      /\ n \in Nat /\ n <= buffer_size(r.output)
      /\ y = [r EXCEPT !.output = after_read(r.output, n)]
  BY ReassemblerConstants DEF ReassemblerInv, ReadOutput
<1> HIDE DEF r, y
<1>2. ReadFrom(r, y, n, ReassemblerCapacity, SourceLen)
  BY <1>1, ReassemblerConstants, ReassemblerReadKeeps
<1> QED
  BY <1>2 DEF r, y

\* The invariant holds for ever.
LEMMA AlwaysReassemblerInv == ReassemblerSpec => []ReassemblerInv
<1>1. ReassemblerInit => ReassemblerInv
  BY ReassemblerConstants, NewReassemblerOK DEF ReassemblerInit, ReassemblerInv
<1>2. ReassemblerInv /\ [ReassemblerNext]_reassemblerVars => ReassemblerInv'
  <2>1. SUFFICES ASSUME ReassemblerInv, [ReassemblerNext]_reassemblerVars PROVE ReassemblerInv'
    OBVIOUS
  <2>2. CASE PushInWindow
    <3>1. PICK index \in 0 .. SourceLen : \E len \in 0 .. SourceLen - index :
            \E last \in {FALSE, index + len = SourceLen} :
              index <= Limit(reassembler) /\ Push(index, len, last)
      BY <2>2 DEF PushInWindow
    <3>2. PICK len \in 0 .. SourceLen - index :
            \E last \in {FALSE, index + len = SourceLen} :
              index <= Limit(reassembler) /\ Push(index, len, last)
      BY <3>1
    <3>3. PICK last \in {FALSE, index + len = SourceLen} :
            index <= Limit(reassembler) /\ Push(index, len, last)
      BY <3>2
    <3>4. Pushed(reassembler, reassembler', index, len, last, ReassemblerCapacity, SourceLen)
      BY <2>1, <3>3, PushStep
    <3> QED
      BY <3>4 DEF Pushed, ReassemblerInv
  <2>3. CASE ReadAny
    <3>1. PICK n \in 1 .. ReassemblerCapacity : ReadOutput(n)
      BY <2>3 DEF ReadAny
    <3> QED
      BY <2>1, <3>1, ReadOutputStep DEF ReadFrom, ReassemblerInv
  <2>4. CASE UNCHANGED reassemblerVars
    BY <2>1, <2>4 DEF ReassemblerInv, reassemblerVars
  <2> QED
    BY <2>1, <2>2, <2>3, <2>4 DEF ReassemblerNext
<1> QED
  BY <1>1, <1>2, PTL DEF ReassemblerSpec, ReassemblerNext

\* The bytes of the map are the ones Stored names.
LEMMA StoredSame == StoredBytes = Stored(reassembler.stream)
  BY DEF StoredBytes, Stored

LEMMA ReassemblerInvImplies ==
  ReassemblerInv =>
    ReassemblerTypeOK /\ OutputIsStream /\ UnassembledExact /\ LiveBytesWithinCapacity
<1>1. SUFFICES ASSUME ReassemblerInv
               PROVE  /\ ReassemblerTypeOK /\ OutputIsStream
                      /\ UnassembledExact /\ LiveBytesWithinCapacity
  OBVIOUS
<1> DEFINE r == reassembler
<1>2. /\ ReassemblerOK(r, ReassemblerCapacity, SourceLen)
      /\ Loaded(r, ReassemblerCapacity, SourceLen)
  BY <1>1 DEF ReassemblerInv, ReassemblerOK
<1>3. /\ r.output \in ByteStreamType(Nat) /\ r.write_ptr \in Nat
      /\ StreamOK(r.output, ReassemblerCapacity)
  BY <1>2, ReassemblerFields DEF Loaded
<1>4. ReassemblerTypeOK
  BY <1>2, <1>3, ReassemblerConstants DEF ReassemblerTypeOK, ReassemblerOK, Loaded, Right, UpTo
<1>5. OutputIsStream
  BY <1>2, <1>3 DEF OutputIsStream, Loaded, StreamOK
<1>6. UnassembledExact
  BY <1>2, ReassemblerConstants, StoredSame, UnassembledCount DEF UnassembledExact
<1>7. LiveBytesWithinCapacity
  BY <1>2, ReassemblerConstants, LiveBytes DEF LiveBytesWithinCapacity
<1> QED
  BY <1>4, <1>5, <1>6, <1>7

\* push_substring and the reads keep the map of strings right: whatever the order
\* and the overlap of the pushes, the output is the stream without a gap, every
\* stored string is a piece of the stream, unassembled_bytes() is exact, and what
\* waits in the output and in the map fits the capacity.
THEOREM ReassemblerCorrect ==
  ReassemblerSpec =>
    [](/\ ReassemblerTypeOK /\ OutputIsStream
       /\ UnassembledExact /\ LiveBytesWithinCapacity)
  BY AlwaysReassemblerInv, ReassemblerInvImplies, PTL

-----------------------------------------------------------------------------
(* The reassembler implements Reassembly. *)

\* The longest gap-free prefix of what is written or stored is write_ptr.
LEMMA PrefixIsWritten ==
  ReassemblerInv => Promise!Prefix(Have(reassembler)) = reassembler.write_ptr
<1>1. SUFFICES ASSUME ReassemblerInv
               PROVE  Promise!Prefix(Have(reassembler)) = reassembler.write_ptr
  OBVIOUS
<1> DEFINE w == reassembler.write_ptr
           S == {n \in 0 .. SourceLen : 0 .. n - 1 \subseteq Have(reassembler)}
<1>2. ReassemblerOK(reassembler, ReassemblerCapacity, SourceLen)
  BY <1>1 DEF ReassemblerInv
<1>3. w \in 0 .. SourceLen
  BY <1>2, ReassemblerConstants, ReassemblerFields DEF ReassemblerOK, Loaded
<1>4. ASSUME NEW n \in 0 .. SourceLen PROVE n \in S <=> n <= w
  <2>1. n \in Nat
    BY ReassemblerConstants
  <2> QED
    BY <1>2, <2>1, ReassemblerConstants, PrefixOfHave
<1>5. Promise!Prefix(Have(reassembler)) = Max(S)
  BY DEF Promise!Prefix, Promise!Max, Max
<1> HIDE DEF w, S
<1>6. S \subseteq Nat /\ S # {} /\ \A n \in S : n <= SourceLen
  BY <1>3, <1>4, ReassemblerConstants DEF S
<1>7. Max(S) \in S /\ \A y \in S : y <= Max(S)
  BY <1>6, ReassemblerConstants, MaxFacts
<1>8. Max(S) \in 0 .. SourceLen /\ w \in S
  BY <1>3, <1>4, <1>7 DEF S
<1>9. Max(S) <= w /\ w <= Max(S)
  BY <1>4, <1>7, <1>8
<1>10. Max(S) = w
  BY <1>3, <1>8, <1>9, ReassemblerConstants
<1> QED
  BY <1>5, <1>10 DEF w

\* A push is an Offer.
LEMMA PushIsOffer ==
  ASSUME ReassemblerInv, ReassemblerInv',
         NEW index \in 0 .. SourceLen, NEW len \in 0 .. SourceLen - index,
         NEW last \in {FALSE, index + len = SourceLen}, Push(index, len, last),
         Pushed(reassembler, reassembler', index, len, last, ReassemblerCapacity, SourceLen),
         Promise!Prefix(Have(reassembler')) = reassembler'.write_ptr
  PROVE  Promise!Offer(index, len, last)
<1> DEFINE r == reassembler
           y == reassembler'
<1>1. /\ ReassemblerOK(r, ReassemblerCapacity, SourceLen)
      /\ ReassemblerOK(y, ReassemblerCapacity, SourceLen)
      /\ Limit(r) = r.output.read_count + ReassemblerCapacity
  BY DEF ReassemblerInv, ReassemblerOK, Loaded, Limit
<1>2. offered' = <<index, len, last>>
  BY DEF Push
<1>3. Have(r) = 0 .. r.write_ptr - 1 \cup StoredBytes
      /\ Have(y) = 0 .. y.write_ptr - 1 \cup StoredBytes'
  BY StoredSame DEF Have, StoredBytes, Stored
<1>4. Have(y) = Have(r) \cup {b \in index .. index + len - 1 :
                                  b < r.output.read_count + ReassemblerCapacity}
  BY <1>1 DEF Pushed
<1>5. y.eof_f = (r.eof_f \/ (last /\ index + len <= r.output.read_count + ReassemblerCapacity))
  <2>1. y.eof_f \in BOOLEAN
    BY <1>1, ReassemblerFields DEF ReassemblerOK, Loaded
  <2> QED
    BY <1>1, <2>1 DEF Pushed
<1>6. y.output.end_flag = (y.eof_f /\ Promise!Prefix(Have(y)) = SourceLen)
  <2>1. y.output.end_flag \in BOOLEAN
    BY <1>1, StreamFacts DEF ReassemblerOK, Loaded
  <2> QED
    BY <1>1, <2>1 DEF ReassemblerOK
<1>7. y.output.read_count = r.output.read_count
  BY DEF Pushed
<1> QED
  BY <1>2, <1>3, <1>4, <1>5, <1>6, <1>7 DEF Promise!Offer

\* A read is a Consume.
LEMMA ReadIsConsume ==
  ASSUME ReassemblerInv, NEW n \in 1 .. ReassemblerCapacity, ReadOutput(n),
         ReadFrom(reassembler, reassembler', n, ReassemblerCapacity, SourceLen),
         Promise!Prefix(Have(reassembler)) = reassembler.write_ptr
  PROVE  Promise!Consume(n)
<1> DEFINE r == reassembler
           y == reassembler'
<1>1. ReassemblerOK(r, ReassemblerCapacity, SourceLen)
      /\ StreamOK(r.output, ReassemblerCapacity)
      /\ r.write_ptr = r.output.write_count
  BY DEF ReassemblerInv, ReassemblerOK, Loaded
<1>2. r.output.read_count + n <= r.write_ptr
  <2>1. n <= buffer_size(r.output)
    BY DEF ReadOutput
  <2>2. /\ r.output.read_count \in Nat /\ r.output.write_count \in Nat
        /\ buffer_size(r.output) = r.output.write_count - r.output.read_count
    BY <1>1, StreamFacts
  <2> QED
    BY <1>1, <2>1, <2>2, ReassemblerConstants
<1>3. Have(r) = 0 .. r.write_ptr - 1 \cup StoredBytes
  BY StoredSame DEF Have
<1>4. StoredBytes' = StoredBytes /\ y.write_ptr = r.write_ptr
  BY DEF StoredBytes, ReadFrom
<1>5. offered' = Promise!NoOffer
  BY DEF ReadOutput, Promise!NoOffer
<1>6. /\ y.output.read_count = r.output.read_count + n
      /\ y.output.end_flag = r.output.end_flag /\ y.eof_f = r.eof_f
  BY DEF ReadFrom
<1> QED
  BY <1>2, <1>3, <1>4, <1>5, <1>6 DEF Promise!Consume

\* PrefixIsWritten as a state predicate.
HavePrefix == Promise!Prefix(Have(reassembler)) = reassembler.write_ptr

LEMMA PrefixAgain == ReassemblerInv => HavePrefix
  BY PrefixIsWritten DEF HavePrefix

\* Every step of the reassembler is a step of Reassembly, or none.
LEMMA StepRefines ==
  ReassemblerInv /\ ReassemblerInv' /\ [ReassemblerNext]_reassemblerVars
      => [Promise!Next]_(Promise!vars)
<1>0. ReassemblerInv' => Promise!Prefix(Have(reassembler')) = reassembler'.write_ptr
  <2>1. ReassemblerInv' => HavePrefix'
    BY PrefixAgain, PTL
  <2> QED
    BY <2>1 DEF HavePrefix, Promise!Prefix, Have, Stored
<1>1. SUFFICES ASSUME ReassemblerInv, ReassemblerInv', [ReassemblerNext]_reassemblerVars
               PROVE  [Promise!Next]_(Promise!vars)
  OBVIOUS
<1>2. CASE PushInWindow
  <2>1. PICK index \in 0 .. SourceLen : \E len \in 0 .. SourceLen - index :
          \E last \in {FALSE, index + len = SourceLen} :
            index <= Limit(reassembler) /\ Push(index, len, last)
    BY <1>2 DEF PushInWindow
  <2>2. PICK len \in 0 .. SourceLen - index :
          \E last \in {FALSE, index + len = SourceLen} :
            index <= Limit(reassembler) /\ Push(index, len, last)
    BY <2>1
  <2>3. PICK last \in {FALSE, index + len = SourceLen} :
          index <= Limit(reassembler) /\ Push(index, len, last)
    BY <2>2
  <2>4. Pushed(reassembler, reassembler', index, len, last, ReassemblerCapacity, SourceLen)
    BY <1>1, <2>3, PushStep
  <2>5. Promise!Offer(index, len, last)
    BY <1>0, <1>1, <2>3, <2>4, PushIsOffer
  <2> QED
    BY <2>5 DEF Promise!Next
<1>3. CASE ReadAny
  <2>1. PICK n \in 1 .. ReassemblerCapacity : ReadOutput(n)
    BY <1>3 DEF ReadAny
  <2>2. ReadFrom(reassembler, reassembler', n, ReassemblerCapacity, SourceLen)
    BY <1>1, <2>1, ReadOutputStep
  <2>3. Promise!Consume(n)
    BY <1>1, <2>1, <2>2, PrefixIsWritten, ReadIsConsume
  <2> QED
    BY <2>1, <2>3 DEF Promise!Next
<1>4. CASE UNCHANGED reassemblerVars
  BY <1>4 DEF reassemblerVars, Promise!vars, StoredBytes
<1> QED
  BY <1>1, <1>2, <1>3, <1>4 DEF ReassemblerNext

LEMMA InitRefines == ReassemblerInit => Promise!Init
<1>1. SUFFICES ASSUME ReassemblerInit PROVE Promise!Init
  OBVIOUS
<1>2. /\ reassembler.write_ptr = 0 /\ reassembler.stream = <<>>
      /\ reassembler.eof_f = FALSE /\ reassembler.output.read_count = 0
      /\ reassembler.output.end_flag = FALSE
  BY <1>1 DEF ReassemblerInit, NewReassembler, NewByteStream
<1>3. StoredBytes = {}
  BY <1>2 DEF StoredBytes
<1>4. 0 .. reassembler.write_ptr - 1 = {}
  BY <1>2
<1> QED
  BY <1>1, <1>2, <1>3, <1>4 DEF ReassemblerInit, Promise!Init, Promise!NoOffer

\* The map of strings implements the set of byte indices of Reassembly: every
\* push_substring is an Offer, every read a Consume.
THEOREM ReassemblerRefines == ReassemblerSpec => ImplementsReassembly
<1>1. ReassemblerInit => Promise!Init
  BY InitRefines
<1>2. ReassemblerInv /\ ReassemblerInv' /\ [ReassemblerNext]_reassemblerVars
      => [Promise!Next]_(Promise!vars)
  BY StepRefines
<1> QED
  BY <1>1, <1>2, AlwaysReassemblerInv, PTL
  DEF ReassemblerSpec, ReassemblerNext, ImplementsReassembly, Promise!Spec

-----------------------------------------------------------------------------
(* The receiver, its peer and the application. *)

\* The inductive invariant.
Inv == peerIsn \in ISNs /\ ReceiverOK(receiver, peerIsn, Capacity, StreamLen)

\* The constants.
LEMMA Constants ==
  /\ StreamLen \in Nat /\ Capacity \in Nat /\ Capacity > 0 /\ Capacity < HalfRange
  /\ ISNs \subseteq WrappingInt32 /\ WrappingInt32 \subseteq Int
  BY ReceiverAssumption, ModulusType DEF WrappingInt32

\* A new receiver, and any peer.
LEMMA InitInv == Init => Inv
<1>1. SUFFICES ASSUME Init PROVE Inv
  OBVIOUS
<1>2. receiver \in ReceiverType /\ ~stream_out(receiver).error
  BY <1>1, Constants, NewReceiverFields DEF Init
<1> QED
  BY <1>1, <1>2 DEF Init, Inv, ReceiverOK

\* A step of the network.
Arrival == /\ Received(receiver, receiver', peerIsn, Capacity, StreamLen)
           /\ peerIsn' = peerIsn

\* SYN arrives.
LEMMA SynStep ==
  ASSUME Inv, ReceiveSyn PROVE Arrival
<1>1. PICK len \in 0 .. StreamLen : \E fin \in {FALSE, len = StreamLen} :
        Receive(Segment(TRUE, fin, peerIsn, Bytes(0, len)))
  BY DEF ReceiveSyn
<1>2. PICK fin \in {FALSE, len = StreamLen} :
        Receive(Segment(TRUE, fin, peerIsn, Bytes(0, len)))
  BY <1>1
<1>3. len \in Nat /\ len <= StreamLen
  BY Constants
<1>4. fin \in BOOLEAN /\ (fin => len = StreamLen)
  BY Zenon
<1> DEFINE y == receiver'
           peer == peerIsn
           r == receiver
<1>5. y = segment_received(r, Segment(TRUE, fin, peer, Bytes(0, len))) /\ peerIsn' = peerIsn
  BY <1>2 DEF Receive
<1>6. peer \in WrappingInt32 /\ ReceiverOK(r, peer, Capacity, StreamLen)
  BY Constants DEF Inv
<1> HIDE DEF y, peer, r
<1>7. Received(r, y, peer, Capacity, StreamLen)
  BY <1>3, <1>4, <1>5, <1>6, Constants, SynReceived
<1> QED
  BY <1>5, <1>7 DEF Arrival, y, peer, r

\* A segment without SYN arrives.
LEMMA DataStep ==
  ASSUME Inv, ReceiveAny PROVE Arrival
<1>1. PICK index \in 0 .. StreamLen : \E len \in 0 .. StreamLen - index :
        \E fin \in {FALSE, index + len = StreamLen} : ReceiveData(index, len, fin)
  BY DEF ReceiveAny
<1>2. PICK len \in 0 .. StreamLen - index :
        \E fin \in {FALSE, index + len = StreamLen} : ReceiveData(index, len, fin)
  BY <1>1
<1>3. PICK fin \in {FALSE, index + len = StreamLen} : ReceiveData(index, len, fin)
  BY <1>2
<1>4. index \in Nat /\ len \in Nat /\ index + len <= StreamLen
  BY Constants
<1>5. fin \in BOOLEAN /\ (fin => index + len = StreamLen)
  BY Zenon
<1> DEFINE y == receiver'
           peer == peerIsn
           r == receiver
<1>6. /\ y = segment_received(r, Segment(FALSE, fin, wrap(index + 1, peer), Bytes(index, len)))
      /\ index < stream_out(r).write_count + HalfRange
      /\ stream_out(r).write_count <= index + HalfRange
      /\ peerIsn' = peerIsn
  BY <1>3 DEF ReceiveData, Receive, Written
<1>7. peer \in Int /\ ReceiverOK(r, peer, Capacity, StreamLen)
  BY Constants DEF Inv
<1> HIDE DEF y, peer, r
<1>8. Received(r, y, peer, Capacity, StreamLen)
  BY <1>4, <1>5, <1>6, <1>7, Constants, DataReceived
<1> QED
  BY <1>6, <1>8 DEF Arrival, y, peer, r

\* The byte before the stream arrives.
LEMMA StrayStep ==
  ASSUME Inv, ReceiveStray PROVE Arrival
<1> DEFINE y == receiver'
           peer == peerIsn
           r == receiver
           data == <<StreamLen>>
<1>1. /\ y = segment_received(r, Segment(FALSE, FALSE, peer, data))
      /\ stream_out(r).write_count + 1 < HalfRange
      /\ peerIsn' = peerIsn
  BY DEF ReceiveStray, Receive, Written
<1>2. peer \in WrappingInt32 /\ ReceiverOK(r, peer, Capacity, StreamLen) /\ data \in Seq(Nat)
  BY Constants DEF Inv
<1> HIDE DEF y, peer, r, data
<1>3. Received(r, y, peer, Capacity, StreamLen)
  BY <1>1, <1>2, Constants, StrayReceived
<1> QED
  BY <1>1, <1>3 DEF Arrival, y, peer, r

\* A read by the application.
Reading(n) == /\ ReadBy(receiver, receiver', n, peerIsn, Capacity, StreamLen)
              /\ n \in Nat /\ peerIsn' = peerIsn

\* That is what Read does.
LEMMA ReadStep ==
  ASSUME Inv, NEW n \in 1 .. Capacity, Read(n) PROVE Reading(n)
<1> DEFINE y == receiver'
           peer == peerIsn
           r == receiver
<1>1. /\ y = [r EXCEPT !.reassembler.output = after_read(@, n)]
      /\ n <= buffer_size(stream_out(r)) /\ peerIsn' = peerIsn
  BY DEF Read
<1>2. peer \in Int /\ ReceiverOK(r, peer, Capacity, StreamLen) /\ n \in Nat /\ n > 0
  BY Constants DEF Inv
<1> HIDE DEF y, peer, r
<1>3. ReadBy(r, y, n, peer, Capacity, StreamLen)
  BY <1>1, <1>2, Constants, ReceiverRead
<1> QED
  BY <1>1, <1>2, <1>3 DEF Reading, y, peer, r

\* Every step is one of these two, or none.
LEMMA Steps ==
  ASSUME Inv, [Next]_vars
  PROVE  Arrival \/ (\E n \in Nat : Reading(n)) \/ UNCHANGED vars
<1>1. CASE ReceiveSyn
  BY <1>1, SynStep
<1>2. CASE ReceiveAny
  BY <1>2, DataStep
<1>3. CASE ReceiveStray
  BY <1>3, StrayStep
<1>4. CASE ReadSome
  <2>1. PICK n \in 1 .. Capacity : Read(n)
    BY <1>4 DEF ReadSome
  <2>2. Reading(n) /\ n \in Nat
    BY <2>1, ReadStep DEF Reading
  <2> QED
    BY <2>2
<1> QED
  BY <1>1, <1>2, <1>3, <1>4 DEF Next

\* The invariant is kept.
LEMMA NextInv == Inv /\ [Next]_vars => Inv'
<1>1. SUFFICES ASSUME Inv, [Next]_vars PROVE Inv'
  OBVIOUS
<1>2. CASE Arrival
  BY <1>1, <1>2 DEF Arrival, Received, Inv
<1>3. ASSUME NEW n \in Nat, Reading(n) PROVE Inv'
  BY <1>1, <1>3 DEF Reading, ReadBy, Inv
<1>4. CASE UNCHANGED vars
  BY <1>1, <1>4 DEF Inv, vars
<1> QED
  BY <1>1, <1>2, <1>3, <1>4, Steps

\* The invariant holds for ever.
LEMMA AlwaysInv == Spec => []Inv
  BY InitInv, NextInv, PTL DEF Spec

\* In every phase the output is a prefix of the stream and ackno() is exact.
LEMMA InvImplies == Inv => OutputIsPrefix /\ AcknoExact
<1>1. SUFFICES ASSUME Inv PROVE OutputIsPrefix /\ AcknoExact
  OBVIOUS
<1> DEFINE r == receiver
           s == stream_out(r)
<1>2. ReceiverOK(r, peerIsn, Capacity, StreamLen) /\ peerIsn \in Int
  BY <1>1, Constants DEF Inv
<1>3. StreamOK(s, Capacity)
  BY <1>2, Constants, ReceiverFacts
<1>4. OutputIsPrefix
  BY <1>3 DEF OutputIsPrefix, StreamOK
<1>5. AcknoExact
  <2>1. Tells(r, peerIsn, StreamLen)
    BY <1>2, Constants, ReceiverTells
  <2> QED
    BY <2>1 DEF AcknoExact, Tells, Written, Ended, input_ended
<1> QED
  BY <1>4, <1>5

\* Whatever segments arrive, in whatever order and however often, the application
\* reads the peer's stream without a gap, and ackno() names exactly the next
\* number that is missing, SYN and FIN included, also when duplicates arrive after
\* the end of the stream.
THEOREM ReceiverCorrect == Spec => [](OutputIsPrefix /\ AcknoExact)
  BY AlwaysInv, InvImplies, PTL

\* The numbers that a step compares.
LEMMA EdgeFacts ==
  ASSUME NEW peer, NEW r, ReceiverOK(r, peer, Capacity, StreamLen)
  PROVE  LET s == stream_out(r) IN
         /\ s.read_count \in Nat
         /\ s.write_count + Flag(input_ended(s)) + window_size(r)
              = s.read_count + Capacity + Flag(s.end_flag)
<1> DEFINE s == stream_out(r)
<1>1. /\ s.read_count \in Nat /\ s.write_count \in Nat
      /\ window_size(r) = s.read_count + Capacity - s.write_count
  BY Constants, ReceiverFacts
<1>2. Flag(s.end_flag) \in Nat
  BY DEF Flag
<1> QED
  BY <1>1, <1>2, Constants DEF input_ended

\* ackno + window_size never moves left (tcp_receiver.cc:36-51): what the peer was
\* once allowed to send stays allowed.
THEOREM EdgeOnlyAdvances == Spec => RightEdgeNeverShrinks
<1> DEFINE Edge == Written' + Flag(Ended') + window_size(receiver')
                     >= Written + Flag(Ended) + window_size(receiver)
<1>1. ASSUME Inv, Inv', [Next]_vars PROVE [Edge]_vars
  <2> DEFINE s == stream_out(receiver)
             t == stream_out(receiver')
  <2>1. /\ s.read_count \in Nat
        /\ Written + Flag(Ended) + window_size(receiver)
             = s.read_count + Capacity + Flag(s.end_flag)
    BY <1>1, EdgeFacts DEF Inv, Written, Ended
  <2>2. /\ t.read_count \in Nat
        /\ Written' + Flag(Ended') + window_size(receiver')
             = t.read_count + Capacity + Flag(t.end_flag)
    BY <1>1, EdgeFacts DEF Inv, Written, Ended, stream_out
  <2>3. CASE Arrival
    <3>1. t.read_count = s.read_count /\ (s.end_flag => t.end_flag)
      BY <2>3 DEF Arrival, Received
    <3>2. Flag(t.end_flag) >= Flag(s.end_flag) /\ Flag(t.end_flag) \in Nat
          /\ Flag(s.end_flag) \in Nat
      BY <3>1 DEF Flag
    <3> HIDE DEF s, t
    <3> QED
      BY <2>1, <2>2, <3>1, <3>2, Constants
  <2>4. ASSUME NEW n \in Nat, Reading(n) PROVE Edge
    <3>1. t.read_count = s.read_count + n /\ t.end_flag = s.end_flag
      BY <2>4 DEF Reading, ReadBy
    <3>2. Flag(t.end_flag) = Flag(s.end_flag) /\ Flag(s.end_flag) \in Nat
      BY <3>1 DEF Flag
    <3> HIDE DEF s, t
    <3> QED
      BY <2>1, <2>2, <3>1, <3>2, Constants
  <2> QED
    BY <1>1, <2>3, <2>4, Steps
<1>2. Inv /\ Inv' /\ [Next]_vars => [Edge]_vars
  BY <1>1
<1> QED
  BY <1>2, AlwaysInv, PTL DEF Spec, RightEdgeNeverShrinks

\* What state_summary reports in every phase.
LEMMA SummaryFacts ==
  ASSUME NEW peer, NEW r, ReceiverOK(r, peer, Capacity, StreamLen)
  PROVE  LET s == stream_out(r) IN
         /\ ReceiverSummary(s.error, r.ack # NoAckno, input_ended(s))
              = IF r.ack = NoAckno THEN LISTEN
                ELSE IF s.end_flag THEN FIN_RECV ELSE SYN_RECV
         /\ s.end_flag => s.write_count = StreamLen
<1> DEFINE s == stream_out(r)
<1>1. ~s.error
  BY DEF ReceiverOK
<1>2. s.end_flag => s.write_count = StreamLen
  <2>1. CASE r = NewReceiver(Capacity)
    BY <2>1, Constants, NewReceiverFields
  <2>2. CASE Open(r, peer, Capacity, StreamLen)
    BY <2>2 DEF Open
  <2>3. CASE Closed(r, peer, Capacity, StreamLen)
    BY <2>3 DEF Closed, Finished, stream_out
  <2> QED
    BY <2>1, <2>2, <2>3 DEF ReceiverOK
<1> HIDE DEF s
<1>3. ReceiverSummary(s.error, r.ack # NoAckno, input_ended(s))
        = IF r.ack = NoAckno THEN LISTEN ELSE IF s.end_flag THEN FIN_RECV ELSE SYN_RECV
  BY <1>1 DEF ReceiverSummary, input_ended
<1> QED
  BY <1>2, <1>3 DEF s

\* LISTEN, SYN_RECV, FIN_RECV are passed in this order (tcp_state.cc:5-15), and
\* FIN_RECV is reported only when the whole stream is there.
THEOREM ReceiverStages == Spec => SummaryOnlyAdvances
<1> DEFINE Forward == Summary' >= Summary /\ (Summary' = FIN_RECV => Written' = StreamLen)
           Stage(a, e) == IF a = NoAckno THEN LISTEN ELSE IF e THEN FIN_RECV ELSE SYN_RECV
<1>1. ASSUME Inv, Inv', [Next]_vars PROVE [Forward]_vars
  <2> DEFINE s == stream_out(receiver)
             t == stream_out(receiver')
  <2>1. Summary = Stage(receiver.ack, s.end_flag)
    BY <1>1, SummaryFacts DEF Inv, Summary, Ended
  <2>2. /\ Summary' = Stage(receiver'.ack, t.end_flag)
        /\ t.end_flag => Written' = StreamLen
    BY <1>1, SummaryFacts DEF Inv, Summary, Ended, Written, stream_out
  <2>3. ASSUME s.end_flag => t.end_flag, receiver.ack # NoAckno => receiver'.ack # NoAckno
        PROVE  Forward
    BY <2>1, <2>2, <2>3 DEF LISTEN, SYN_RECV, FIN_RECV
  <2>4. CASE Arrival
    BY <2>3, <2>4 DEF Arrival, Received
  <2>5. ASSUME NEW n \in Nat, Reading(n) PROVE Forward
    BY <2>3, <2>5 DEF Reading, ReadBy
  <2> QED
    BY <1>1, <2>4, <2>5, Steps
<1>2. Inv /\ Inv' /\ [Next]_vars => [Forward]_vars
  BY <1>1
<1> QED
  BY <1>2, AlwaysInv, PTL DEF Spec, SummaryOnlyAdvances
=============================================================================
