------------------------- MODULE Components_proofs -------------------------
(***************************************************************************)
(* A ByteStream of any capacity is a bounded first-in first-out queue      *)
(* (ByteStream).  The event loop cancels every rule once, judges it by its *)
(* own result and calls no one back after the end, for any number of rules *)
(* and descriptors (EventLoop).                                            *)
(***************************************************************************)
EXTENDS ByteStream, EventLoop, SequenceTheorems, TLAPS

-----------------------------------------------------------------------------
(* ByteStream. *)

\* A prefix of a string of bytes: its type and its length.
LEMMA PrefixFacts ==
  ASSUME NEW S, NEW s \in Seq(S), NEW n \in 0 .. Len(s)
  PROVE  /\ SubSeq(s, 1, n) \in Seq(S)
         /\ Len(SubSeq(s, 1, n)) = n
<1>1. \A i \in 1 .. n : s[i] \in S
  BY ElementOfSeq, LenProperties
<1> QED
  BY <1>1, SubSeqProperties, LenProperties

\* What is left of a string behind a prefix of it: its type and its length.
LEMMA TailFacts ==
  ASSUME NEW S, NEW s \in Seq(S), NEW n \in 0 .. Len(s)
  PROVE  /\ SubSeq(s, n + 1, Len(s)) \in Seq(S)
         /\ Len(SubSeq(s, n + 1, Len(s))) = Len(s) - n
<1>1. \A i \in n + 1 .. Len(s) : s[i] \in S
  BY ElementOfSeq, LenProperties
<1>2. Len(s) \in Nat
  BY LenProperties
<1> QED
  BY <1>1, <1>2, SubSeqProperties

\* A string is a prefix of it followed by the rest: what pop_output removes and
\* what it leaves make up what was there.
LEMMA PrefixSuffix ==
  ASSUME NEW S, NEW s \in Seq(S), NEW n \in 0 .. Len(s)
  PROVE  SubSeq(s, 1, n) \o SubSeq(s, n + 1, Len(s)) = s
<1>1. Len(s) \in Nat
  BY LenProperties
<1>2. /\ 1 \in 1 .. Len(s) + 1
      /\ n \in 1 - 1 .. Len(s)
      /\ Len(s) \in n .. Len(s)
  BY <1>1
<1>3. SubSeq(s, 1, n) \o SubSeq(s, n + 1, Len(s)) = SubSeq(s, 1, Len(s))
  BY <1>2, ConcatAdjacentSubSeq
<1> QED
  BY <1>3, SubSeqFull

\* Taking the smaller of two sizes, as write() and read() do, stays within both.
LEMMA Min2Facts ==
  ASSUME NEW a \in Nat, NEW b \in Nat
  PROVE  Min2(a, b) \in 0 .. a /\ Min2(a, b) <= b
  BY DEF Min2

\* Three strings one behind the other: it does not matter which two meet first.
LEMMA Regroup ==
  \A s, t, u \in Seq(Byte) : (s \o t) \o u = s \o (t \o u)
  BY ConcatAssociative

\* A stream whose buffer and counters change stays a stream.
LEMMA Updated ==
  \A s \in ByteStreamType(Byte), b \in Seq(Byte), r \in Nat, w \in Nat :
    [s EXCEPT !.bts = b, !.read_count = r, !.write_count = w] \in ByteStreamType(Byte)
  BY DEF ByteStreamType

Inv == TypeOK /\ Fifo /\ WithinCapacity

\* One pop_output keeps the invariant; read() is a pop_output of what is there.
LEMMA PopKeepsInv ==
  ASSUME Inv, NEW len \in 0 .. Len(stream.bts),
         stream' = pop_output(stream, len),
         delivered' = delivered \o peek_output(stream, len),
         UNCHANGED accepted
  PROVE  Inv'
<1> DEFINE out == SubSeq(stream.bts, 1, len)
           rest == SubSeq(stream.bts, len + 1, Len(stream.bts))
<1>1. stream.bts \in Seq(Byte) /\ delivered \in Seq(Byte) /\ stream.read_count \in Nat
  BY DEF Inv, TypeOK, ByteStreamType
<1>2. out \in Seq(Byte) /\ Len(out) = len
  BY <1>1, PrefixFacts
<1>3. rest \in Seq(Byte) /\ Len(rest) = Len(stream.bts) - len
  BY <1>1, TailFacts
<1>4. stream' = [stream EXCEPT !.bts = rest, !.read_count = @ + len]
  BY DEF pop_output
<1>5. delivered' = delivered \o out /\ out \o rest = stream.bts
  BY <1>1, PrefixSuffix DEF peek_output
<1> HIDE DEF out, rest
<1>6. stream' \in ByteStreamType(Byte)
  <2> DEFINE r == stream.read_count + len
  <2>1. r \in Nat /\ stream.write_count \in Nat
    BY <1>1, LenProperties DEF Inv, TypeOK, ByteStreamType
  <2>2. stream' = [stream EXCEPT !.bts = rest, !.read_count = r,
                                 !.write_count = stream.write_count]
    BY <1>4 DEF Inv, TypeOK, ByteStreamType
  <2> HIDE DEF r
  <2>3. stream \in ByteStreamType(Byte)
    BY DEF Inv, TypeOK
  <2>4. [stream EXCEPT !.bts = rest, !.read_count = r, !.write_count = stream.write_count]
          \in ByteStreamType(Byte)
    BY <1>3, <2>1, <2>3, Updated, Zenon
  <2> QED
    BY <2>2, <2>4
<1>7. delivered' \in Seq(Byte) /\ Len(delivered') = Len(delivered) + len
  BY <1>1, <1>2, <1>5, ConcatProperties
<1>8. accepted = delivered' \o rest
  <2>1. (delivered \o out) \o rest = delivered \o (out \o rest)
    BY <1>1, <1>2, <1>3, Regroup, Zenon
  <2> QED
    BY <1>5, <2>1 DEF Inv, Fifo
<1>9. stream'.bts = rest /\ stream'.read_count = stream.read_count + len
      /\ stream'.write_count = stream.write_count /\ stream'.b_size = stream.b_size
  BY <1>4 DEF Inv, TypeOK, ByteStreamType
<1>10. TypeOK'
  BY <1>6, <1>7 DEF Inv, TypeOK
<1>11. Fifo'
  BY <1>7, <1>8, <1>9 DEF Inv, Fifo
<1>12. WithinCapacity'
  BY <1>1, <1>3, <1>9, LenProperties, ByteStreamAssumption DEF Inv, WithinCapacity
<1> QED
  BY <1>10, <1>11, <1>12 DEF Inv

\* One write keeps the invariant.
LEMMA WriteKeepsInv ==
  ASSUME Inv, NEW data \in Seq(Byte), Write(data)
  PROVE  Inv'
<1> DEFINE n == Min2(Len(data), remaining_capacity(stream))
           taken == SubSeq(data, 1, n)
<1>1. /\ stream.bts \in Seq(Byte) /\ delivered \in Seq(Byte) /\ accepted \in Seq(Byte)
      /\ stream.write_count \in Nat /\ stream.b_size = Capacity
      /\ Len(stream.bts) \in Nat /\ Len(stream.bts) <= Capacity /\ Len(data) \in Nat
  BY LenProperties DEF Inv, TypeOK, ByteStreamType, WithinCapacity
<1>2. n \in 0 .. Len(data) /\ n <= Capacity - Len(stream.bts)
  <2>1. remaining_capacity(stream) = Capacity - Len(stream.bts)
    BY <1>1 DEF remaining_capacity
  <2>2. remaining_capacity(stream) \in Nat
    BY <1>1, <2>1, ByteStreamAssumption
  <2>3. n \in 0 .. Len(data) /\ n <= remaining_capacity(stream)
    BY <1>1, <2>2, Min2Facts, Zenon
  <2> QED
    BY <2>1, <2>3, Zenon
<1>3. taken \in Seq(Byte) /\ Len(taken) = n
  BY <1>2, PrefixFacts
<1>4. stream' = [stream EXCEPT !.bts = @ \o taken, !.write_count = @ + n]
  BY DEF Write, write
<1>5. accepted' = accepted \o taken /\ delivered' = delivered
  BY DEF Write
<1> HIDE DEF n, taken
<1>6. stream.bts \o taken \in Seq(Byte) /\ Len(stream.bts \o taken) = Len(stream.bts) + n
  BY <1>1, <1>3, ConcatProperties
<1>7. accepted' \in Seq(Byte) /\ Len(accepted') = Len(accepted) + n
  BY <1>1, <1>3, <1>5, ConcatProperties
<1>8. stream'.bts = stream.bts \o taken /\ stream'.write_count = stream.write_count + n
      /\ stream'.read_count = stream.read_count /\ stream'.b_size = stream.b_size
  BY <1>4 DEF Inv, TypeOK, ByteStreamType
<1>9. TypeOK'
  <2>1. stream' \in ByteStreamType(Byte)
    <3> DEFINE w == stream.write_count + n
    <3>1. w \in Nat /\ stream.read_count \in Nat
      BY <1>1, <1>2 DEF Inv, TypeOK, ByteStreamType
    <3>2. stream' = [stream EXCEPT !.bts = stream.bts \o taken,
                                   !.read_count = stream.read_count, !.write_count = w]
      BY <1>4 DEF Inv, TypeOK, ByteStreamType
    <3> HIDE DEF w
    <3> QED
      BY <1>6, <3>1, <3>2, Updated, Zenon DEF Inv, TypeOK
  <2> QED
    BY <1>1, <1>5, <1>7, <2>1 DEF TypeOK
<1>10. Fifo'
  <2>1. (delivered \o stream.bts) \o taken = delivered \o (stream.bts \o taken)
    BY <1>1, <1>3, Regroup, Zenon
  <2> QED
    BY <1>5, <1>7, <1>8, <2>1 DEF Inv, Fifo
<1>11. WithinCapacity'
  BY <1>1, <1>2, <1>6, <1>8, ByteStreamAssumption DEF WithinCapacity
<1> QED
  BY <1>9, <1>10, <1>11 DEF Inv

\* Every reachable state of a ByteStream, whatever its capacity: bytes leave in the
\* order they came, the counters are exact, and the buffer fits its capacity.
THEOREM ByteStreamCorrect == Spec => [](TypeOK /\ Fifo /\ WithinCapacity)
<1>1. Init => Inv
  <2> SUFFICES ASSUME Init PROVE Inv
    OBVIOUS
  <2>1. TypeOK
    BY EmptySeq, ByteStreamAssumption DEF Init, TypeOK, NewByteStream, ByteStreamType
  <2>2. Fifo
    BY EmptySeq, ConcatEmptySeq DEF Init, Fifo, NewByteStream
  <2>3. WithinCapacity
    BY ByteStreamAssumption DEF Init, WithinCapacity, NewByteStream
  <2> QED
    BY <2>1, <2>2, <2>3 DEF Inv
<1>2. Inv /\ [Next]_vars => Inv'
  <2> SUFFICES ASSUME Inv, [Next]_vars PROVE Inv'
    OBVIOUS
  <2>1. Len(stream.bts) \in Nat
    BY LenProperties DEF Inv, TypeOK, ByteStreamType
  <2>2. ASSUME NEW data \in Strings, Write(data) PROVE Inv'
    <3>1. data \in Seq(Byte)
      BY SeqDef, ByteStreamAssumption DEF Strings
    <3> QED
      BY <2>2, <3>1, WriteKeepsInv
  <2>3. CASE EndInput
    BY <2>3 DEF EndInput, end_input, Inv, TypeOK, ByteStreamType, Fifo, WithinCapacity
  <2>4. CASE SetError
    BY <2>4 DEF SetError, set_error, Inv, TypeOK, ByteStreamType, Fifo, WithinCapacity
  <2>5. ASSUME NEW len \in 0 .. Capacity + 1, Read(len) PROVE Inv'
    <3> DEFINE n == Min2(len, buffer_size(stream))
    <3>1. n \in 0 .. Len(stream.bts)
      BY <2>1, ByteStreamAssumption DEF Min2, buffer_size
    <3> QED
      BY <2>5, <3>1, PopKeepsInv DEF Read, after_read, read_output
  <2>6. ASSUME NEW len \in 0 .. Capacity, PopOutput(len) PROVE Inv'
    <3>1. len \in 0 .. Len(stream.bts)
      BY <2>1, <2>6, ByteStreamAssumption DEF PopOutput, buffer_size
    <3> QED
      BY <2>6, <3>1, PopKeepsInv DEF PopOutput
  <2>7. CASE UNCHANGED vars
    BY <2>7 DEF vars, Inv, TypeOK, Fifo, WithinCapacity
  <2> QED
    BY <2>2, <2>3, <2>4, <2>5, <2>6, <2>7 DEF Next
<1> QED
  BY <1>1, <1>2, PTL DEF Spec, Inv
-----------------------------------------------------------------------------
(* EventLoop. *)

Reports == Direction \cup {"ERR", "HUP", "NVAL"}
RuleType == [id : 1 .. MaxRules, fd : FD, direction : Direction]
PollfdType == [id : 0 .. MaxRules, events : SUBSET Direction, revents : SUBSET Reports]
FDWrapperType == [eof : BOOLEAN, closed : BOOLEAN, served : SUBSET Direction]

\* The types of the variables that the properties depend on.
LoopTypeOK ==
  /\ rules \in Seq(RuleType) /\ pollfds \in Seq(PollfdType)
  /\ added \in 0 .. MaxRules
  /\ fds \in [FD -> FDWrapperType]
  /\ pc \in {"idle", "setup", "cancel_setup", "poll", "results", "callback",
             "cancel_results"}
  /\ it \in Nat \ {0} /\ idx \in Nat \ {0}
  /\ cancels \in [1 .. MaxRules -> Nat]
  /\ dead \subseteq FD

\* The rules are in the order in which they were added, which is the order of
\* their ids, and so no id is there twice.
InOrder ==
  /\ \A k \in 1 .. Len(rules) : rules[k].id <= added
  /\ \A j, k \in 1 .. Len(rules) : j < k => rules[j].id < rules[k].id
  /\ \A j \in 1 .. Len(pollfds) : pollfds[j].id <= added

\* pollfds[j] was made for rules[k], whose descriptor was not at its end.
MadeFor(k, j) ==
  /\ pollfds[j].id = rules[k].id
  /\ rules[k].direction = "In" => rules[k].fd \notin dead

\* Where it and idx are, and how pollfds lines up with the rules: rule by rule up
\* to it in the first loop; in the second one from it and idx on, and the rules
\* behind the last pollfd are newer than all that were polled.
LinedUp ==
  /\ pc = "idle" => it = 1 /\ idx = 1 /\ Len(pollfds) = 0
  /\ pc \in {"setup", "cancel_setup"} =>
       /\ idx = 1 /\ Len(pollfds) = it - 1 /\ Len(pollfds) <= Len(rules)
       /\ \A k \in 1 .. Len(pollfds) : MadeFor(k, k)
  /\ pc = "poll" => it = 1 /\ idx = 1 /\ Len(pollfds) = Len(rules)
  /\ pc \in {"poll", "results", "callback", "cancel_results"} =>
       /\ it <= idx /\ Len(pollfds) <= Len(rules) + (idx - it)
       /\ \A k \in it .. Len(rules) :
            IF k + (idx - it) <= Len(pollfds) THEN MadeFor(k, k + (idx - it))
            ELSE \A j \in 1 .. Len(pollfds) : pollfds[j].id < rules[k].id
  /\ pc \in {"cancel_setup", "callback", "cancel_results"} => it <= Len(rules)

\* A rule that has not been added has not been cancelled.
Unborn == \A i \in added + 1 .. MaxRules : cancels[i] = 0

DeadEnded == \A f \in dead : fds[f].eof

\* The inductive invariant.
LoopInv == LoopTypeOK /\ InOrder /\ LinedUp /\ CancelledOnce /\ Unborn /\ DeadEnded

\* What RemoveAt, the model of _rules.erase, leaves.
LEMMA RemoveAtFacts ==
  ASSUME NEW S, NEW s \in Seq(S), NEW i \in 1 .. Len(s), NEW t, t = RemoveAt(s, i)
  PROVE  /\ t \in Seq(S) /\ Len(t) = Len(s) - 1
         /\ \A k \in 1 .. Len(t) : t[k] = IF k < i THEN s[k] ELSE s[k + 1]
<1> DEFINE a == SubSeq(s, 1, i - 1)
           b == SubSeq(s, i + 1, Len(s))
<1>1. Len(s) \in Nat /\ i \in Nat /\ i >= 1 /\ i <= Len(s)
  BY LenProperties
<1>2. a \in Seq(S) /\ Len(a) = i - 1 /\ \A k \in 1 .. i - 1 : a[k] = s[k]
  BY <1>1, SubSeqProperties
<1>3. b \in Seq(S) /\ Len(b) = Len(s) - i /\ \A k \in 1 .. Len(s) - i : b[k] = s[i + k]
  BY <1>1, SubSeqProperties
<1>4. t = a \o b
  BY DEF RemoveAt
<1> HIDE DEF a, b
<1>5. Len(a) \in Nat /\ Len(b) \in Nat
  BY <1>2, <1>3, LenProperties
<1>6. t \in Seq(S) /\ Len(t) = Len(a) + Len(b)
  BY <1>2, <1>3, <1>4, ConcatProperties
<1>7. ASSUME NEW k \in 1 .. Len(t)
      PROVE  t[k] = IF k <= Len(a) THEN a[k] ELSE b[k - Len(a)]
  BY <1>2, <1>3, <1>4, <1>5, <1>6, ConcatProperties
<1>8. ASSUME NEW k \in 1 .. Len(t)
      PROVE  t[k] = IF k < i THEN s[k] ELSE s[k + 1]
  <2>1. k \in Nat /\ k >= 1 /\ k <= Len(s) - 1
    BY <1>1, <1>2, <1>3, <1>6
  <2>2. CASE k < i
    BY <1>1, <1>2, <1>7, <2>1, <2>2
  <2>3. CASE ~(k < i)
    <3>1. k - Len(a) \in 1 .. Len(s) - i /\ i + (k - Len(a)) = k + 1
      BY <1>1, <1>2, <2>1, <2>3
    <3>2. t[k] = b[k - Len(a)]
      BY <1>1, <1>2, <1>7, <2>1, <2>3
    <3> QED
      BY <1>3, <2>3, <3>1, <3>2
  <2> QED
    BY <2>2, <2>3
<1> QED
  BY <1>1, <1>2, <1>3, <1>6, <1>8

\* Append, the model of emplace_back.
LEMMA AppendedFacts ==
  ASSUME NEW S, NEW s \in Seq(S), NEW e \in S, NEW t, t = Append(s, e)
  PROVE  /\ t \in Seq(S) /\ Len(t) = Len(s) + 1 /\ Len(s) \in Nat
         /\ t[Len(t)] = e /\ \A k \in 1 .. Len(s) : t[k] = s[k]
  BY DEF Append

\* A step that changes descriptors, and ends them at most.
LEMMA DescriptorStep ==
  ASSUME LoopInv, UNCHANGED <<rules, added, loop>>,
         fds' \in [FD -> FDWrapperType], \A f \in FD : fds[f].eof => fds'[f].eof
  PROVE  LoopInv'
<1>1. LoopTypeOK'
  BY DEF LoopInv, LoopTypeOK, loop
<1>2. InOrder'
  BY DEF LoopInv, InOrder, loop
<1>3. LinedUp'
  BY DEF LoopInv, LinedUp, MadeFor, loop
<1>4. CancelledOnce'
  BY DEF LoopInv, CancelledOnce, this_rule, Ids, loop
<1>5. Unborn'
  BY DEF LoopInv, Unborn, loop
<1>6. DeadEnded'
  BY DEF LoopInv, DeadEnded, LoopTypeOK, loop
<1> QED
  BY <1>1, <1>2, <1>3, <1>4, <1>5, <1>6 DEF LoopInv

\* The application reads, writes, shuts down or closes a descriptor.
LEMMA DescriptorSteps ==
  ASSUME LoopInv, ReadFd \/ WriteFd \/ ShutdownFd \/ CloseFd
  PROVE  LoopInv'
<1>1. /\ UNCHANGED <<rules, added, loop>>
      /\ \E f \in FD, d \in FDWrapperType :
            /\ fds' = [fds EXCEPT ![f] = d]
            /\ fds[f].eof => d.eof
  <2>1. fds \in [FD -> FDWrapperType]
    BY DEF LoopInv, LoopTypeOK
  <2>2. ASSUME NEW f \in FD, NEW d \in FDWrapperType
        PROVE  Counted(f, d) \in FDWrapperType /\ Counted(f, d).eof = d.eof
    BY DEF Counted, FDWrapperType
  <2>3. CASE ReadFd
    <3>1. PICK f \in FD : \E got \in {0, 1} :
            fds' = [fds EXCEPT ![f] = Counted(f, read(fds[f], 1, got))]
      BY <2>1, <2>3 DEF ReadFd
    <3>2. PICK got \in {0, 1} : fds' = [fds EXCEPT ![f] = Counted(f, read(fds[f], 1, got))]
      BY <3>1
    <3> DEFINE d == read(fds[f], 1, got)
    <3>3. fds[f] \in FDWrapperType
      BY <2>1
    <3>4. d \in FDWrapperType /\ (fds[f].eof => d.eof)
      BY <3>3 DEF read, register_read, FDWrapperType, Direction
    <3> HIDE DEF d
    <3>5. fds' = [fds EXCEPT ![f] = Counted(f, d)]
      BY <3>2 DEF d
    <3> QED
      BY <2>2, <2>3, <3>4, <3>5 DEF ReadFd
  <2>4. CASE WriteFd
    <3>1. PICK f \in FD : fds' = [fds EXCEPT ![f] = Counted(f, register_write(fds[f]))]
      BY <2>1, <2>4 DEF WriteFd
    <3> DEFINE d == register_write(fds[f])
    <3>3. fds[f] \in FDWrapperType
      BY <2>1
    <3>4. d \in FDWrapperType /\ (fds[f].eof => d.eof)
      BY <3>3 DEF register_write, FDWrapperType, Direction
    <3> HIDE DEF d
    <3>5. fds' = [fds EXCEPT ![f] = Counted(f, d)]
      BY <3>1 DEF d
    <3> QED
      BY <2>2, <2>4, <3>4, <3>5 DEF WriteFd
  <2>5. CASE ShutdownFd
    <3>1. PICK f \in FD : \E how \in {"SHUT_RD", "SHUT_WR", "SHUT_RDWR"} :
            fds' = [fds EXCEPT ![f] = Counted(f, shutdown(fds[f], how))]
      BY <2>1, <2>5 DEF ShutdownFd
    <3>2. PICK how \in {"SHUT_RD", "SHUT_WR", "SHUT_RDWR"} :
            fds' = [fds EXCEPT ![f] = Counted(f, shutdown(fds[f], how))]
      BY <3>1
    <3> DEFINE d == shutdown(fds[f], how)
    <3>3. fds[f] \in FDWrapperType
      BY <2>1
    <3>4. d \in FDWrapperType /\ (fds[f].eof => d.eof)
      BY <3>3 DEF shutdown, FDWrapperType, Direction
    <3> HIDE DEF d
    <3>5. fds' = [fds EXCEPT ![f] = Counted(f, d)]
      BY <3>2 DEF d
    <3> QED
      BY <2>2, <2>5, <3>4, <3>5 DEF ShutdownFd
  <2>6. CASE CloseFd
    <3>1. PICK f \in FD : fds' = [fds EXCEPT ![f] = close(fds[f])]
      BY <2>1, <2>6 DEF CloseFd
    <3>2. close(fds[f]) \in FDWrapperType /\ close(fds[f]).eof
      BY <2>1 DEF close, FDWrapperType
    <3> QED
      BY <2>6, <3>1, <3>2 DEF CloseFd
  <2> QED
    BY <2>3, <2>4, <2>5, <2>6
<1>2. PICK f \in FD, d \in FDWrapperType :
        fds' = [fds EXCEPT ![f] = d] /\ (fds[f].eof => d.eof)
  BY <1>1
<1>3. fds' \in [FD -> FDWrapperType] /\ \A g \in FD : fds[g].eof => fds'[g].eof
  BY <1>2 DEF LoopInv, LoopTypeOK
<1> QED
  BY <1>1, <1>3, DescriptorStep

\* A call ends, by returning or by an exception.
LEMMA LeaveStep ==
  ASSUME LoopInv, NEW r, Leave(r), cancels' \in [1 .. MaxRules -> Nat],
         CancelledOnce', Unborn'
  PROVE  LoopInv'
<1>1. LoopTypeOK'
  <2>1. fds' \in [FD -> FDWrapperType]
    BY DEF Leave, Uncounted, LoopInv, LoopTypeOK, FDWrapperType
  <2>2. pollfds' \in Seq(PollfdType)
    BY EmptySeq DEF Leave
  <2> QED
    BY <2>1, <2>2 DEF Leave, LoopInv, LoopTypeOK
<1>2. InOrder'
  BY DEF Leave, LoopInv, InOrder
<1>3. LinedUp'
  BY DEF Leave, LinedUp
<1>4. DeadEnded'
  BY DEF Leave, DeadEnded
<1> QED
  BY <1>1, <1>2, <1>3, <1>4 DEF LoopInv

\* A call ends outside cancel().
LEMMA ReturnStep ==
  ASSUME LoopInv, NEW r, Return(r), pc \notin {"cancel_setup", "cancel_results"}
  PROVE  LoopInv'
<1>1. CancelledOnce'
  BY DEF Return, Leave, LoopInv, CancelledOnce, this_rule, Ids
<1>2. Unborn'
  BY DEF Return, Leave, LoopInv, Unborn
<1>3. cancels' \in [1 .. MaxRules -> Nat]
  BY DEF Return, LoopInv, LoopTypeOK
<1> QED
  BY <1>1, <1>2, <1>3, LeaveStep DEF Return

\* The ids in the list, by position.
LEMMA IdsFacts ==
  ASSUME LoopTypeOK, NEW i
  PROVE  i \in Ids <=> \E k \in 1 .. Len(rules) : rules[k].id = i
  BY LenProperties DEF LoopTypeOK, Ids

\* The rules and the pollfds have their types, and the ids are numbers.
LEMMA Elements ==
  ASSUME LoopTypeOK
  PROVE  /\ Len(rules) \in Nat /\ Len(pollfds) \in Nat /\ MaxRules \in Nat
         /\ \A k \in 1 .. Len(rules) :
              /\ rules[k] \in RuleType /\ rules[k].id \in 1 .. MaxRules
              /\ rules[k].id \in Nat
         /\ \A k \in 1 .. Len(pollfds) : pollfds[k] \in PollfdType /\ pollfds[k].id \in Nat
<1>1. /\ rules \in Seq(RuleType) /\ pollfds \in Seq(PollfdType) /\ MaxRules \in Nat
  BY EventLoopAssumption DEF LoopTypeOK
<1>2. Len(rules) \in Nat /\ Len(pollfds) \in Nat
  BY <1>1, LenProperties
<1>3. ASSUME NEW k \in 1 .. Len(rules)
      PROVE  rules[k] \in RuleType /\ rules[k].id \in 1 .. MaxRules /\ rules[k].id \in Nat
  <2>1. rules[k] \in RuleType
    BY <1>1, ElementOfSeq
  <2> QED
    BY <1>1, <2>1 DEF RuleType
<1>4. ASSUME NEW k \in 1 .. Len(pollfds)
      PROVE  pollfds[k] \in PollfdType /\ pollfds[k].id \in Nat
  <2>1. pollfds[k] \in PollfdType
    BY <1>1, ElementOfSeq
  <2> QED
    BY <1>1, <2>1 DEF PollfdType
<1> QED
  BY <1>1, <1>2, <1>3, <1>4

\* cancel() throws: its call is taken back, and the rule is still in the list.
LEMMA CancelThrowsStep ==
  ASSUME LoopInv, CancelThrows
  PROVE  LoopInv'
<1> DEFINE c == rules[it].id
<1>1. /\ Leave("exception") /\ cancels' = [cancels EXCEPT ![c] = @ - 1]
      /\ UNCHANGED <<rules, added>> /\ pc' = "idle"
      /\ pc \in {"cancel_setup", "cancel_results"}
  BY DEF CancelThrows, Leave, this_rule
<1>2. it \in 1 .. Len(rules)
  BY <1>1 DEF LoopInv, LoopTypeOK, LinedUp
<1>3. c \in 1 .. MaxRules
  BY <1>2, Elements DEF LoopInv
<1>4. c \in 1 .. MaxRules /\ c \in 1 .. added
  BY <1>2, <1>3 DEF LoopInv, LoopTypeOK, InOrder
<1>5. c \in Ids
  BY <1>2, IdsFacts DEF LoopInv
<1>6. cancels[c] = 1
  BY <1>1, <1>4 DEF LoopInv, CancelledOnce, this_rule
<1> HIDE DEF c
<1>7. /\ cancels' \in [1 .. MaxRules -> Nat] /\ cancels'[c] = 0
      /\ \A i \in 1 .. MaxRules : i # c => cancels'[i] = cancels[i]
  BY <1>1, <1>4, <1>6 DEF LoopInv, LoopTypeOK
<1>8. CancelledOnce'
  <2> SUFFICES ASSUME NEW i \in 1 .. added
               PROVE  cancels'[i] = IF i \notin Ids THEN 1 ELSE 0
    BY <1>1 DEF CancelledOnce, Ids
  <2>1. CASE i = c
    BY <1>5, <1>7, <2>1
  <2>2. CASE i # c
    <3>1. i \in 1 .. MaxRules
      BY EventLoopAssumption DEF LoopInv, LoopTypeOK
    <3>2. cancels[i] = IF i \notin Ids THEN 1 ELSE 0
      BY <2>2 DEF LoopInv, CancelledOnce, this_rule, c
    <3> QED
      BY <1>7, <2>2, <3>1, <3>2
  <2> QED
    BY <2>1, <2>2
<1>9. Unborn'
  <2>1. \A i \in added + 1 .. MaxRules : i \in 1 .. MaxRules /\ i # c
    BY <1>4 DEF LoopInv, LoopTypeOK
  <2> QED
    BY <1>1, <1>7, <2>1 DEF LoopInv, Unborn
<1> QED
  BY <1>1, <1>7, <1>8, <1>9, LeaveStep

\* A rule is added: it is the newest, at the end of the list.
LEMMA AddRuleStep ==
  ASSUME LoopInv, AddRule
  PROVE  LoopInv'
<1>1. PICK f \in FD, d \in Direction :
        rules' = Append(rules, [id |-> added + 1, fd |-> f, direction |-> d])
  BY DEF AddRule
<1> DEFINE r == [id |-> added + 1, fd |-> f, direction |-> d]
<1>2. /\ added \in Nat /\ added + 1 \in 1 .. MaxRules /\ added' = added + 1
      /\ UNCHANGED <<fds, pc, it, pollfds, idx, result, cancels, dead>>
  BY EventLoopAssumption DEF LoopInv, LoopTypeOK, AddRule, loop
<1>3. r \in RuleType /\ r.id = added + 1
  BY <1>2 DEF RuleType
<1> HIDE DEF r
<1>4. /\ rules' \in Seq(RuleType) /\ Len(rules') = Len(rules) + 1
      /\ Len(rules) \in Nat /\ rules'[Len(rules) + 1] = r
      /\ \A k \in 1 .. Len(rules) : rules'[k] = rules[k]
  <2>1. rules \in Seq(RuleType) /\ rules' = Append(rules, r)
    BY <1>1 DEF LoopInv, LoopTypeOK, r
  <2> QED
    BY <1>3, <2>1, AppendedFacts
<1>5. LoopTypeOK'
  BY <1>2, <1>4, EventLoopAssumption DEF LoopInv, LoopTypeOK
<1>6. InOrder'
  <2>1. \A k \in 1 .. Len(rules) : rules[k].id \in Nat
    BY Elements DEF LoopInv
  <2>2. \A k \in 1 .. Len(pollfds) : pollfds[k].id \in Nat
    BY Elements DEF LoopInv
  <2>3. \A k \in 1 .. Len(rules) : rules[k].id <= added
    BY DEF LoopInv, InOrder
  <2>4. ASSUME NEW k \in 1 .. Len(rules') PROVE rules'[k].id <= added'
    <3>1. CASE k = Len(rules) + 1
      BY <1>2, <1>3, <1>4, <3>1
    <3>2. CASE k \in 1 .. Len(rules)
      BY <1>2, <1>4, <2>1, <2>3, <3>2
    <3> QED
      BY <1>4, <3>1, <3>2
  <2>5. ASSUME NEW j \in 1 .. Len(rules'), NEW k \in 1 .. Len(rules'), j < k
        PROVE  rules'[j].id < rules'[k].id
    <3>1. j \in 1 .. Len(rules) /\ rules'[j] = rules[j]
      BY <1>4, <2>5
    <3>2. CASE k = Len(rules) + 1
      BY <1>2, <1>3, <1>4, <2>1, <2>3, <3>1, <3>2
    <3>3. CASE k \in 1 .. Len(rules)
      BY <1>4, <2>5, <3>1, <3>3 DEF LoopInv, InOrder
    <3> QED
      BY <1>4, <3>2, <3>3
  <2>6. \A j \in 1 .. Len(pollfds') : pollfds'[j].id <= added'
    BY <1>2, <2>2 DEF LoopInv, InOrder
  <2> QED
    BY <2>4, <2>5, <2>6 DEF InOrder
<1>7. LinedUp'
  <2>1. /\ it \in Nat /\ idx \in Nat /\ Len(pollfds) \in Nat
        /\ pollfds \in Seq(PollfdType)
    BY LenProperties DEF LoopInv, LoopTypeOK
  <2>2. \A k \in 1 .. Len(pollfds) : pollfds[k].id \in Nat /\ pollfds[k].id < added + 1
    BY <1>2, Elements DEF LoopInv, InOrder
  <2>3. CASE pc = "cancel_setup"
    <3>1. /\ idx = 1 /\ Len(pollfds) = it - 1 /\ Len(pollfds) <= Len(rules)
          /\ \A k \in 1 .. Len(pollfds) : MadeFor(k, k)
          /\ it <= Len(rules)
      BY <2>3 DEF LoopInv, LinedUp
    <3>2. \A k \in 1 .. Len(pollfds) : MadeFor(k, k)'
      BY <1>2, <1>4, <2>1, <3>1 DEF MadeFor
    <3> QED
      BY <1>2, <1>4, <2>1, <2>3, <3>1, <3>2 DEF LinedUp
  <2>4. CASE pc \in {"callback", "cancel_results"}
    <3>1. /\ it <= idx /\ Len(pollfds) <= Len(rules) + (idx - it) /\ it <= Len(rules)
          /\ \A k \in it .. Len(rules) :
               IF k + (idx - it) <= Len(pollfds) THEN MadeFor(k, k + (idx - it))
               ELSE \A j \in 1 .. Len(pollfds) : pollfds[j].id < rules[k].id
      BY <2>4 DEF LoopInv, LinedUp
    <3>2. ASSUME NEW k \in it .. Len(rules')
          PROVE  IF k + (idx - it) <= Len(pollfds)
                   THEN /\ pollfds[k + (idx - it)].id = rules'[k].id
                        /\ rules'[k].direction = "In" => rules'[k].fd \notin dead
                   ELSE \A j \in 1 .. Len(pollfds) : pollfds[j].id < rules'[k].id
      <4>1. CASE k = Len(rules) + 1
        BY <1>3, <1>4, <2>1, <2>2, <3>1, <4>1
      <4>2. CASE k \in it .. Len(rules)
        <5>1. rules'[k] = rules[k]
          BY <1>4, <2>1, <4>2 DEF LoopInv, LoopTypeOK
        <5> QED
          BY <3>1, <4>2, <5>1 DEF MadeFor
      <4> QED
        BY <1>4, <2>1, <4>1, <4>2
    <3> QED
      BY <1>2, <1>4, <2>1, <2>4, <3>1, <3>2 DEF LinedUp, MadeFor
  <2>5. CASE pc = "idle"
    BY <1>2, <2>5 DEF LoopInv, LinedUp
  <2> QED
    BY <2>3, <2>4, <2>5 DEF AddRule, Running
<1>8. CancelledOnce'
  <2> SUFFICES ASSUME NEW i \in 1 .. added + 1
               PROVE  cancels[i] = IF i \notin Ids' \/ (/\ pc \in {"cancel_setup", "cancel_results"}
                                                        /\ this_rule'.id = i)
                                     THEN 1 ELSE 0
    BY <1>2 DEF CancelledOnce
  <2>1. i \in Ids' <=> \E k \in 1 .. Len(rules') : rules'[k].id = i
    BY <1>5, LenProperties DEF LoopTypeOK, Ids
  <2>2. pc \in {"cancel_setup", "cancel_results"} =>
          this_rule' = this_rule /\ it \in 1 .. Len(rules)
    BY <1>2, <1>4 DEF LoopInv, LoopTypeOK, LinedUp, this_rule
  <2>3. CASE i = added + 1
    <3>1. i \in Ids' /\ cancels[i] = 0
      BY <1>2, <1>3, <1>4, <2>1, <2>3 DEF LoopInv, Unborn
    <3>2. pc \in {"cancel_setup", "cancel_results"} => this_rule.id # i
      BY <1>2, <2>2, <2>3 DEF LoopInv, LoopTypeOK, RuleType, InOrder, this_rule
    <3> QED
      BY <2>2, <3>1, <3>2
  <2>4. CASE i \in 1 .. added
    <3>1. i \in Ids' <=> i \in Ids
      BY <1>2, <1>3, <1>4, <2>1, <2>4, IdsFacts DEF LoopInv
    <3> QED
      BY <2>2, <2>4, <3>1 DEF LoopInv, CancelledOnce
  <2> QED
    BY <1>2, <2>3, <2>4
<1>9. Unborn' /\ DeadEnded'
  BY <1>2 DEF LoopInv, Unborn, DeadEnded
<1> QED
  BY <1>5, <1>6, <1>7, <1>8, <1>9 DEF LoopInv

\* cancel() is called for a rule of the list.
LEMMA CancelStep ==
  ASSUME LoopInv, NEW then, Cancel(then), it <= Len(rules),
         \/ pc = "setup" /\ then = "cancel_setup"
         \/ pc = "results" /\ then = "cancel_results"
  PROVE  LoopInv'
<1>1. /\ UNCHANGED <<rules, added, fds, it, pollfds, idx, dead>>
      /\ pc' = then /\ cancels' = [cancels EXCEPT ![this_rule.id] = @ + 1]
  BY DEF Cancel, app
<1>2. it \in 1 .. Len(rules) /\ this_rule \in RuleType /\ this_rule.id \in 1 .. MaxRules
  BY Elements DEF LoopInv, LoopTypeOK, this_rule
<1>3. LoopTypeOK'
  BY <1>1, <1>2 DEF LoopInv, LoopTypeOK
<1>4. InOrder'
  BY <1>1 DEF LoopInv, InOrder
<1>5. LinedUp'
  BY <1>1, <1>2 DEF LoopInv, LinedUp, MadeFor
<1>6. CancelledOnce'
  <2> SUFFICES ASSUME NEW i \in 1 .. added
               PROVE  cancels'[i] = IF i \notin Ids \/ this_rule.id = i THEN 1 ELSE 0
    BY <1>1 DEF CancelledOnce, Ids, this_rule
  <2>1. this_rule.id \in Ids
    BY <1>2, IdsFacts DEF LoopInv, this_rule
  <2>2. cancels[i] = IF i \notin Ids THEN 1 ELSE 0
    BY DEF LoopInv, CancelledOnce
  <2>3. i \in 1 .. MaxRules /\ cancels \in [1 .. MaxRules -> Nat]
    BY EventLoopAssumption DEF LoopInv, LoopTypeOK
  <2> QED
    BY <1>1, <1>2, <2>1, <2>2, <2>3
<1>7. Unborn'
  <2>1. this_rule.id <= added
    BY <1>2 DEF LoopInv, InOrder, this_rule
  <2> QED
    BY <1>1, <1>2, <2>1, EventLoopAssumption DEF LoopInv, LoopTypeOK, Unborn
<1>8. DeadEnded'
  BY <1>1 DEF LoopInv, DeadEnded
<1> QED
  BY <1>3, <1>4, <1>5, <1>6, <1>7, <1>8 DEF LoopInv

\* The cancelled rule is erased: the list moves up by one behind it.
LEMMA EraseStep ==
  ASSUME LoopInv, NEW back, EraseRule(back),
         \/ pc = "cancel_setup" /\ back = "setup"
         \/ pc = "cancel_results" /\ back = "results"
  PROVE  LoopInv'
<1>1. /\ UNCHANGED <<added, fds, it, pollfds, cancels, dead>>
      /\ pc' = back /\ rules' = RemoveAt(rules, it)
      /\ idx' = IF back = "results" THEN idx + 1 ELSE idx
  BY DEF EraseRule
<1>2. /\ it \in 1 .. Len(rules) /\ it \in Nat /\ idx \in Nat /\ Len(rules) \in Nat
      /\ Len(pollfds) \in Nat
  BY LenProperties DEF LoopInv, LoopTypeOK, LinedUp
<1>3. /\ rules' \in Seq(RuleType) /\ Len(rules') = Len(rules) - 1
      /\ \A k \in 1 .. Len(rules') : rules'[k] = IF k < it THEN rules[k] ELSE rules[k + 1]
  BY <1>1, <1>2, RemoveAtFacts DEF LoopInv, LoopTypeOK
<1>4. LoopTypeOK'
  BY <1>1, <1>2, <1>3 DEF LoopInv, LoopTypeOK
<1>5. /\ \A k \in 1 .. Len(rules) : rules[k].id \in Nat
      /\ \A j, k \in 1 .. Len(rules) : j < k => rules[j].id < rules[k].id
  BY Elements DEF LoopInv, InOrder
<1>6. InOrder'
  <2>1. \A k \in 1 .. Len(rules') : k + 1 \in 1 .. Len(rules) /\ k \in 1 .. Len(rules)
    BY <1>2, <1>3
  <2>2. \A k \in 1 .. Len(rules') : rules'[k].id <= added'
    BY <1>1, <1>3, <2>1 DEF LoopInv, InOrder
  <2>3. ASSUME NEW j \in 1 .. Len(rules'), NEW k \in 1 .. Len(rules'), j < k
        PROVE  rules'[j].id < rules'[k].id
    <3>1. PICK a \in 1 .. Len(rules) : rules'[j] = rules[a] /\ a = IF j < it THEN j ELSE j + 1
      BY <1>3, <2>1
    <3>2. PICK b \in 1 .. Len(rules) : rules'[k] = rules[b] /\ b = IF k < it THEN k ELSE k + 1
      BY <1>3, <2>1
    <3>3. a < b
      BY <1>2, <2>3, <3>1, <3>2
    <3> QED
      BY <1>5, <3>1, <3>2, <3>3
  <2>4. \A j \in 1 .. Len(pollfds') : pollfds'[j].id <= added'
    BY <1>1 DEF LoopInv, InOrder
  <2> QED
    BY <2>2, <2>3, <2>4 DEF InOrder
<1>7. LinedUp'
  <2>1. CASE back = "setup"
    BY <1>1, <1>2, <1>3, <2>1 DEF LoopInv, LinedUp, MadeFor
  <2>2. CASE back = "results"
    <3>1. /\ it <= idx /\ Len(pollfds) <= Len(rules) + (idx - it)
          /\ \A k \in it .. Len(rules) :
               IF k + (idx - it) <= Len(pollfds) THEN MadeFor(k, k + (idx - it))
               ELSE \A j \in 1 .. Len(pollfds) : pollfds[j].id < rules[k].id
      BY <2>2 DEF LoopInv, LinedUp
    <3>2. idx' = idx + 1 /\ pc' = "results"
      BY <1>1, <2>2
    <3>3. ASSUME NEW k \in it .. Len(rules')
          PROVE  /\ rules'[k] = rules[k + 1] /\ k + 1 \in it .. Len(rules)
                 /\ k + (idx' - it) = (k + 1) + (idx - it)
      BY <1>2, <1>3, <3>2
    <3>4. \A k \in it .. Len(rules') :
               IF k + (idx' - it) <= Len(pollfds)
                 THEN /\ pollfds[k + (idx' - it)].id = rules'[k].id
                      /\ rules'[k].direction = "In" => rules'[k].fd \notin dead
                 ELSE \A j \in 1 .. Len(pollfds) : pollfds[j].id < rules'[k].id
      BY <1>1, <3>1, <3>2, <3>3 DEF MadeFor
    <3> QED
      BY <1>1, <1>2, <1>3, <3>1, <3>2, <3>4 DEF LinedUp, MadeFor
  <2> QED
    BY <2>1, <2>2
<1>8. CancelledOnce'
  <2> SUFFICES ASSUME NEW i \in 1 .. added
               PROVE  cancels[i] = IF i \notin Ids' THEN 1 ELSE 0
    BY <1>1 DEF CancelledOnce
  <2>1. i \in Ids' <=> \E k \in 1 .. Len(rules') : rules'[k].id = i
    BY <1>4, LenProperties DEF LoopTypeOK, Ids
  <2>2. ASSUME i \in Ids' PROVE i \in Ids /\ i # rules[it].id
    <3>1. PICK k \in 1 .. Len(rules') : rules'[k].id = i
      BY <2>1, <2>2
    <3> DEFINE moved == IF k < it THEN k ELSE k + 1
    <3>2. moved \in 1 .. Len(rules) /\ moved # it
      BY <1>2, <1>3
    <3>3. rules'[k] = rules[moved]
      BY <1>3
    <3> HIDE DEF moved
    <3>4. PICK j \in 1 .. Len(rules) : j # it /\ rules[j].id = i
      BY <3>1, <3>2, <3>3
    <3>5. rules[j].id # rules[it].id
      <4>1. rules[j].id \in Nat /\ rules[it].id \in Nat
        BY <1>2, <1>5
      <4>2. j < it => rules[j].id < rules[it].id
        BY <1>2, <1>5
      <4>3. it < j => rules[it].id < rules[j].id
        BY <1>2, <1>5
      <4> QED
        BY <1>2, <3>4, <4>1, <4>2, <4>3
    <3>6. i \in Ids
      BY <3>4, IdsFacts DEF LoopInv
    <3> QED
      BY <3>4, <3>5, <3>6
  <2>3. ASSUME i \in Ids, i # rules[it].id PROVE i \in Ids'
    <3>1. PICK j \in 1 .. Len(rules) : rules[j].id = i
      BY <2>3, IdsFacts DEF LoopInv
    <3>2. CASE j < it
      BY <1>2, <1>3, <2>1, <3>1, <3>2
    <3>3. CASE j > it
      <4>1. j - 1 \in 1 .. Len(rules') /\ rules'[j - 1] = rules[j]
        BY <1>2, <1>3, <3>1, <3>3
      <4> QED
        BY <2>1, <3>1, <4>1
    <3> QED
      BY <1>2, <2>3, <3>1, <3>2, <3>3
  <2> QED
    BY <2>2, <2>3 DEF LoopInv, CancelledOnce, this_rule
<1>9. Unborn' /\ DeadEnded'
  BY <1>1 DEF LoopInv, Unborn, DeadEnded
<1> QED
  BY <1>4, <1>6, <1>7, <1>8, <1>9 DEF LoopInv

\* A pollfd is made for the rule at it, whose descriptor is not at its end.
LEMMA SetupPollfdStep ==
  ASSUME LoopInv, SetupPollfd
  PROVE  LoopInv'
<1>1. /\ UNCHANGED <<rules, added, fds, pc, idx, cancels, dead>> /\ pc = "setup"
      /\ it' = it + 1 /\ it <= Len(rules) /\ ~Done(this_rule)
  BY DEF SetupPollfd, app
<1>2. /\ it \in 1 .. Len(rules) /\ it \in Nat /\ Len(rules) \in Nat
      /\ Len(pollfds) \in Nat /\ this_rule \in RuleType
      /\ this_rule.id \in 1 .. MaxRules /\ MaxRules \in Nat
  BY <1>1, Elements DEF LoopInv, LoopTypeOK, this_rule
<1>3. PICK p \in PollfdType : pollfds' = Append(pollfds, p) /\ p.id = this_rule.id
  <2> DEFINE e == IF this_rule.id \in interest THEN {this_rule.direction} ELSE {}
             q == [id |-> this_rule.id, events |-> e, revents |-> {}]
  <2>1. pollfds' = Append(pollfds, q)
    BY DEF SetupPollfd
  <2>2. e \in SUBSET Direction
    BY <1>2 DEF RuleType
  <2> HIDE DEF e
  <2>3. q \in PollfdType /\ q.id = this_rule.id
    BY <1>2, <2>2 DEF PollfdType
  <2> QED
    BY <2>1, <2>3
<1>4. /\ pollfds' \in Seq(PollfdType) /\ Len(pollfds') = Len(pollfds) + 1
      /\ pollfds'[Len(pollfds) + 1] = p
      /\ \A k \in 1 .. Len(pollfds) : pollfds'[k] = pollfds[k]
  BY <1>3, AppendedFacts DEF LoopInv, LoopTypeOK
<1>5. LoopTypeOK'
  BY <1>1, <1>2, <1>4 DEF LoopInv, LoopTypeOK
<1>6. InOrder'
  <2>1. p.id <= added
    BY <1>2, <1>3 DEF LoopInv, InOrder, this_rule
  <2>2. \A j \in 1 .. Len(pollfds') : pollfds'[j].id <= added
    BY <1>2, <1>4, <2>1 DEF LoopInv, InOrder
  <2> QED
    BY <1>1, <2>2 DEF LoopInv, InOrder
<1>7. LinedUp'
  <2>1. /\ idx = 1 /\ Len(pollfds) = it - 1
        /\ \A k \in 1 .. Len(pollfds) : MadeFor(k, k)
    BY <1>1 DEF LoopInv, LinedUp
  <2>2. this_rule.direction = "In" => this_rule.fd \notin dead
    BY <1>1 DEF Done, LoopInv, DeadEnded
  <2>3. \A k \in {it} : MadeFor(k, k)'
    BY <1>1, <1>2, <1>3, <1>4, <2>1, <2>2 DEF MadeFor, this_rule
  <2>4. \A k \in 1 .. Len(pollfds) : MadeFor(k, k)'
    BY <1>1, <1>4, <2>1 DEF MadeFor
  <2>5. \A k \in 1 .. Len(pollfds') : MadeFor(k, k)'
    <3>1. \A k \in 1 .. Len(pollfds') : k = it \/ k \in 1 .. Len(pollfds)
      BY <1>2, <1>4, <2>1
    <3> QED
      BY <2>3, <2>4, <3>1
  <2> QED
    BY <1>1, <1>2, <1>4, <2>1, <2>5 DEF LinedUp
<1>8. CancelledOnce'
  BY <1>1 DEF LoopInv, CancelledOnce, Ids
<1>9. Unborn' /\ DeadEnded'
  BY <1>1 DEF LoopInv, Unborn, DeadEnded
<1> QED
  BY <1>5, <1>6, <1>7, <1>8, <1>9 DEF LoopInv

\* The first loop ends, and poll is called unless there is nothing to poll.
LEMMA SetupDoneStep ==
  ASSUME LoopInv, SetupDone
  PROVE  LoopInv'
<1>1. CASE ~something_to_poll
  BY <1>1, ReturnStep DEF SetupDone
<1>2. CASE something_to_poll
  <2>1. /\ UNCHANGED <<rules, added, fds, pollfds, idx, cancels, dead>>
        /\ pc = "setup" /\ pc' = "poll" /\ it' = 1 /\ it > Len(rules)
    BY <1>2 DEF SetupDone, app
  <2>2. /\ it \in Nat /\ Len(rules) \in Nat /\ Len(pollfds) \in Nat
        /\ idx = 1 /\ Len(pollfds) = it - 1 /\ Len(pollfds) <= Len(rules)
        /\ \A k \in 1 .. Len(pollfds) : MadeFor(k, k)
    BY <2>1, Elements DEF LoopInv, LinedUp, LoopTypeOK
  <2>3. Len(pollfds) = Len(rules)
    BY <2>1, <2>2
  <2>4. \A k \in 1 .. Len(rules) : MadeFor(k, k)'
    BY <2>1, <2>2, <2>3 DEF MadeFor
  <2>5. \A k \in 1 .. Len(rules) : k + (idx' - it') = k /\ k <= Len(pollfds)
    BY <2>1, <2>2, <2>3
  <2>6. LinedUp'
    BY <2>1, <2>2, <2>3, <2>4, <2>5 DEF LinedUp
  <2>7. LoopTypeOK' /\ InOrder'
    BY <2>1 DEF LoopInv, LoopTypeOK, InOrder
  <2>8. CancelledOnce' /\ Unborn' /\ DeadEnded'
    BY <2>1 DEF LoopInv, CancelledOnce, Ids, Unborn, DeadEnded
  <2> QED
    BY <2>6, <2>7, <2>8 DEF LoopInv
<1> QED
  BY <1>1, <1>2

\* poll returns, with results or an error that is dropped: the second loop starts.
LEMMA PollStep ==
  ASSUME LoopInv, PollReturns \/ PollFails
  PROVE  LoopInv'
<1>1. /\ UNCHANGED <<rules, added, fds, it, idx, cancels, dead>>
      /\ pc = "poll" /\ pc' = "results"
  BY DEF PollReturns, PollFails, app
<1>2. /\ pollfds' \in Seq(PollfdType) /\ Len(pollfds') = Len(pollfds)
      /\ \A k \in 1 .. Len(pollfds) : pollfds'[k].id = pollfds[k].id
  <2>1. CASE PollFails
    BY <2>1 DEF PollFails, LoopInv, LoopTypeOK
  <2>2. CASE PollReturns
    <3>1. /\ pollfds \in Seq(PollfdType) /\ Len(pollfds) \in Nat
          /\ DOMAIN pollfds = 1 .. Len(pollfds)
      BY LenProperties DEF LoopInv, LoopTypeOK
    <3>2. ASSUME NEW p \in PollfdType PROVE Revents(p) \in SUBSET Reports
      BY DEF Revents, PollfdType, Reports, Direction
    <3>3. ASSUME NEW p \in PollfdType
          PROVE  /\ [p EXCEPT !.revents = Revents(p)] \in PollfdType
                 /\ [p EXCEPT !.revents = Revents(p)].id = p.id
      BY <3>2 DEF PollfdType
    <3>4. \A k \in 1 .. Len(pollfds) :
            pollfds[k] \in PollfdType
      BY Elements DEF LoopInv
    <3>5. pollfds' = [k \in 1 .. Len(pollfds) |->
                        [pollfds[k] EXCEPT !.revents = Revents(pollfds[k])]]
      BY <2>2, <3>1 DEF PollReturns
    <3>6. pollfds' \in [1 .. Len(pollfds) -> PollfdType]
      BY <3>3, <3>4, <3>5
    <3>7. pollfds' \in Seq(PollfdType) /\ Len(pollfds') = Len(pollfds)
      BY <3>1, <3>6, SeqDef, LenProperties
    <3> QED
      BY <3>3, <3>4, <3>5, <3>7
  <2> QED
    BY <2>1, <2>2
<1>3. LoopTypeOK'
  BY <1>1, <1>2 DEF LoopInv, LoopTypeOK
<1>4. InOrder'
  BY <1>1, <1>2 DEF LoopInv, InOrder
<1>5. LinedUp'
  <2>1. /\ it = 1 /\ idx = 1 /\ Len(pollfds) = Len(rules) /\ Len(rules) \in Nat
        /\ \A k \in it .. Len(rules) :
               IF k + (idx - it) <= Len(pollfds) THEN MadeFor(k, k + (idx - it))
               ELSE \A j \in 1 .. Len(pollfds) : pollfds[j].id < rules[k].id
    BY <1>1, Elements DEF LoopInv, LinedUp
  <2>2. \A k \in 1 .. Len(rules) : k + (idx - it) = k
    BY <2>1
  <2>3. \A k \in 1 .. Len(rules) : MadeFor(k, k)'
    BY <1>1, <1>2, <2>1, <2>2 DEF MadeFor
  <2> QED
    BY <1>1, <1>2, <2>1, <2>2, <2>3 DEF LinedUp
<1>6. CancelledOnce'
  BY <1>1 DEF LoopInv, CancelledOnce, Ids
<1>7. Unborn' /\ DeadEnded'
  BY <1>1 DEF LoopInv, Unborn, DeadEnded
<1> QED
  BY <1>3, <1>4, <1>5, <1>6, <1>7 DEF LoopInv

\* The second loop goes on to the next rule and the next pollfd.
LEMMA NextRuleStep ==
  ASSUME LoopInv, pc \in {"results", "callback"}, it <= Len(rules),
         pc' = "results", it' = it + 1, idx' = idx + 1,
         UNCHANGED <<rules, added, pollfds, cancels, dead>>,
         fds' \in [FD -> FDWrapperType], \A f \in FD : fds[f].eof => fds'[f].eof
  PROVE  LoopInv'
<1>1. /\ it \in Nat /\ it >= 1 /\ idx \in Nat /\ Len(rules) \in Nat /\ Len(pollfds) \in Nat
      /\ it <= idx /\ Len(pollfds) <= Len(rules) + (idx - it)
      /\ \A k \in it .. Len(rules) :
             IF k + (idx - it) <= Len(pollfds) THEN MadeFor(k, k + (idx - it))
             ELSE \A j \in 1 .. Len(pollfds) : pollfds[j].id < rules[k].id
  BY Elements DEF LoopInv, LinedUp, LoopTypeOK
<1>2. idx' - it' = idx - it
  BY <1>1
<1>3. LoopTypeOK'
  BY <1>1 DEF LoopInv, LoopTypeOK
<1>4. InOrder'
  BY DEF LoopInv, InOrder
<1>5. LinedUp'
  <2>1. \A k \in it' .. Len(rules) : k \in it .. Len(rules)
    BY <1>1
  <2>2. it' <= idx' /\ Len(pollfds') <= Len(rules') + (idx' - it')
    BY <1>1, <1>2
  <2>3. \A k \in it' .. Len(rules') :
          IF k + (idx' - it') <= Len(pollfds')
            THEN /\ pollfds'[k + (idx' - it')].id = rules'[k].id
                 /\ rules'[k].direction = "In" => rules'[k].fd \notin dead'
            ELSE \A j \in 1 .. Len(pollfds') : pollfds'[j].id < rules'[k].id
    BY <1>1, <1>2, <2>1 DEF MadeFor
  <2> QED
    BY <2>2, <2>3 DEF LinedUp, MadeFor
<1>6. CancelledOnce'
  BY DEF LoopInv, CancelledOnce, Ids
<1>7. Unborn' /\ DeadEnded'
  BY DEF LoopInv, LoopTypeOK, Unborn, DeadEnded
<1> QED
  BY <1>3, <1>4, <1>5, <1>6, <1>7 DEF LoopInv

\* A rule is judged by a pollfd.
LEMMA ResultsStep ==
  ASSUME LoopInv, Results
  PROVE  LoopInv'
<1>1. CASE ~(it <= Len(rules))
  BY <1>1, ReturnStep DEF Results
<1>2. CASE it <= Len(rules)
  <2>1. PICK p \in ThisPollfd : Judge(p)
    BY <1>2 DEF Results
  <2>2. CASE Return("exception")
    BY <2>2, ReturnStep DEF Results
  <2>3. CASE Cancel("cancel_results")
    BY <1>2, <2>3, CancelStep DEF Results
  <2>4. CASE pc' = "callback" /\ UNCHANGED <<app, it, pollfds, idx, cancels, dead>>
    <3>1. LoopTypeOK' /\ InOrder'
      BY <2>4 DEF LoopInv, LoopTypeOK, InOrder, app
    <3>2. LinedUp'
      BY <1>2, <2>4 DEF LoopInv, LinedUp, MadeFor, app, Results
    <3>3. CancelledOnce' /\ Unborn' /\ DeadEnded'
      BY <2>4 DEF LoopInv, CancelledOnce, Ids, Unborn, DeadEnded, app, Results
    <3> QED
      BY <3>1, <3>2, <3>3 DEF LoopInv
  <2>5. CASE /\ it' = it + 1 /\ idx' = idx + 1
             /\ UNCHANGED <<app, pc, pollfds, cancels, dead>>
    BY <1>2, <2>5, NextRuleStep DEF Results, LoopInv, LoopTypeOK, app
  <2> QED
    BY <2>1, <2>2, <2>3, <2>4, <2>5 DEF Judge
<1> QED
  BY <1>1, <1>2

\* A callback returns.
LEMMA CallbackStep ==
  ASSUME LoopInv, CallbackReturns
  PROVE  LoopInv'
<1>1. CASE Return("exception")
  BY <1>1, ReturnStep DEF CallbackReturns
<1>2. CASE /\ pc' = "results" /\ it' = it + 1 /\ idx' = idx + 1
           /\ fds' = Uncounted /\ UNCHANGED <<rules, added, pollfds, cancels, dead>>
  <2>1. /\ fds' \in [FD -> FDWrapperType]
        /\ \A f \in FD : fds[f].eof => fds'[f].eof
    BY <1>2 DEF Uncounted, LoopInv, LoopTypeOK, FDWrapperType
  <2>2. it <= Len(rules) /\ pc \in {"results", "callback"}
    BY DEF LoopInv, LinedUp, CallbackReturns
  <2> QED
    BY <1>2, <2>1, <2>2, NextRuleStep
<1> QED
  BY <1>1, <1>2 DEF CallbackReturns

\* A call begins.
LEMMA CallStep ==
  ASSUME LoopInv, Call
  PROVE  LoopInv'
<1>1. /\ UNCHANGED <<rules, added, fds, it, pollfds, idx, cancels>>
      /\ pc = "idle" /\ pc' = "setup" /\ dead' = {f \in FD : fds[f].eof}
  BY DEF Call, app
<1>2. it = 1 /\ idx = 1 /\ Len(pollfds) = 0 /\ Len(rules) \in Nat
  BY <1>1, Elements DEF LoopInv, LinedUp
<1>3. LoopTypeOK' /\ InOrder'
  BY <1>1 DEF LoopInv, LoopTypeOK, InOrder
<1>4. LinedUp'
  BY <1>1, <1>2 DEF LinedUp
<1>5. CancelledOnce' /\ Unborn' /\ DeadEnded'
  BY <1>1 DEF LoopInv, CancelledOnce, Ids, Unborn, DeadEnded
<1> QED
  BY <1>3, <1>4, <1>5 DEF LoopInv

\* The invariant is inductive.
LEMMA LoopInvHolds == LoopSpec => []LoopInv
<1>1. LoopInit => LoopInv
  <2> SUFFICES ASSUME LoopInit PROVE LoopInv
    OBVIOUS
  <2>1. fds \in [FD -> FDWrapperType]
    BY DEF LoopInit, NewFDWrapper, FDWrapperType
  <2>2. rules = <<>> /\ pollfds = <<>> /\ Len(rules) = 0 /\ Len(pollfds) = 0
    BY EmptySeq DEF LoopInit
  <2>3. LoopTypeOK
    BY <2>1, <2>2, EmptySeq, EventLoopAssumption DEF LoopInit, LoopTypeOK
  <2>4. InOrder /\ LinedUp
    BY <2>2 DEF LoopInit, InOrder, LinedUp
  <2>5. CancelledOnce /\ Unborn /\ DeadEnded
    BY EventLoopAssumption DEF LoopInit, CancelledOnce, Unborn, DeadEnded
  <2> QED
    BY <2>3, <2>4, <2>5 DEF LoopInv
<1>2. LoopInv /\ [LoopNext]_loopVars => LoopInv'
  <2> SUFFICES ASSUME LoopInv, [LoopNext]_loopVars PROVE LoopInv'
    OBVIOUS
  <2>1. CASE Application
    <3>1. CASE ChangeInterest
      BY <3>1, DescriptorStep DEF ChangeInterest, LoopInv, LoopTypeOK
    <3> QED
      BY <2>1, <3>1, AddRuleStep, DescriptorSteps DEF Application
  <2>2. CASE Call
    BY <2>2, CallStep
  <2>3. CASE WaitNextEvent
    <3>1. CASE SetupCancel
      BY <3>1, CancelStep DEF SetupCancel
    <3>2. CASE SetupPollfd
      BY <3>2, SetupPollfdStep
    <3>3. CASE SetupDone
      BY <3>3, SetupDoneStep
    <3>4. CASE SetupErase
      BY <3>4, EraseStep DEF SetupErase
    <3>5. CASE PollReturns
      BY <3>5, PollStep
    <3>6. CASE PollTimeout
      BY <3>6, ReturnStep DEF PollTimeout
    <3>7. CASE Results
      BY <3>7, ResultsStep
    <3>8. CASE ResultsErase
      BY <3>8, EraseStep DEF ResultsErase
    <3>9. CASE CallbackReturns
      BY <3>9, CallbackStep
    <3> QED
      BY <2>3, <3>1, <3>2, <3>3, <3>4, <3>5, <3>6, <3>7, <3>8, <3>9 DEF WaitNextEvent
  <2>4. CASE PollInterrupted
    BY <2>4, ReturnStep DEF PollInterrupted
  <2>5. CASE PollFails
    BY <2>5, PollStep
  <2>6. CASE CallbackThrows \/ InterestThrows
    BY <2>6, ReturnStep DEF CallbackThrows, InterestThrows
  <2>8. CASE CancelThrows
    BY <2>8, CancelThrowsStep
  <2>7. CASE Environment \/ UNCHANGED loopVars
    BY <2>7, DescriptorStep DEF Environment, loopVars, app, LoopInv, LoopTypeOK
  <2> QED
    BY <2>1, <2>2, <2>3, <2>4, <2>5, <2>6, <2>7, <2>8 DEF LoopNext
<1> QED
  BY <1>1, <1>2, PTL DEF LoopSpec

\* EventLoop::wait_next_event, for any number of rules and descriptors and
\* whatever the callbacks do or throw in the middle of it: a rule leaves _rules
\* exactly with its one cancel() that returned; the iterator and idx stay together, so that a rule is judged by
\* the result of its own pollfd; and no rule is called back to read from a
\* descriptor that was at its end before the call.
THEOREM LoopCorrect ==
  LoopSpec => [](CancelledOnce /\ JudgedByOwnResult /\ NoCallbackAfterEof)
<1>1. LoopInv => CancelledOnce /\ JudgedByOwnResult /\ NoCallbackAfterEof
  <2> SUFFICES ASSUME LoopInv PROVE CancelledOnce /\ JudgedByOwnResult /\ NoCallbackAfterEof
    OBVIOUS
  <2>1. /\ it \in Nat /\ it >= 1 /\ idx \in Nat /\ Len(rules) \in Nat
        /\ Len(pollfds) \in Nat /\ DOMAIN pollfds = 1 .. Len(pollfds)
    BY Elements, LenProperties DEF LoopInv, LoopTypeOK
  <2>2. ASSUME pc \in {"results", "callback", "cancel_results"}, it <= Len(rules)
        PROVE  /\ idx \in Nat \ {0} /\ it + (idx - it) = idx
               /\ IF idx <= Len(pollfds) THEN MadeFor(it, idx)
                  ELSE \A j \in 1 .. Len(pollfds) : pollfds[j].id < rules[it].id
    <3>1. it \in it .. Len(rules) /\ it + (idx - it) = idx
      BY <2>1, <2>2
    <3>2. \A k \in it .. Len(rules) :
             IF k + (idx - it) <= Len(pollfds) THEN MadeFor(k, k + (idx - it))
             ELSE \A j \in 1 .. Len(pollfds) : pollfds[j].id < rules[k].id
      BY <2>2 DEF LoopInv, LinedUp
    <3> QED
      BY <3>1, <3>2 DEF LoopInv, LoopTypeOK
  <2>3. JudgedByOwnResult
    <3> SUFFICES ASSUME pc \in {"results", "callback", "cancel_results"}, it <= Len(rules)
                 PROVE  IF \E k \in 1 .. Len(pollfds) : pollfds[k].id = rules[it].id
                          THEN idx <= Len(pollfds) /\ pollfds[idx].id = rules[it].id
                          ELSE idx > Len(pollfds)
      BY <2>1 DEF JudgedByOwnResult, this_rule
    <3>1. CASE idx <= Len(pollfds)
      BY <2>1, <2>2, <3>1 DEF MadeFor
    <3>2. CASE ~(idx <= Len(pollfds))
      <4>1. rules[it].id \in Nat /\ \A j \in 1 .. Len(pollfds) : pollfds[j].id \in Nat
        BY <2>1, Elements DEF LoopInv
      <4>2. \A j \in 1 .. Len(pollfds) : pollfds[j].id # rules[it].id
        BY <2>2, <3>2, <4>1
      <4> QED
        BY <2>1, <3>2, <4>2
    <3> QED
      BY <3>1, <3>2
  <2>4. NoCallbackAfterEof
    <3>1. pc = "callback" => it <= Len(rules)
      BY DEF LoopInv, LinedUp
    <3> QED
      BY <2>2, <3>1 DEF NoCallbackAfterEof, MadeFor, this_rule
  <2> QED
    BY <2>3, <2>4 DEF LoopInv
<1> QED
  BY <1>1, LoopInvHolds, PTL

=============================================================================
