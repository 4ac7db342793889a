-------------------------- MODULE TCPSender_proofs --------------------------
(***************************************************************************)
(* The sender keeps its bookkeeping exact for every window, capacity,      *)
(* timeout, payload size and width of the sequence space, and for every    *)
(* order of calls.                                                         *)
(*                                                                         *)
(* The invariant SenderOK, and what each method does to it, are in module  *)
(* SenderTheorems; this module lifts them to TCPSender.                    *)
(***************************************************************************)
EXTENDS TCPSender, SenderTheorems

-----------------------------------------------------------------------------
(* The sender, its application, its owner and the clock. *)

\* The inductive invariant: SenderOK, the bounds of TypeOK, and Backoff.
Inv ==
  /\ SenderOK(sender, Capacity, ISN)
  /\ sender.window \in Windows \cup {1}
  /\ sender.retransnum <= MaxRetx
  /\ Backoff

\* What every step does to the counters: none goes back, and after FIN nothing
\* more is sent.
Advance ==
  /\ sender.next_seqno <= sender'.next_seqno
  /\ sender.ack_s <= sender'.ack_s
  /\ sender.fin_send => sender'.fin_send /\ sender'.next_seqno = sender.next_seqno

\* The invariant is as strong as the properties.
LEMMA InvImplies ==
  ASSUME Inv
  PROVE  /\ TypeOK /\ UnackedIsKept /\ SegmentContent /\ TimerCoversFlight
         /\ SequenceAccounting /\ Backoff
<1>1. /\ sender \in SenderType /\ sender.ack_s \in Nat /\ sender.next_seqno \in Nat
      /\ sender.ack_s <= sender.next_seqno
      /\ Covers(Noack, sender.ack_s, sender.next_seqno)
      /\ Noack \in NoackType
  BY SenderFields, NoackFacts DEF Inv, SenderOK, SenderCore, Noack
<1>2. \A e \in DOMAIN Noack : First(e) = FirstIn(Noack, e)
  BY DEF First, FirstIn
<1>3. TypeOK
  BY <1>1, SenderFields DEF Inv, TypeOK
<1>4. UnackedIsKept
  BY <1>1, <1>2 DEF UnackedIsKept, Covers
<1>5. SegmentContent
  <2>1. ASSUME NEW e \in DOMAIN Noack
        PROVE  /\ Holds(Noack[e], First(e), ISN)
               /\ Noack[e].fin => e = sender.next_seqno /\ sender.fin_send
    BY <1>2 DEF Inv, SenderOK, SenderCore, Noack
  <2> QED
    BY <2>1 DEF SegmentContent, Holds
<1>6. TimerCoversFlight
  <2>1. bytes_in_flight(sender) > 0 <=> sender.ack_s < sender.next_seqno
    BY <1>1 DEF bytes_in_flight
  <2>2. sender.start => DOMAIN Noack # {}
    <3> SUFFICES ASSUME sender.start PROVE DOMAIN Noack # {}
      OBVIOUS
    <3>1. sender.ack_s < sender.next_seqno
      BY DEF Inv, SenderOK
    <3>2. sender.ack_s \in sender.ack_s .. sender.next_seqno - 1
      BY <1>1, <3>1
    <3> QED
      BY <1>1, <3>2 DEF Covers
  <2> QED
    BY <2>1, <2>2 DEF TimerCoversFlight, Inv, SenderOK
<1>7. SequenceAccounting
  BY DEF SequenceAccounting, Inv, SenderOK, SenderCore
<1> QED
  BY <1>3, <1>4, <1>5, <1>6, <1>7 DEF Inv

\* The bodies of the action properties.
WindowStep ==
  sender'.next_seqno # sender.next_seqno =>
    /\ sender'.next_seqno <= sender.ack_s + sender.window + Flag(sender.next_seqno = 0)
    /\ ~sender.fin_send

RetransmitStep ==
  sender'.retransnum > sender.retransnum =>
    \E e \in DOMAIN Noack :
      /\ First(e) <= sender.ack_s /\ sender.ack_s < e
      /\ sender'.segments_out = Append(sender.segments_out, Noack[e])

StepOK == Inv' /\ Advance /\ WindowStep /\ RetransmitStep

\* The constants in the form the lemmas use.
LEMMA Constants ==
  /\ Capacity \in Nat /\ ISN \in WrappingInt32 /\ ISN \in Int
  /\ Windows \subseteq Nat /\ Ticks \subseteq Nat /\ MaxRetx \in Nat
  BY SenderAssumption, ModulusType DEF WrappingInt32

\* The recursive function Doubled satisfies its equation, and its values lie
\* between the initial timeout and the last of them.
LEMMA DoubledFacts ==
  /\ Doubled[0] = initial_retransmission_timeout
  /\ \A n \in 1 .. MaxRetx : Doubled[n] = 2 * Doubled[n - 1]
  /\ \A n \in 0 .. MaxRetx :
       /\ Doubled[n] \in Nat /\ initial_retransmission_timeout <= Doubled[n]
       /\ Doubled[n] < UIntRange
<1> DEFINE t == initial_retransmission_timeout
           X == {x \in Nat : t <= x}
           step == [k \in Nat |-> [x \in X |-> 2 * x]]
           P(f) == f = [n \in 0 .. MaxRetx |-> IF n = 0 THEN t ELSE 2 * f[n - 1]]
<1>1. t \in Nat /\ MaxRetx \in Nat /\ UIntRange \in Nat
  BY SenderConstants, Constants
<1>2. t \in X /\ step \in [Nat -> [X -> X]]
  BY <1>1
<1>3. \A k \in Nat, x \in X : step[k][x] = 2 * x
  OBVIOUS
<1>4. \A x \in X : x \in Nat /\ t <= x
  OBVIOUS
<1>5. Doubled = CHOOSE f : P(f)
  BY DEF Doubled
<1> HIDE DEF t, X, step
<1>6. PICK g : IsLoop(g, MaxRetx, X, t, step)
  BY <1>1, <1>2, LoopExists
<1>7. P(g)
  <2>1. ASSUME NEW n \in 0 .. MaxRetx, n # 0
        PROVE  step[n - 1][g[n - 1]] = 2 * g[n - 1]
    <3>1. n - 1 \in Nat /\ n - 1 \in 0 .. MaxRetx
      BY <1>1, <2>1
    <3> QED
      BY <1>3, <1>6, <3>1 DEF IsLoop
  <2> QED
    BY <1>6, <2>1 DEF IsLoop
<1>8. P(Doubled)
  <2> HIDE DEF P
  <2> QED
    BY <1>5, <1>7
<1>9. /\ Doubled[0] = t
      /\ \A n \in 1 .. MaxRetx : Doubled[n] = 2 * Doubled[n - 1]
  BY <1>1, <1>8
<1> HIDE DEF P
<1>10. ASSUME NEW n \in 1 .. MaxRetx, Doubled[n - 1] \in X PROVE Doubled[n] \in X
  <2>1. Doubled[n] = 2 * Doubled[n - 1]
    BY <1>9
  <2> QED
    BY <1>1, <1>10, <2>1 DEF X
<1>11. \A n \in 0 .. MaxRetx : Doubled[n] \in X
  BY <1>1, <1>2, <1>9, <1>10, LoopKeeps
<1> DEFINE Y == [n \in Nat |-> {x \in Nat : \A j \in 0 .. n : Doubled[j] <= x}]
<1>12. Doubled[0] \in Y[0]
  BY <1>1, <1>9
<1>13. ASSUME NEW n \in 1 .. MaxRetx, Doubled[n - 1] \in Y[n - 1] PROVE Doubled[n] \in Y[n]
  <2>1. n \in Nat /\ n - 1 \in Nat /\ n - 1 \in 0 .. MaxRetx /\ n \in 0 .. MaxRetx
    BY <1>1
  <2>2. /\ Doubled[n] \in Nat /\ Doubled[n - 1] \in Nat
        /\ Doubled[n - 1] <= Doubled[n]
    BY <1>4, <1>9, <1>11, <2>1
  <2>3. ASSUME NEW j \in 0 .. n PROVE Doubled[j] <= Doubled[n]
    <3>1. CASE j = n
      BY <2>2, <3>1
    <3>2. CASE j # n
      <4>1. j \in 0 .. n - 1 /\ j \in 0 .. MaxRetx
        BY <1>1, <2>1, <3>2
      <4>2. Doubled[j] <= Doubled[n - 1] /\ Doubled[j] \in Nat
        BY <1>4, <1>11, <1>13, <2>1, <4>1
      <4> QED
        BY <2>2, <4>2
    <3> QED
      BY <3>1, <3>2
  <2> QED
    BY <2>1, <2>2, <2>3
<1> HIDE DEF Y
<1>14. \A n \in 0 .. MaxRetx : Doubled[n] \in Y[n]
  BY <1>1, <1>12, <1>13, LoopAdvances
<1>15. \A n \in 0 .. MaxRetx : Doubled[n] <= Doubled[MaxRetx]
  <2>1. MaxRetx \in 0 .. MaxRetx
    BY <1>1
  <2> QED
    BY <1>1, <1>14, <2>1 DEF Y
<1>16. ASSUME NEW n \in 0 .. MaxRetx
       PROVE  Doubled[n] \in Nat /\ t <= Doubled[n] /\ Doubled[n] < UIntRange
  <2>1. Doubled[n] \in Nat /\ t <= Doubled[n]
    BY <1>4, <1>11
  <2>2. MaxRetx \in 0 .. MaxRetx
    BY <1>1
  <2>3. Doubled[MaxRetx] \in Nat /\ Doubled[n] <= Doubled[MaxRetx]
    BY <1>4, <1>11, <1>15, <2>2
  <2> QED
    BY <1>1, <2>1, <2>3, BackoffAssumption
<1> QED
  BY <1>9, <1>16 DEF t

\* A step that changes none of the counters the invariant and the action
\* properties look at.
LEMMA QuietStep ==
  ASSUME Inv, SenderOK(sender', Capacity, ISN),
         sender'.window = sender.window, sender'.retransnum = sender.retransnum,
         sender'.RTO = sender.RTO, sender'.rto_base = sender.rto_base,
         sender'.next_seqno = sender.next_seqno, sender'.ack_s = sender.ack_s,
         sender'.fin_send = sender.fin_send
  PROVE  StepOK
<1>1. sender.next_seqno \in Nat /\ sender.ack_s \in Nat /\ sender.retransnum \in Nat
  BY OKFields DEF Inv
<1>2. Inv'
  BY DEF Inv, Backoff
<1> QED
  BY <1>1, <1>2 DEF StepOK, Advance, WindowStep, RetransmitStep

\* The application writes.
LEMMA WriteStep ==
  ASSUME Inv, NEW n \in Nat, Write(n)
  PROVE  StepOK
<1> DEFINE st == sender.stream
           st2 == write(st, Bytes(st.write_count, n))
<1>1. StreamOK(st, Capacity) /\ st.error = FALSE
  BY DEF Inv, SenderOK, SenderCore
<1>2. st2 = write(st, Bytes(st.write_count, n)) /\ sender' = [sender EXCEPT !.stream = st2]
  BY DEF Write
<1>3. ~sender.fin_send
  BY DEF Write, Inv, SenderOK, SenderCore, eof, input_ended
<1> HIDE DEF st2, st
<1>4. StreamOK(st2, Capacity) /\ st2.read_count = st.read_count /\ st2.error = st.error
  BY <1>1, <1>2, WriteKeepsStream, Constants
<1>5. st2.error = FALSE /\ st2.read_count = sender.stream.read_count
  BY <1>1, <1>4 DEF st
<1>6. /\ SenderOK(sender', Capacity, ISN)
      /\ sender'.window = sender.window /\ sender'.retransnum = sender.retransnum
      /\ sender'.RTO = sender.RTO /\ sender'.rto_base = sender.rto_base
      /\ sender'.next_seqno = sender.next_seqno /\ sender'.ack_s = sender.ack_s
      /\ sender'.fin_send = sender.fin_send
  <2>1. SenderOK(sender, Capacity, ISN) /\ StreamOK(st2, Capacity) /\ Capacity \in Nat
    BY <1>4, Constants DEF Inv
  <2>2. sender.fin_send => eof(st2)
    BY <1>3
  <2>3. sender' = [sender EXCEPT !.stream = st2]
    BY <1>2
  <2>4. StreamChanged(sender, st2, sender', Capacity, ISN)
    BY <1>5, <2>1, <2>2, <2>3, StreamChangeKeeps
  <2> QED
    BY <2>4 DEF StreamChanged
<1> QED
  BY <1>6, QuietStep

\* The application ends its input.
LEMMA EndInputStep ==
  ASSUME Inv, EndInput
  PROVE  StepOK
<1> DEFINE st == sender.stream
           st2 == end_input(st)
<1>1. StreamOK(st, Capacity) /\ st.error = FALSE
  BY DEF Inv, SenderOK, SenderCore
<1>2. st2 = end_input(st) /\ sender' = [sender EXCEPT !.stream = st2]
  BY DEF EndInput
<1>3. ~sender.fin_send
  BY DEF EndInput, Inv, SenderOK, SenderCore, eof, input_ended
<1> HIDE DEF st2, st
<1>4. StreamOK(st2, Capacity) /\ st2.read_count = st.read_count /\ st2.error = st.error
  <2>1. Capacity \in Nat /\ st2 = end_input(st)
    BY <1>2, Constants
  <2>2. StreamOK(st, Capacity)
    BY <1>1
  <2> QED
    BY <2>1, <2>2, EndKeepsStream
<1>5. st2.error = FALSE /\ st2.read_count = sender.stream.read_count
  BY <1>1, <1>4 DEF st
<1>6. /\ SenderOK(sender', Capacity, ISN)
      /\ sender'.window = sender.window /\ sender'.retransnum = sender.retransnum
      /\ sender'.RTO = sender.RTO /\ sender'.rto_base = sender.rto_base
      /\ sender'.next_seqno = sender.next_seqno /\ sender'.ack_s = sender.ack_s
      /\ sender'.fin_send = sender.fin_send
  <2>1. SenderOK(sender, Capacity, ISN) /\ StreamOK(st2, Capacity) /\ Capacity \in Nat
    BY <1>4, Constants DEF Inv
  <2>2. sender.fin_send => eof(st2)
    BY <1>3
  <2>3. sender' = [sender EXCEPT !.stream = st2]
    BY <1>2
  <2>4. StreamChanged(sender, st2, sender', Capacity, ISN)
    BY <1>5, <2>1, <2>2, <2>3, StreamChangeKeeps
  <2> QED
    BY <2>4 DEF StreamChanged
<1> QED
  BY <1>6, QuietStep

\* The owner fills the window.
LEMMA FillWindowStep ==
  ASSUME Inv, FillWindow
  PROVE  StepOK
<1> DEFINE end == sender.ack_s + sender.window
<1>1. Filled(sender, sender', Capacity, ISN, end)
  <2>1. end = sender.ack_s + sender.window
    OBVIOUS
  <2> HIDE DEF end
  <2> QED
    BY <2>1, FillWindowKeeps, Constants DEF FillWindow, Inv
<1>2. /\ sender.next_seqno \in Nat /\ sender.ack_s \in Nat /\ sender.retransnum \in Nat
      /\ sender'.next_seqno \in Nat
  BY <1>1, OKFields DEF Inv, Filled
<1>3. Inv'
  BY <1>1 DEF Filled, Inv, Backoff
<1>4. Advance
  BY <1>1, <1>2 DEF Filled, Advance
<1>5. WindowStep
  BY <1>1 DEF Filled, WindowStep
<1>6. RetransmitStep
  BY <1>1, <1>2 DEF Filled, RetransmitStep
<1> QED
  BY <1>3, <1>4, <1>5, <1>6 DEF StepOK

\* An acknowledgment, however old or wrong.
LEMMA AckStep ==
  ASSUME Inv, NEW ackno \in WrappingInt32, NEW win \in Windows, AckReceived(ackno, win)
  PROVE  StepOK
<1>1. ackno \in Int /\ win \in Nat
  BY Constants, ModulusType DEF WrappingInt32
<1>2. SenderOK(sender, Capacity, ISN) /\ sender' = ack_received(sender, ackno, win)
  BY DEF Inv, AckReceived
<1>3. /\ SenderOK(sender', Capacity, ISN) /\ AckFrame(sender, sender')
      /\ sender'.window \in {1, win, sender.window}
  BY <1>1, <1>2, AckKeeps, Constants
<1>4. /\ sender.next_seqno \in Nat /\ sender.ack_s \in Nat /\ sender.retransnum \in Nat
      /\ sender'.next_seqno = sender.next_seqno
      /\ sender'.fin_send = sender.fin_send
      /\ sender.ack_s <= sender'.ack_s
      /\ sender'.retransnum \in {0, sender.retransnum}
  BY <1>3, OKFields DEF Inv, AckFrame
<1>5. Backoff'
  <2>1. \/ sender'.retransnum = 0
        \/ /\ sender'.retransnum = sender.retransnum /\ sender'.RTO = sender.RTO
           /\ sender'.rto_base = sender.rto_base
    BY <1>3 DEF AckFrame
  <2> QED
    BY <2>1 DEF Inv, Backoff
<1>6. Inv'
  BY <1>3, <1>4, <1>5, Constants DEF Inv
<1> QED
  BY <1>4, <1>6 DEF StepOK, Advance, WindowStep, RetransmitStep

\* A timeout doubles the base once more; a tick before it only lets time pass.
LEMMA TimerStep ==
  ASSUME SenderOK(sender, Capacity, ISN), Backoff, TickFrame(sender, sender'),
         SenderOK(sender', Capacity, ISN), sender.retransnum < MaxRetx
  PROVE  Backoff'
<1> DEFINE n == sender.retransnum
           base == sender.rto_base
           rto == sender.RTO
           rto2 == sender'.RTO
<1>1. n \in Nat /\ base \in Nat /\ rto \in Nat /\ rto2 \in Nat /\ MaxRetx \in Nat
  BY OKFields, SenderFields, SenderConstants, Constants
<1>2. CASE sender'.retransnum = sender.retransnum
  <2>1. sender'.rto_base = base /\ rto2 <= rto
    BY <1>1, <1>2 DEF TickFrame
  <2>2. n > 0 => base = Doubled[n] /\ rto <= base
    BY DEF Backoff
  <2>3. sender'.retransnum = n
    BY <1>2
  <2> HIDE DEF n, base, rto
  <2>4. n > 0 => sender'.rto_base = Doubled[n] /\ rto2 <= sender'.rto_base
    BY <1>1, <2>1, <2>2
  <2> QED
    BY <2>3, <2>4 DEF Backoff
<1>3. CASE sender'.retransnum # sender.retransnum
  <2>1. /\ sender'.retransnum = n + 1 /\ sender'.rto_base = NextBase(sender)
        /\ rto2 \in {initial_retransmission_timeout, NextBase(sender)}
    BY <1>3 DEF TickFrame
  <2>2. n \in 0 .. MaxRetx /\ n + 1 \in 1 .. MaxRetx /\ n + 1 \in 0 .. MaxRetx
        /\ (n + 1) - 1 = n
    BY <1>1
  <2>3. Doubled[n] = IF n = 0 THEN initial_retransmission_timeout ELSE base
    BY <1>1, DoubledFacts DEF Backoff
  <2>4. NextBase(sender) = (2 * Doubled[n]) % UIntRange
    BY <2>3 DEF NextBase
  <2>5. /\ Doubled[n + 1] = 2 * Doubled[n] /\ Doubled[n + 1] \in Nat
        /\ Doubled[n + 1] < UIntRange /\ initial_retransmission_timeout <= Doubled[n + 1]
    BY <2>2, DoubledFacts
  <2> DEFINE d == Doubled[n + 1]
  <2>6. NextBase(sender) = d % UIntRange /\ d \in Nat /\ d < UIntRange /\ UIntRange \in Nat
    BY <2>4, <2>5, SenderConstants
  <2> HIDE DEF d
  <2>7. NextBase(sender) = d
    BY <2>6
  <2>8. sender'.rto_base = Doubled[n + 1] /\ rto2 <= sender'.rto_base
    BY <2>1, <2>5, <2>7 DEF d
  <2> QED
    BY <2>1, <2>8 DEF Backoff
<1> QED
  BY <1>2, <1>3

\* The clock.
LEMMA TickStep ==
  ASSUME Inv, NEW ms \in Ticks, Tick(ms)
  PROVE  StepOK
<1>1. ms \in Nat /\ sender' = tick(sender, ms) /\ sender.retransnum < MaxRetx
  BY Constants DEF Tick
<1>2. SenderOK(sender', Capacity, ISN) /\ TickFrame(sender, sender')
  BY <1>1, TickKeeps, Constants DEF Inv
<1>3. /\ sender.next_seqno \in Nat /\ sender.ack_s \in Nat /\ sender.retransnum \in Nat
      /\ sender'.next_seqno = sender.next_seqno
      /\ sender'.fin_send = sender.fin_send
      /\ sender.ack_s = sender'.ack_s /\ sender'.window = sender.window
  BY <1>2, OKFields DEF Inv, TickFrame
<1>4. Inv'
  <2>1. Backoff'
    BY <1>1, <1>2, TimerStep DEF Inv
  <2> QED
    BY <1>1, <1>2, <1>3, <2>1, Constants DEF Inv, TickFrame
<1>5. RetransmitStep
  <2>1. CASE sender'.retransnum = sender.retransnum
    BY <1>3, <2>1 DEF RetransmitStep
  <2>2. CASE sender'.retransnum # sender.retransnum
    <3>1. PICK e \in DOMAIN Noack :
            /\ FirstIn(Noack, e) <= sender.ack_s /\ sender.ack_s < e
            /\ sender'.segments_out = Append(sender.segments_out, Noack[e])
      BY <1>2, <2>2 DEF TickFrame, Noack
    <3> QED
      BY <3>1 DEF RetransmitStep, First, FirstIn
  <2> QED
    BY <2>1, <2>2
<1> QED
  BY <1>3, <1>4, <1>5 DEF StepOK, Advance, WindowStep

\* The queue of outgoing segments changes.
LEMMA QueueStep ==
  ASSUME Inv, SendEmptySegment \/ CollectOutput
  PROVE  StepOK
<1>1. PICK q \in Seq(SegmentType) : sender' = [sender EXCEPT !.segments_out = q]
  <2>1. CASE CollectOutput
    BY <2>1, EmptySeq DEF CollectOutput
  <2>2. CASE SendEmptySegment
    <3> DEFINE seg == Segment(FALSE, FALSE, wrap(sender.next_seqno, sender.isn), <<>>)
               q == Append(sender.segments_out, seg)
    <3>1. /\ sender \in SenderType /\ sender.next_seqno \in Int /\ sender.isn \in Int
          /\ sender.segments_out \in Seq(SegmentType)
      BY SenderFields, ModulusType DEF Inv, SenderOK, SenderCore, WrappingInt32
    <3>2. wrap(sender.next_seqno, sender.isn) \in WrappingInt32
      BY <3>1, WrapFacts
    <3>3. seg \in SegmentType
      BY <3>2, EmptySeq DEF Segment, SegmentType
    <3>4. sender' = [sender EXCEPT !.segments_out = q]
      BY <2>2, <3>1 DEF SendEmptySegment, send_empty_segment, SenderType
    <3>5. q \in Seq(SegmentType)
      BY <3>1, <3>3, AppendProperties
    <3> QED
      BY <3>4, <3>5
  <2> QED
    BY <2>1, <2>2
<1>2. /\ SenderOK(sender', Capacity, ISN)
      /\ sender'.window = sender.window /\ sender'.retransnum = sender.retransnum
      /\ sender'.RTO = sender.RTO /\ sender'.rto_base = sender.rto_base
      /\ sender'.next_seqno = sender.next_seqno /\ sender'.ack_s = sender.ack_s
      /\ sender'.fin_send = sender.fin_send
  BY <1>1, QueueChangeKeeps, Constants DEF Inv
<1> QED
  BY <1>2, QuietStep

\* Every step of the system.
LEMMA NextStep == Inv /\ [Next]_vars => StepOK
<1> SUFFICES ASSUME Inv, [Next]_vars PROVE StepOK
  OBVIOUS
<1>1. \A n \in 1 .. StreamLen : Write(n) => StepOK
  <2>1. \A n \in 1 .. StreamLen : n \in Nat
    BY SenderAssumption
  <2> QED
    BY <2>1, WriteStep
<1>2. CASE EndInput
  BY <1>2, EndInputStep
<1>3. CASE FillWindow
  BY <1>3, FillWindowStep
<1>4. \A ackno \in WrappingInt32, win \in Windows : AckReceived(ackno, win) => StepOK
  BY AckStep
<1>5. \A ms \in Ticks : Tick(ms) => StepOK
  BY TickStep
<1>6. CASE SendEmptySegment \/ CollectOutput
  BY <1>6, QueueStep
<1>7. CASE UNCHANGED vars
  <2>1. sender' = sender
    BY <1>7 DEF vars
  <2> QED
    BY <2>1, QuietStep DEF Inv
<1> QED
  BY <1>1, <1>2, <1>3, <1>4, <1>5, <1>6, <1>7 DEF Next

\* The invariant holds all the time.
LEMMA AlwaysInv == Spec => []Inv
<1>1. Init => Inv
  <2> SUFFICES ASSUME Init PROVE Inv
    OBVIOUS
  <2>1. SenderOK(sender, Capacity, ISN)
    BY NewSenderOK, Constants DEF Init
  <2>2. sender.window = 1 /\ sender.retransnum = 0
    BY DEF Init, NewSender
  <2>3. Backoff
    BY <2>2 DEF Backoff
  <2> QED
    BY <2>1, <2>2, <2>3, Constants DEF Inv
<1>2. Inv /\ [Next]_vars => Inv'
  BY NextStep DEF StepOK
<1> QED
  BY <1>1, <1>2, PTL DEF Spec

\* For every sender and every order of calls: what is unacknowledged is kept in
\* full and only once, every kept segment holds what belongs under its number, the
\* timer runs exactly while something is in flight, next_seqno counts SYN, the
\* bytes read from the stream and FIN, and the timeout has doubled once for every
\* consecutive retransmission.
THEOREM SenderCorrect ==
  Spec => [](TypeOK /\ UnackedIsKept /\ SegmentContent /\ TimerCoversFlight
               /\ SequenceAccounting /\ Backoff)
<1>1. Inv => TypeOK /\ UnackedIsKept /\ SegmentContent /\ TimerCoversFlight
               /\ SequenceAccounting /\ Backoff
  BY InvImplies
<1> QED
  BY <1>1, AlwaysInv, PTL

\* Once the SYN is out, fill_window never sends beyond the peer's window, and
\* nothing after FIN.
THEOREM WindowIsRespected == Spec => WindowRespectedAfterSyn
<1> DEFINE A == sender.next_seqno > 0 /\ sender'.next_seqno # sender.next_seqno =>
                  /\ sender'.next_seqno <= sender.ack_s + sender.window
                  /\ ~sender.fin_send
<1>1. Inv /\ [Next]_vars => [A]_vars
  <2> SUFFICES ASSUME Inv, [Next]_vars, sender.next_seqno > 0 PROVE A
    OBVIOUS
  <2>1. WindowStep
    BY NextStep DEF StepOK
  <2>2. sender.next_seqno # 0 /\ sender.ack_s \in Nat /\ sender.window \in Nat
    BY OKFields, SenderFields DEF Inv
  <2> QED
    BY <2>1, <2>2 DEF WindowStep, Flag
<1> QED
  BY <1>1, AlwaysInv, PTL DEF Spec, WindowRespectedAfterSyn

\* A timeout sends again the segment with the oldest unacknowledged number.
THEOREM OldestIsRetransmitted == Spec => RetransmitsOldest
<1>1. Inv /\ [Next]_vars => [RetransmitStep]_vars
  BY NextStep DEF StepOK
<1> QED
  BY <1>1, AlwaysInv, PTL DEF Spec, RetransmitsOldest, RetransmitStep

Stage == StageOf(sender)

\* The summary of the sender is its stage.
LEMMA SummaryIsStage == Inv => Summary = Stage
<1> SUFFICES ASSUME Inv PROVE Summary = Stage
  OBVIOUS
<1>1. SenderOK(sender, Capacity, ISN) /\ Capacity \in Nat
  BY SenderAssumption DEF Inv
<1>2. SummaryOf(sender) = StageOf(sender)
  BY <1>1, SummaryOfStage
<1> QED
  BY <1>2 DEF Summary, SummaryOf, Stage

\* The stages of a connection are passed in their order, and FIN is reported only
\* when it has been sent.
THEOREM StagesInOrder == Spec => SummaryOnlyAdvances
<1> DEFINE A == /\ Summary' >= Summary
                /\ Summary' \in {FIN_SENT, FIN_ACKED} => sender'.fin_send
<1>1. Inv' => (Summary = Stage)'
  BY SummaryIsStage, PTL
<1>2. Inv /\ [Next]_vars => [A]_vars
  <2> SUFFICES ASSUME Inv, [Next]_vars PROVE A
    OBVIOUS
  <2>1. Inv' /\ Advance
    BY NextStep DEF StepOK
  <2>2. Summary = Stage /\ Summary' = Stage'
    BY <1>1, <2>1, SummaryIsStage
  <2>3. /\ sender.next_seqno \in Nat /\ sender.ack_s \in Nat /\ sender.fin_send \in BOOLEAN
        /\ sender.ack_s <= sender.next_seqno
    BY OKFields DEF Inv
  <2>4. /\ sender'.next_seqno \in Nat /\ sender'.ack_s \in Nat
        /\ sender'.fin_send \in BOOLEAN /\ sender'.ack_s <= sender'.next_seqno
    BY <2>1, OKFields DEF Inv
  <2> QED
    BY <2>1, <2>2, <2>3, <2>4
    DEF Advance, Stage, StageOf, CLOSED, SYN_SENT, SYN_ACKED, FIN_SENT, FIN_ACKED
<1> QED
  BY <1>2, AlwaysInv, PTL DEF Spec, SummaryOnlyAdvances

\* An acknowledgment below the last one leaves what is in flight, the stream and
\* the timer as they are.
THEOREM LateAcksAreHarmless == Spec => LateAckKeepsFlight
<1> DEFINE A == \A ackno \in WrappingInt32, win \in Windows :
                  /\ unwrap(ackno, ISN, sender.next_seqno) < sender.ack_s
                  /\ AckReceived(ackno, win)
                  => sender' = [sender EXCEPT !.window = sender'.window,
                                              !.window_zero = sender'.window_zero]
<1>1. Inv /\ [Next]_vars => [A]_vars
  <2> SUFFICES ASSUME Inv, NEW ackno \in WrappingInt32, NEW win \in Windows,
                      unwrap(ackno, ISN, sender.next_seqno) < sender.ack_s,
                      AckReceived(ackno, win)
               PROVE  sender' = [sender EXCEPT !.window = sender'.window,
                                               !.window_zero = sender'.window_zero]
    OBVIOUS
  <2> DEFINE n == sender.next_seqno
  <2>1. ackno \in Int /\ win \in Nat /\ n \in Nat
    BY Constants, ModulusType, SenderFields DEF WrappingInt32, Inv, SenderOK, SenderCore
  <2> HIDE DEF n
  <2>2. unwrap(ackno, ISN, n) \in Nat
    BY <2>1, Constants, UnwrapType
  <2>3. sender' = ack_received(sender, ackno, win) /\ SenderOK(sender, Capacity, ISN)
    BY DEF AckReceived, Inv
  <2>4. unwrap(ackno, ISN, sender.next_seqno) \in Nat /\ Capacity \in Nat
    BY <2>2, Constants DEF n
  <2>5. OnlyWindowChanged(sender, sender')
    BY <2>1, <2>3, <2>4, LateAck
  <2> QED
    BY <2>5 DEF OnlyWindowChanged
<1> QED
  BY <1>1, AlwaysInv, PTL DEF Spec, LateAckKeepsFlight
=============================================================================
