----------------------------- MODULE ByteStream -----------------------------
(***************************************************************************)
(* One ByteStream object between a writer and a reader.  `stream` is the   *)
(* object; `accepted` and `delivered` are history variables: every byte    *)
(* write() took and every byte read() or pop_output() removed.             *)
(***************************************************************************)
EXTENDS ByteStreamOps

CONSTANTS
  Byte,        \* the values of a byte
  Capacity,    \* constructor argument
  MaxWrite,    \* bound: the longest string one write() is given
  MaxBytes     \* bound: bytes offered to the stream in total

ASSUME ByteStreamAssumption ==
  /\ Capacity \in Nat
  /\ MaxWrite \in Nat
  /\ MaxBytes \in Nat

VARIABLES stream, accepted, delivered

vars == <<stream, accepted, delivered>>

Strings == UNION {[1 .. n -> Byte] : n \in 0 .. MaxWrite}

TypeOK ==
  /\ stream \in ByteStreamType(Byte)
  /\ accepted \in Seq(Byte)
  /\ delivered \in Seq(Byte)

Init ==
  /\ stream = NewByteStream(Capacity)
  /\ accepted = <<>>
  /\ delivered = <<>>

Write(data) ==
  /\ stream.write_count + Len(data) <= MaxBytes
  /\ stream' = write(stream, data)
  /\ accepted' = accepted \o SubSeq(data, 1, Min2(Len(data), remaining_capacity(stream)))
  /\ UNCHANGED delivered

EndInput ==
  /\ stream' = end_input(stream)
  /\ UNCHANGED <<accepted, delivered>>

SetError ==
  /\ stream' = set_error(stream)
  /\ UNCHANGED <<accepted, delivered>>

Read(len) ==
  /\ stream' = after_read(stream, len)
  /\ delivered' = delivered \o read_output(stream, len)
  /\ UNCHANGED accepted

\* A caller of pop_output must not ask for more than is buffered: the code does
\* not check, and popping an empty deque is undefined.  Every caller obeys.
PopOutput(len) ==
  /\ len <= buffer_size(stream)
  /\ stream' = pop_output(stream, len)
  /\ delivered' = delivered \o peek_output(stream, len)
  /\ UNCHANGED accepted

Next ==
  \/ \E data \in Strings : Write(data)
  \/ EndInput
  \/ SetError
  \/ \E len \in 0 .. Capacity + 1 : Read(len)
  \/ \E len \in 0 .. Capacity : PopOutput(len)

Spec == Init /\ [][Next]_vars
-----------------------------------------------------------------------------
\* Bytes come out in the order they went in, none lost and none repeated, across
\* any mix of partial writes, reads and pops, and the two counters agree with
\* what really moved.
Fifo ==
  /\ accepted = delivered \o stream.bts
  /\ stream.write_count = Len(accepted)
  /\ stream.read_count = Len(delivered)

\* The buffer never outgrows the constructor's capacity, so the unsigned
\* subtraction in remaining_capacity() never wraps.
WithinCapacity == stream.b_size = Capacity /\ Len(stream.bts) <= Capacity
=============================================================================
