------------------------- MODULE StreamReassembler -------------------------
(***************************************************************************)
(* A StreamReassembler fed with substrings of one stream of SourceLen      *)
(* bytes, in any order, overlapping and repeated, and a reader that takes  *)
(* bytes from its output.                                                  *)
(***************************************************************************)
EXTENDS StreamReassemblerOps

CONSTANTS SourceLen, ReassemblerCapacity

ASSUME ReassemblerAssumption ==
  /\ SourceLen \in Nat
  /\ ReassemblerCapacity \in Nat \ {0}

VARIABLES
  reassembler,   \* the StreamReassembler object
  offered        \* history: what the last push_substring was given

reassemblerVars == <<reassembler, offered>>

\* No action reads offered and no invariant mentions it, so states that differ
\* only there have the same successors.
ReassemblerView == reassembler

ReassemblerInit ==
  /\ reassembler = NewReassembler(ReassemblerCapacity)
  /\ offered = <<0, 0, FALSE>>

\* The last byte of the stream may come with or without the eof flag.
Push(index, len, last) ==
  /\ reassembler' = push_substring(reassembler, Bytes(index, len), index, last)
  /\ offered' = <<index, len, last>>

ReadOutput(n) ==
  /\ n <= buffer_size(reassembler.output)
  /\ reassembler' = [reassembler EXCEPT !.output = after_read(@, n)]
  /\ offered' = <<0, 0, FALSE>>

\* The caller never offers a string which starts beyond the window, where the
\* subtraction in push_substring would wrap around.  TCPReceiver is such a caller:
\* its window test comes first (tcp_receiver.cc:32).
PushInWindow ==
  \E index \in 0 .. SourceLen : \E len \in 0 .. SourceLen - index :
    \E last \in {FALSE, index + len = SourceLen} :
      index <= Limit(reassembler) /\ Push(index, len, last)

ReadAny == \E n \in 1 .. ReassemblerCapacity : ReadOutput(n)

ReassemblerSpec == ReassemblerInit /\ [][PushInWindow \/ ReadAny]_reassemblerVars
-----------------------------------------------------------------------------
\* The indices of all bytes held in the map.
StoredBytes ==
  UNION {k .. End(reassembler.stream, k) - 1 : k \in DOMAIN reassembler.stream}

\* Every stored string is a piece of the stream that lies inside it, and the
\* pointers stay inside it too.
ReassemblerTypeOK ==
  /\ reassembler.output \in ByteStreamType(Nat)
  /\ reassembler.write_ptr \in 0 .. SourceLen
  /\ reassembler.eof_f => reassembler.eof_index = SourceLen
  /\ \A k \in DOMAIN reassembler.stream :
       /\ End(reassembler.stream, k) <= SourceLen
       /\ reassembler.stream[k] = Bytes(k, Len(reassembler.stream[k]))

\* What the reader sees is the stream itself: after read_count bytes come bytes
\* number read_count, read_count + 1, ... without a gap, whatever the order and
\* overlap of the pushes.
OutputIsStream ==
  LET out == reassembler.output IN
    /\ out.bts = Bytes(out.read_count, out.write_count - out.read_count)
    /\ out.write_count = reassembler.write_ptr

\* unassembled_bytes() counts a byte that was pushed several times once
\* (stream_reassembler.hh:51-52), and never one that was already written.
UnassembledExact ==
  unassembled_bytes(reassembler) =
    Cardinality({b \in StoredBytes : b >= reassembler.write_ptr})

\* Bytes waiting in the output and bytes waiting for a gap to close fit in the
\* capacity together (stream_reassembler.hh:27-28).
LiveBytesWithinCapacity ==
  buffer_size(reassembler.output) + unassembled_bytes(reassembler) <= ReassemblerCapacity

Promise == INSTANCE Reassembly WITH
  StreamLen <- SourceLen,
  Capacity <- ReassemblerCapacity,
  received <- 0 .. reassembler.write_ptr - 1 \cup StoredBytes,
  consumed <- reassembler.output.read_count,
  offered <- offered,
  endKnown <- reassembler.eof_f,
  ended <- reassembler.output.end_flag

\* The map of strings implements the set of indices: no byte accepted inside the
\* window is forgotten, no byte outside it is kept, and the end of input is
\* signalled exactly when the last byte has been written.
ImplementsReassembly == Promise!Spec
=============================================================================
