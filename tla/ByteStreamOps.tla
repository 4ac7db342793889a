--------------------------- MODULE ByteStreamOps ---------------------------
(***************************************************************************)
(* Class ByteStream (libsponge/byte_stream.hh and .cc) as a value and its  *)
(* methods as operators from the old value to the new one.  The modules of *)
(* the classes that own a stream (reassembler, receiver, sender) use them. *)
(*                                                                         *)
(* The code only copies bytes, it never looks at one.  Where a stream's    *)
(* content matters, byte number i of it is the number i itself, so that a  *)
(* lost, repeated or misplaced byte is visible.                            *)
(***************************************************************************)
EXTENDS Integers, Sequences

Min2(a, b) == IF a < b THEN a ELSE b

\* One statement after another: F applied to the value that e leaves.  Equal to
\* F(e); the singleton makes TLC evaluate e once however often F uses it.
Then(e, F(_)) == CHOOSE y \in {F(x) : x \in {e}} : TRUE

\* The n bytes of a stream that start at index i.
Bytes(i, n) == [k \in 1 .. n |-> i + k - 1]

ByteStreamType(Byte) ==
  [bts : Seq(Byte), b_size : Nat, read_count : Nat, write_count : Nat,
   end_flag : BOOLEAN, error : BOOLEAN]

NewByteStream(capacity) ==
  [bts |-> <<>>, b_size |-> capacity, read_count |-> 0, write_count |-> 0,
   end_flag |-> FALSE, error |-> FALSE]

buffer_size(s) == Len(s.bts)
buffer_empty(s) == s.bts = <<>>
remaining_capacity(s) == s.b_size - Len(s.bts)
input_ended(s) == s.end_flag
eof(s) == s.end_flag /\ buffer_empty(s)

\* Mutant: write ignores the capacity.
WriteAll(s, data) ==
  [s EXCEPT !.bts = @ \o data, !.write_count = @ + Len(data)]

\* As many bytes as fit; neither end_flag nor the error flag is consulted.
write(s, data) ==
  LET n == Min2(Len(data), remaining_capacity(s))
  IN  [s EXCEPT !.bts = @ \o SubSeq(data, 1, n), !.write_count = @ + n]

peek_output(s, len) == SubSeq(s.bts, 1, len)

\* Mutant: pop takes the bytes from the wrong end.
PopNewest(s, len) ==
  [s EXCEPT !.bts = SubSeq(@, 1, Len(@) - len), !.read_count = @ + len]

pop_output(s, len) ==
  [s EXCEPT !.bts = SubSeq(@, len + 1, Len(@)), !.read_count = @ + len]

\* read(len) returns read_output and leaves the stream after_read.
read_output(s, len) == peek_output(s, Min2(len, buffer_size(s)))
after_read(s, len) == pop_output(s, Min2(len, buffer_size(s)))

end_input(s) == [s EXCEPT !.end_flag = TRUE]
set_error(s) == [s EXCEPT !.error = TRUE]
=============================================================================
