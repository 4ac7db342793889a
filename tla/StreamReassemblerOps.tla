------------------------ MODULE StreamReassemblerOps ------------------------
(***************************************************************************)
(* Class StreamReassembler (libsponge/stream_reassembler.hh and .cc) as a  *)
(* value and its methods as operators.  `stream` is the code's             *)
(* map<size_t, string>: a function from the index of a stored string to    *)
(* the string.  The member read_ptr is recomputed by every call and used   *)
(* only there, so it is no part of the value.                              *)
(***************************************************************************)
EXTENDS ByteStreamOps, FiniteSetsExt, Functions

NewReassembler(capacity) ==
  [output |-> NewByteStream(capacity), capacity |-> capacity, write_ptr |-> 0,
   eof_index |-> capacity, eof_f |-> FALSE, stream |-> <<>>]

\* string::substr(n)
Suffix(s, n) == SubSeq(s, n + 1, Len(s))

\* One past the last byte of the string stored at k.
End(m, k) == k + Len(m[k])

Erase(m, k) == Restrict(m, DOMAIN m \ {k})

\* The first index that does not fit: read_ptr + _capacity.
Limit(r) == r.output.read_count + r.capacity

\* Mutant: nothing is cut off.
ClipNothing(r, data, index) == data

\* What is kept of a string.  An index beyond the limit makes the unsigned
\* count limit - index huge, and substr keeps the whole string.
Clip(r, data, index) ==
  IF index + Len(data) > Limit(r) /\ index <= Limit(r)
  THEN SubSeq(data, 1, Limit(r) - index)
  ELSE data

\* Mutant: a cut-off string still marks the end of the stream.
NoteEofOfClipped(r, data, index, eofFlag) ==
  IF eofFlag
  THEN [r EXCEPT !.eof_index = index + Len(Clip(r, data, index)), !.eof_f = TRUE]
  ELSE r

\* The end of the stream is noted only when nothing was cut off.
NoteEof(r, data, index, eofFlag) ==
  IF eofFlag /\ index + Len(data) <= Limit(r)
  THEN [r EXCEPT !.eof_index = index + Len(data), !.eof_f = TRUE]
  ELSE r

\* Mutant: the first string stored at an index is never replaced.
StoreFirst(m, index, data) ==
  IF index \in DOMAIN m THEN m
  ELSE [k \in DOMAIN m \cup {index} |-> IF k = index THEN data ELSE m[k]]

\* Of two strings with the same index the longer one stays.
Store(m, index, data) ==
  IF index \in DOMAIN m /\ Len(data) <= Len(m[index])
  THEN m
  ELSE [k \in DOMAIN m \cup {index} |-> IF k = index THEN data ELSE m[k]]

\* Mutant: the part of the string that is already written is written again.
AssembleWhole(r, k) ==
  IF k <= r.write_ptr /\ End(r.stream, k) > r.write_ptr
  THEN [r EXCEPT !.write_ptr = End(r.stream, k),
                 !.output = write(@, r.stream[k]),
                 !.stream = Erase(@, k)]
  ELSE r

\* One round of the first loop.  A string that lies wholly below write_ptr is
\* left in the map; the loop breaks at the first one above write_ptr, and
\* every later one is above it too.
AssembleStep(r, k) ==
  IF k <= r.write_ptr /\ End(r.stream, k) > r.write_ptr
  THEN [r EXCEPT !.write_ptr = End(r.stream, k),
                 !.output = write(@, Suffix(r.stream[k], r.write_ptr - k)),
                 !.stream = Erase(@, k)]
  ELSE r

\* Mutant: two overlapping strings both stay.
CoalesceNothing(acc, k) == [acc EXCEPT !.old = k]

\* The string stored at old takes what is new of the one at k, which is erased.
Merge(m, old, k) == Erase([m EXCEPT ![old] = @ \o Suffix(m[k], End(m, old) - k)], k)

\* One round of the second loop: a string that overlaps the one before it
\* (old_it) is merged into it.
CoalesceStep(acc, k) ==
  IF k = acc.old THEN acc
  ELSE IF k < End(acc.m, acc.old)
       THEN [acc EXCEPT !.m = Merge(@, acc.old, k)]
       ELSE [acc EXCEPT !.old = k]

\* A loop over the map from its smallest key to its largest.
InKeyOrder(Step(_, _), init, keys) ==
  LET end == IF keys = {} THEN 0 ELSE Max(keys) + 1
      f[i \in 0 .. end] ==
        IF i = 0 THEN init
        ELSE Then(f[i - 1], LAMBDA x : IF (i - 1) \in keys THEN Step(x, i - 1) ELSE x)
  IN  f[end]

Assemble(r) == InKeyOrder(AssembleStep, r, DOMAIN r.stream)

\* The second loop, over a map that is not empty.
CoalesceStrings(m) ==
  InKeyOrder(CoalesceStep, [m |-> m, old |-> Min(DOMAIN m)], DOMAIN m).m

Coalesce(r) ==
  IF DOMAIN r.stream = {} THEN r ELSE [r EXCEPT !.stream = CoalesceStrings(@)]

\* Mutant: the end is signalled as soon as it is known.
EndWhenKnown(r) ==
  IF r.eof_f THEN [r EXCEPT !.output = end_input(@)] ELSE r

EndWhenComplete(r) ==
  IF r.write_ptr = r.eof_index /\ r.eof_f THEN [r EXCEPT !.output = end_input(@)] ELSE r

push_substring(r, data, index, eofFlag) ==
  LET stored == [NoteEof(r, data, index, eofFlag) EXCEPT !.stream =
                   Store(@, index, Clip(r, data, index))]
  IN  Then(Then(Then(stored, Assemble), Coalesce), EndWhenComplete)

unassembled_bytes(r) ==
  InKeyOrder(LAMBDA unassem, k : IF k > r.write_ptr THEN unassem + Len(r.stream[k])
                                 ELSE unassem,
             0, DOMAIN r.stream)
=============================================================================
