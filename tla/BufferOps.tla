----------------------------- MODULE BufferOps -----------------------------
(***************************************************************************)
(* Classes Buffer, BufferList and BufferViewList                           *)
(* (libsponge/util/buffer.hh and .cc).  A string is a sequence of bytes.   *)
(* A Buffer's storage is shared and never written, so that copies are      *)
(* independent values: <<>> is the null pointer and <<s>> a pointer to s.  *)
(* A BufferList is a sequence of Buffers, a BufferViewList a sequence of   *)
(* strings.                                                                *)
(***************************************************************************)
EXTENDS Integers, SequencesExt

Buffer(s) == [storage |-> <<s>>, starting_offset |-> 0]

\* The view of the string from _starting_offset on; empty without storage.
str(b) ==
  IF b.storage = <<>> THEN <<>>
  ELSE SubSeq(b.storage[1], b.starting_offset + 1, Len(b.storage[1]))

\* Buffer::remove_prefix, which throws unless n is at most Len(str(b)).
TrimBuffer(b, n) ==
  LET offset == b.starting_offset + n
      used_up == b.storage # <<>> /\ offset = Len(b.storage[1])
  IN  [storage |-> IF used_up THEN <<>> ELSE b.storage,
       starting_offset |-> offset]

append(list, other) == list \o other

\* BufferList::concatenate, and what writev and sendmsg make of the iovecs.
Gather(views) ==
  LET ret[k \in 0 .. Len(views)] ==
        IF k = 0 THEN <<>> ELSE ret[k - 1] \o views[k]
  IN  ret[Len(views)]
concatenate(list) == Gather([i \in DOMAIN list |-> str(list[i])])

BufferViewList(list) == [i \in DOMAIN list |-> str(list[i])]

size(views) ==
  LET ret[k \in 0 .. Len(views)] ==
        IF k = 0 THEN 0 ELSE ret[k - 1] + Len(views[k])
  IN  ret[Len(views)]

\* Mutant: a view that is used up is dropped without counting its bytes.
TurnUncounted(l) ==
  IF l.n = 0 \/ l.views = <<>> THEN l
  ELSE IF l.n < Len(Head(l.views))
    THEN [views |-> <<SubSeq(Head(l.views), l.n + 1, Len(Head(l.views)))>>
                      \o Tail(l.views), n |-> 0]
    ELSE [views |-> Tail(l.views), n |-> l.n]

\* One turn of BufferViewList::remove_prefix: the first view is cut or dropped.
PrefixTurn(l) ==
  IF l.n = 0 \/ l.views = <<>> THEN l
  ELSE IF l.n < Len(Head(l.views))
    THEN [views |-> <<SubSeq(Head(l.views), l.n + 1, Len(Head(l.views)))>>
                      \o Tail(l.views), n |-> 0]
    ELSE [views |-> Tail(l.views), n |-> l.n - Len(Head(l.views))]

\* Every turn of the loop drops the first view or ends, so one turn per view is
\* enough.  For n > size(views) the code throws once the list is empty.
remove_prefix(views, n) ==
  LET l[k \in 0 .. Len(views)] ==
        IF k = 0 THEN [views |-> views, n |-> n] ELSE PrefixTurn(l[k - 1])
  IN  l[Len(views)].views
=============================================================================
