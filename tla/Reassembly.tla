----------------------------- MODULE Reassembly -----------------------------
(***************************************************************************)
(* What a reassembler promises, with no map and no strings: it keeps a set *)
(* of byte indices.  A byte offered below the window's limit is kept for   *)
(* good, any other is discarded; the reader is given the bytes of the      *)
(* longest gap-free prefix; the output ends when the end of the stream is  *)
(* known and everything before it is there.                                *)
(***************************************************************************)
EXTENDS Integers, FiniteSetsExt

CONSTANTS StreamLen, Capacity

VARIABLES
  received,    \* indices of the bytes kept so far
  consumed,    \* how many bytes the reader has taken
  offered,     \* the last string offered: its index and length, and the eof flag
  endKnown,    \* the end of the stream was announced inside the window
  ended        \* the output signals the end of input

NoOffer == <<0, 0, FALSE>>

vars == <<received, consumed, offered, endKnown, ended>>

Prefix(S) == Max({n \in 0 .. StreamLen : 0 .. n - 1 \subseteq S})

Init ==
  /\ received = {}
  /\ consumed = 0
  /\ offered = NoOffer
  /\ endKnown = FALSE
  /\ ended = FALSE

Offer(i, n, last) ==
  /\ offered' = <<i, n, last>>
  /\ received' = received \cup {b \in i .. i + n - 1 : b < consumed + Capacity}
  /\ endKnown' = (endKnown \/ (last /\ i + n <= consumed + Capacity))
  /\ ended' = (endKnown' /\ Prefix(received') = StreamLen)
  /\ UNCHANGED consumed

Consume(n) ==
  /\ consumed + n <= Prefix(received)
  /\ consumed' = consumed + n
  /\ offered' = NoOffer
  /\ UNCHANGED <<received, endKnown, ended>>

Next ==
  \/ \E i \in 0 .. StreamLen : \E n \in 0 .. StreamLen - i :
       \E last \in {FALSE, i + n = StreamLen} : Offer(i, n, last)
  \/ \E n \in 1 .. Capacity : Consume(n)

Spec == Init /\ [][Next]_vars
=============================================================================
