--------------------------- MODULE ReliableStream ---------------------------
(***************************************************************************)
(* What a sender and a receiver promise together, over any network: a pipe *)
(* of bytes from one application to the other.  Bytes are counted only;    *)
(* that they are the right ones is a property of its own.                  *)
(***************************************************************************)
EXTENDS Integers

CONSTANT StreamLen

VARIABLES
  written,     \* bytes the writing application has handed over
  closed,      \* it has ended its input
  arrived,     \* bytes the reading application may have or has read
  consumed,    \* bytes it has read
  finished,    \* the reading application is told of the end
  confirmed    \* the writing side is told that everything arrived

vars == <<written, closed, arrived, consumed, finished, confirmed>>

Init ==
  /\ written = 0 /\ arrived = 0 /\ consumed = 0
  /\ closed = FALSE /\ finished = FALSE /\ confirmed = FALSE

WriteBytes ==
  /\ ~closed
  /\ written' \in written .. StreamLen
  /\ UNCHANGED <<closed, arrived, consumed, finished, confirmed>>

Close ==
  /\ ~closed
  /\ closed' = TRUE
  /\ UNCHANGED <<written, arrived, consumed, finished, confirmed>>

\* Bytes arrive, never more than were written; the end comes with the last one
\* or after it, never before, and nothing arrives behind it.
Arrive ==
  /\ ~finished
  /\ arrived' \in arrived .. written
  /\ finished' \in {FALSE, closed /\ arrived' = written}
  /\ UNCHANGED <<written, closed, consumed, confirmed>>

ReadBytes ==
  /\ consumed' \in consumed .. arrived
  /\ UNCHANGED <<written, closed, arrived, finished, confirmed>>

Confirm ==
  /\ finished
  /\ confirmed' = TRUE
  /\ UNCHANGED <<written, closed, arrived, consumed, finished>>

Next == WriteBytes \/ Close \/ Arrive \/ ReadBytes \/ Confirm

Spec == Init /\ [][Next]_vars
=============================================================================
