-------------------------- MODULE SequenceTracking --------------------------
(***************************************************************************)
(* How the receiver (tcp_receiver.cc:31) and the sender (tcp_sender.cc:67) *)
(* use wrap and unwrap: a peer names absolute positions by their wrapped   *)
(* numbers only, and the local end recovers them relative to a checkpoint, *)
(* the last position it knows.  The peer never names a position half the   *)
(* sequence space or more away, the assumption of every TCP.               *)
(***************************************************************************)
EXTENDS WrappingIntegers

CONSTANT MaxPosition    \* bound of the model: the last position the peer names

ASSUME MaxPositionAssumption == MaxPosition \in Nat

VARIABLES
  isn,         \* initial sequence number of the connection
  position,    \* the absolute position the peer last named
  checkpoint   \* what the local end believes that position to be

trackingVars == <<isn, position, checkpoint>>

TrackingTypeOK ==
  /\ isn \in WrappingInt32
  /\ position \in 0 .. MaxPosition
  /\ checkpoint \in 0 .. MaxPosition

TrackingInit ==
  /\ isn \in WrappingInt32
  /\ position = 0
  /\ checkpoint = 0

\* The peer names a position; the local end unwraps it (check_roundtrip of the
\* test suite, with the previous answer as the checkpoint).
Hear(p) ==
  /\ checkpoint - HalfRange <= p
  /\ p < checkpoint + HalfRange
  /\ position' = p
  /\ checkpoint' = unwrap(wrap(p, isn), isn, checkpoint)
  /\ UNCHANGED isn

TrackingNext == \E p \in 0 .. MaxPosition : Hear(p)

TrackingSpec == TrackingInit /\ [][TrackingNext]_trackingVars
-----------------------------------------------------------------------------
Distance(a, b) == IF a < b THEN b - a ELSE a - b

\* The two ends never disagree about a position, however often the 32-bit
\* number wrapped on the way there (unwrap recovers what wrap was given).
PeersAgree == checkpoint = position

\* The documented contract of unwrap: it returns a position that wraps to n, and
\* no position that wraps to n is nearer to the checkpoint.
ClosestToCheckpoint ==
  \A n \in WrappingInt32 :
    LET u == unwrap(n, isn, checkpoint) IN
      /\ u \in Nat
      /\ wrap(u, isn) = n
      /\ \A v \in 0 .. checkpoint + Modulus :
           wrap(v, isn) = n => Distance(u, checkpoint) <= Distance(v, checkpoint)
=============================================================================
