------------------------------ MODULE MCParts ------------------------------
(***************************************************************************)
(* Model checking of the parts that stand on their own: the arithmetic of  *)
(* sequence numbers, ByteStream and StreamReassembler.  Each is explored   *)
(* by itself, the other two staying as they are made.                      *)
(***************************************************************************)
EXTENDS SequenceTracking, ByteStream, StreamReassembler

PartsInit == TrackingInit /\ Init /\ ReassemblerInit

\* As made; the two users of bytes have no initial sequence number.
TrackerIdle == TrackingInit /\ isn = 0
ReassemblerIdle == reassembler = NewReassembler(ReassemblerCapacity)

TrackingAlone ==
  /\ Init /\ ReassemblerIdle
  /\ TrackingNext
  /\ UNCHANGED <<vars, reassemblerVars>>

StreamAlone ==
  /\ TrackerIdle /\ ReassemblerIdle
  /\ Next
  /\ UNCHANGED <<trackingVars, reassemblerVars>>

ReassemblerAlone ==
  /\ TrackerIdle /\ Init
  /\ PushInWindow \/ ReadAny
  /\ UNCHANGED <<trackingVars, vars>>

PartsNext == TrackingAlone \/ StreamAlone \/ ReassemblerAlone

PartsSpec == PartsInit /\ [][PartsNext]_<<trackingVars, vars, reassemblerVars>>

\* The history variable of the reassembler does not tell states apart.
PartsView == <<trackingVars, vars, ReassemblerView>>
=============================================================================
