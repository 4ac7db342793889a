------------------------------ MODULE TCPState ------------------------------
(***************************************************************************)
(* TCPState::state_summary (libsponge/tcp_helpers/tcp_state.cc) of a       *)
(* receiver and of a sender, given what it asks of them.  The strings of   *)
(* the code are numbered in the order of a connection's life.              *)
(***************************************************************************)
EXTENDS Integers

ERROR == -1

LISTEN == 0
SYN_RECV == 1
FIN_RECV == 2

ReceiverSummary(error, hasAckno, inputEnded) ==
  IF error THEN ERROR
  ELSE IF ~hasAckno THEN LISTEN
  ELSE IF inputEnded THEN FIN_RECV
  ELSE SYN_RECV

CLOSED == 0
SYN_SENT == 1
SYN_ACKED == 2
FIN_SENT == 3
FIN_ACKED == 4

SenderSummary(error, nextSeqno, inFlight, isEof, bytesWritten) ==
  IF error THEN ERROR
  ELSE IF nextSeqno = 0 THEN CLOSED
  ELSE IF nextSeqno = inFlight THEN SYN_SENT
  ELSE IF ~isEof \/ nextSeqno < bytesWritten + 2 THEN SYN_ACKED
  ELSE IF inFlight > 0 THEN FIN_SENT
  ELSE FIN_ACKED
=============================================================================
