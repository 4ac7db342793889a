------------------------- MODULE FileDescriptorOps -------------------------
(***************************************************************************)
(* Class FileDescriptor (libsponge/util/file_descriptor.hh and .cc) and    *)
(* what the sockets of libsponge/util/socket.cc add to it: the record that *)
(* all duplicates of a descriptor share (FDWrapper), and the operations    *)
(* from the old record to the new one.  What the kernel holds behind the   *)
(* descriptor belongs to the modules that use it.                          *)
(*                                                                         *)
(* The counters _read_count and _write_count are only ever compared with a *)
(* value they had earlier (EventLoop's count_before), so `served` keeps    *)
(* which of the two have grown since.                                      *)
(***************************************************************************)
EXTENDS Integers

Direction == {"In", "Out"}

NewFDWrapper == [eof |-> FALSE, closed |-> FALSE, served |-> {}]

register_read(d) == [d EXCEPT !.served = @ \cup {"In"}]
register_write(d) == [d EXCEPT !.served = @ \cup {"Out"}]

\* Mutant: a read that finds nothing does not set the end-of-file flag.
ReadMissesEof(d, limit, bytes_read) == register_read(d)

\* After ::read returned bytes_read bytes of the limit asked for.
read(d, limit, bytes_read) ==
  register_read([d EXCEPT !.eof = @ \/ (limit > 0 /\ bytes_read = 0)])

\* After a ::close that succeeded; one that fails throws and records nothing.
close(d) == [d EXCEPT !.eof = TRUE, !.closed = TRUE]

\* Socket::shutdown registers the directions that it ends.
shutdown(d, how) ==
  [d EXCEPT !.served = @ \cup CASE how = "SHUT_RD" -> {"In"}
                                [] how = "SHUT_WR" -> {"Out"}
                                [] how = "SHUT_RDWR" -> Direction]
=============================================================================
