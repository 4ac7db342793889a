------------------------------- MODULE WebGet -------------------------------
(***************************************************************************)
(* The program apps/webget.cc: get_URL over a TCPSocket, with              *)
(* FileDescriptor::write (writev may take any part of the buffer list),    *)
(* ::read, ::shutdown and ::close, the exception that any failing system   *)
(* call throws through main, and the destructor that then runs.  get_URL   *)
(* calls write three times, with one string each; here every call writes   *)
(* some list of buffers, empty ones included, as write accepts.            *)
(*                                                                         *)
(* External: the kernel's two socket buffers, of SendRoom and RecvRoom     *)
(* bytes, and the server, which reads the whole request before it answers  *)
(* (HTTP) and may answer with less than AnswerLen.  No two bytes of the    *)
(* request are equal: byte k of buffer i of the m-th message is            *)
(* <<m, i, k>>.  Byte i of the answer is the number i.                     *)
(***************************************************************************)
EXTENDS FileDescriptorOps, BufferOps

CONSTANTS
  Calls,        \* the number of calls of write
  MaxBuffers, MaxLen,  \* buffers of a call and bytes of a buffer
  AnswerLen,    \* bytes the server may answer with
  SendRoom, RecvRoom

ASSUME WebGetAssumption ==
  /\ Calls \in Nat \ {0} /\ MaxBuffers \in Nat \ {0} /\ MaxLen \in Nat
  /\ AnswerLen \in Nat /\ SendRoom \in Nat \ {0} /\ RecvRoom \in Nat \ {0}

VARIABLES
  messages,   \* what to write: one BufferList per call
  stage,      \* where get_URL is
  sent,       \* the number of writes completed
  buffer,     \* the local `buffer` of FileDescriptor::write
  sock,       \* the FDWrapper of sock1
  printed,    \* what went to cout
  closes,     \* the number of ::close calls on the descriptor number
  toServer, toClient,  \* the kernel's buffers
  written_off,         \* the client's direction is shut down
  server      \* [got : what it read, answered : bytes answered, ended]

getVars == <<messages, stage, sent, buffer, sock, printed, closes, toServer,
             toClient, written_off, server>>

\* The m-th message, in buffers of these lengths.
Message(m, lengths) ==
  [i \in DOMAIN lengths |-> Buffer([k \in 1 .. lengths[i] |-> <<m, i, k>>])]

\* All messages from the next-th on, in one string.
MessagesFrom(next) ==
  Gather([k \in 1 .. Calls + 1 - next |-> concatenate(messages[next + k - 1])])

Request == MessagesFrom(1)

\* The first n bytes of the answer.
Answer(n) == [k \in 1 .. n |-> k]

GetInit ==
  /\ \E lengths \in [1 .. Calls -> UNION {[1 .. k -> 0 .. MaxLen] :
                                            k \in 1 .. MaxBuffers}] :
       messages = [m \in 1 .. Calls |-> Message(m, lengths[m])]
  /\ stage = "connect" /\ sent = 0 /\ buffer = <<>> /\ sock = NewFDWrapper
  /\ printed = <<>> /\ closes = 0
  /\ toServer = <<>> /\ toClient = <<>> /\ written_off = FALSE
  /\ server = [got |-> <<>>, answered |-> 0, ended |-> FALSE]

\* The view list of the next call of write is built.
Connect ==
  /\ stage = "connect"
  /\ stage' = "write" /\ buffer' = BufferViewList(messages[1])
  /\ UNCHANGED <<messages, sent, sock, printed, closes, toServer, toClient,
                 written_off, server>>

\* One turn of write's loop: writev takes n bytes (none only from an empty
\* list).  When the list is empty, write returns and get_URL goes on.
WriteTurn(n) ==
  LET rest == remove_prefix(buffer, n)
      done == size(rest) = 0
      last == sent + 1 = Calls
  IN  /\ stage = "write"
      /\ toServer' = toServer \o SubSeq(Gather(buffer), 1, n)
      /\ sock' = register_write(sock)
      /\ sent' = IF done THEN sent + 1 ELSE sent
      /\ stage' = IF done /\ last THEN "shutdown" ELSE "write"
      /\ buffer' = IF done /\ ~last THEN BufferViewList(messages[sent + 2])
                                    ELSE rest
      /\ UNCHANGED <<messages, printed, closes, toClient, written_off, server>>

\* What the kernel lets one writev take.
CanTake(n) ==
  /\ n <= SendRoom - Len(toServer)
  /\ (n = 0) <=> (size(buffer) = 0)

WriteSome == \E n \in 0 .. size(buffer) : CanTake(n) /\ WriteTurn(n)

Shutdown ==
  /\ stage = "shutdown"
  /\ stage' = "read" /\ sock' = shutdown(sock, "SHUT_WR") /\ written_off' = TRUE
  /\ UNCHANGED <<messages, sent, buffer, printed, closes, toServer, toClient,
                 server>>

\* Mutant: the loop ends at the first read that leaves the buffer empty.
ReadUntilEmpty(n) ==
  /\ stage = "read" /\ sock' = read(sock, RecvRoom, n)
  /\ printed' = printed \o SubSeq(toClient, 1, n)
  /\ toClient' = SubSeq(toClient, n + 1, Len(toClient))
  /\ stage' = IF toClient' = <<>> THEN "close" ELSE "read"
  /\ UNCHANGED <<messages, sent, buffer, closes, toServer, written_off,
                 server>>

\* One turn of get_URL's loop, with the test of the next one.
ReadTurn(n) ==
  /\ stage = "read"
  /\ sock' = read(sock, RecvRoom, n)
  /\ printed' = printed \o SubSeq(toClient, 1, n)
  /\ toClient' = SubSeq(toClient, n + 1, Len(toClient))
  /\ stage' = IF sock'.eof THEN "close" ELSE "read"
  /\ UNCHANGED <<messages, sent, buffer, closes, toServer, written_off,
                 server>>

\* ::read blocks while there is nothing to read and the server has not ended.
ReadAnswer ==
  \E n \in 0 .. Len(toClient) :
    /\ n = 0 => toClient = <<>> /\ server.ended
    /\ ReadTurn(n)

\* The destructor that follows finds the descriptor closed.
Close ==
  /\ stage = "close"
  /\ stage' = "success" /\ sock' = close(sock) /\ closes' = closes + 1
  /\ UNCHANGED <<messages, sent, buffer, printed, toServer, toClient,
                 written_off, server>>

\* Mutant: the destructor leaves the descriptor open.
DestroyOpen(calls) == calls

\* ~FDWrapper, run by the exception: another ::close unless _closed is set.
Destroy(calls) == IF sock.closed THEN calls ELSE calls + 1

\* A system call fails, a ::close included: SystemCall throws, main returns
\* EXIT_FAILURE.  `calls` is the number of ::close calls made so far.
Throw(calls) ==
  /\ stage' = "failure" /\ closes' = Destroy(calls) /\ written_off' = TRUE
  /\ UNCHANGED <<messages, sent, buffer, sock, printed, toServer, toClient,
                 server>>

CallFails == stage \in {"connect", "write", "shutdown", "read"} /\ Throw(closes)
CloseFails == stage = "close" /\ Throw(closes + 1)

-----------------------------------------------------------------------------
(* The server. *)

RequestComplete == written_off /\ toServer = <<>>

ServerReads ==
  /\ ~server.ended /\ toServer # <<>>
  /\ \E n \in 1 .. Len(toServer) :
       /\ server' = [server EXCEPT !.got = @ \o SubSeq(toServer, 1, n)]
       /\ toServer' = SubSeq(toServer, n + 1, Len(toServer))
  /\ UNCHANGED <<messages, stage, sent, buffer, sock, printed, closes, toClient,
                 written_off>>

ServerAnswers ==
  /\ ~server.ended /\ RequestComplete
  /\ server.answered < AnswerLen /\ Len(toClient) < RecvRoom
  /\ server' = [server EXCEPT !.answered = @ + 1]
  /\ toClient' = Append(toClient, server.answered + 1)
  /\ UNCHANGED <<messages, stage, sent, buffer, sock, printed, closes, toServer,
                 written_off>>

ServerEnds ==
  /\ ~server.ended /\ RequestComplete
  /\ server' = [server EXCEPT !.ended = TRUE]
  /\ UNCHANGED <<messages, stage, sent, buffer, sock, printed, closes, toServer,
                 toClient, written_off>>

Client == Connect \/ WriteSome \/ Shutdown \/ ReadAnswer \/ Close
Server == ServerReads \/ ServerAnswers \/ ServerEnds

GetNext == Client \/ CallFails \/ CloseFails \/ Server

\* The program runs on while it is not blocked; the server goes on reading,
\* answering and in the end closes (the request says "Connection: close").
GetSpec ==
  /\ GetInit /\ [][GetNext]_getVars
  /\ WF_getVars(Client) /\ WF_getVars(ServerReads) /\ WF_getVars(ServerEnds)

-----------------------------------------------------------------------------
(* Properties. *)

\* What writev has taken, what the list still holds and the messages not yet
\* begun are always the request, byte for byte: whatever parts writev takes, and
\* across empty buffers, write repeats nothing and skips nothing.
RequestIntact ==
  LET begun == IF stage = "write" THEN sent + 1 ELSE sent
  IN  /\ IsPrefix(server.got \o toServer, Request)
      /\ stage # "failure" =>
           server.got \o toServer \o Gather(buffer) \o MessagesFrom(begun + 1)
             = Request

\* The program prints the answer in order, and nothing else; when it reports
\* success the server has had the whole request and has ended, and the answer
\* has been printed to its last byte.
SuccessIsComplete ==
  /\ printed \o toClient = Answer(server.answered)
  /\ stage = "success" =>
       /\ server.got = Request
       /\ server.ended /\ printed = Answer(server.answered)

\* However get_URL is left, the descriptor number is given back to the kernel,
\* and only once, unless it is ::close itself that failed: then _closed is still
\* false and the destructor calls it again.
GivenBackOnce ==
  /\ stage \in {"success", "failure"} => closes >= 1
  /\ closes > 1 => closes = 2 /\ stage = "failure" /\ sock.eof /\ ~sock.closed
  /\ sock.closed => closes = 1

\* get_URL ends, although the kernel's buffers are smaller than the request and
\* the answer and read and writev block on them.
Terminates == <>(stage \in {"success", "failure"})
=============================================================================
