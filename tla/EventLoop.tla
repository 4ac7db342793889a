----------------------------- MODULE EventLoop -----------------------------
(***************************************************************************)
(* Class EventLoop (libsponge/util/eventloop.hh and .cc) over the          *)
(* FileDescriptors of FileDescriptorOps: wait_next_event step by step,     *)
(* with the application's callbacks running in the middle of it.  A        *)
(* callback may do, in any order and number, what code that holds the loop *)
(* and the descriptors can do: read, write, shut down or close any         *)
(* descriptor, change what the rules are interested in, add a rule.        *)
(* A cancel callback may close, change interest and add.  Each of them,    *)
(* and interest(), may throw instead of returning; the exception leaves    *)
(* wait_next_event, and the caller goes on with the next call.             *)
(*                                                                         *)
(* External: poll(2) and the conditions it reports, kernel[f]:             *)
(*   "input"  bytes to read       "end"    the peer has ended              *)
(*   "room"   space to write      "error"  an error is pending             *)
(* A descriptor in Pipes is the read end of a pipe: it reports the end as  *)
(* POLLHUP, without POLLIN once drained.  The others are sockets, where    *)
(* the end is readable.                                                    *)
(***************************************************************************)
EXTENDS FileDescriptorOps, Sequences, SequencesExt

CONSTANTS
  FD,           \* the descriptors
  Pipes,        \* those that are read ends of pipes
  MaxRules      \* bound on the rules ever added

ASSUME EventLoopAssumption == Pipes \subseteq FD /\ MaxRules \in Nat

VARIABLES
  rules,      \* _rules: the list of [id, fd, direction], ids in order of adding
  added,      \* the number of rules added so far
  interest,   \* the rules whose interest() returns true
  fds,        \* the FDWrapper of each descriptor
  kernel,     \* external: what poll finds for each descriptor
  pc,         \* where wait_next_event is
  it,         \* its iterator, as a position in rules
  pollfds,    \* its pollfds: [id, events, revents]; id, the rule, is history
  idx,        \* its index into pollfds
  result,     \* what the last call returned, or "exception"
  cancels,    \* history: the calls of each rule's cancel() that did not throw
  dead        \* history: descriptors at eof when the call in progress began

app == <<rules, added, interest, fds>>
loop == <<pc, it, pollfds, idx, result, cancels, dead>>
loopVars == <<app, kernel, loop>>

this_rule == rules[it]

LoopInit ==
  /\ rules = <<>> /\ added = 0 /\ interest = {}
  /\ fds = [f \in FD |-> NewFDWrapper]
  /\ kernel = [f \in FD |-> IF f \in Pipes THEN {} ELSE {"room"}]
  /\ pc = "idle" /\ it = 1 /\ pollfds = <<>> /\ idx = 1 /\ result = "none"
  /\ cancels = [i \in 1 .. MaxRules |-> 0] /\ dead = {}

-----------------------------------------------------------------------------
(* What the application does, between calls or inside a callback. *)

Running == pc \in {"idle", "callback", "cancel_setup", "cancel_results"}

\* Only what a callback does to its own rule's counter is compared afterwards;
\* of the other registrations nothing is kept.
Counted(f, d) ==
  [d EXCEPT !.served =
     IF f = this_rule.fd THEN @ \cap {this_rule.direction} ELSE {}]
Uncounted == [f \in FD |-> [fds[f] EXCEPT !.served = {}]]

AddRule ==
  /\ Running /\ added < MaxRules
  /\ \E f \in FD, d \in Direction :
       /\ f \in Pipes => d = "In"
       /\ rules' = Append(rules, [id |-> added + 1, fd |-> f, direction |-> d])
  /\ added' = added + 1 /\ interest' = interest \cup {added + 1}
  /\ UNCHANGED <<fds, kernel, loop>>

ChangeInterest ==
  /\ Running
  /\ \E i \in 1 .. added :
       interest' = (interest \ {i}) \cup ({i} \ interest)
  /\ UNCHANGED <<rules, added, fds, kernel, loop>>

\* read returns at once when there is input or the end; bytes may be left.
ReadFd ==
  /\ pc = "callback"
  /\ \E f \in FD :
       /\ ~fds[f].closed /\ kernel[f] \cap {"input", "end"} # {}
       /\ LET got == IF "input" \in kernel[f] THEN 1 ELSE 0
          IN  fds' = [fds EXCEPT ![f] = Counted(f, read(@, 1, got))]
       /\ \E left \in {kernel[f], kernel[f] \ {"input"}} :
            kernel' = [kernel EXCEPT ![f] = left]
  /\ UNCHANGED <<rules, added, interest, loop>>

WriteFd ==
  /\ pc = "callback"
  /\ \E f \in FD :
       /\ ~fds[f].closed /\ "room" \in kernel[f]
       /\ fds' = [fds EXCEPT ![f] = Counted(f, register_write(@))]
       /\ \E left \in {kernel[f], kernel[f] \ {"room"}} :
            kernel' = [kernel EXCEPT ![f] = left]
  /\ UNCHANGED <<rules, added, interest, loop>>

ShutdownFd ==
  /\ pc = "callback"
  /\ \E f \in FD \ Pipes, how \in {"SHUT_RD", "SHUT_WR", "SHUT_RDWR"} :
       /\ ~fds[f].closed
       /\ fds' = [fds EXCEPT ![f] = Counted(f, shutdown(@, how))]
       /\ kernel' = [kernel EXCEPT ![f] =
                       IF how = "SHUT_WR" THEN @ ELSE @ \cup {"end"}]
  /\ UNCHANGED <<rules, added, interest, loop>>

CloseFd ==
  /\ Running
  /\ \E f \in FD :
       /\ ~fds[f].closed
       /\ fds' = [fds EXCEPT ![f] = close(@)]
       /\ kernel' = [kernel EXCEPT ![f] = {}]
  /\ UNCHANGED <<rules, added, interest, loop>>

Application ==
  AddRule \/ ChangeInterest \/ ReadFd \/ WriteFd \/ ShutdownFd \/ CloseFd

-----------------------------------------------------------------------------
(* wait_next_event. *)

Leave(r) ==
  /\ pc' = "idle" /\ result' = r
  /\ it' = 1 /\ idx' = 1 /\ pollfds' = <<>> /\ dead' = {}
  /\ fds' = Uncounted
  /\ UNCHANGED <<rules, added, interest, kernel>>

Return(r) == Leave(r) /\ UNCHANGED cancels

\* After Exit the caller makes no further calls.
Call ==
  /\ pc = "idle" /\ result # "Exit"
  /\ pc' = "setup" /\ result' = "none"
  /\ dead' = {f \in FD : fds[f].eof}
  /\ UNCHANGED <<app, kernel, it, pollfds, idx, cancels>>

\* this_rule.cancel() is called; `then` tells which loop it returns to.
Cancel(then) ==
  /\ pc' = then /\ cancels' = [cancels EXCEPT ![this_rule.id] = @ + 1]
  /\ UNCHANGED <<app, kernel, it, pollfds, idx, result, dead>>

\* Mutant: the end of file is not noticed.
OnlyClosedDone(r) == fds[r.fd].closed

\* Mutant: a closed descriptor is not noticed.
OnlyEofDone(r) == r.direction = "In" /\ fds[r.fd].eof

\* No more events can come for the rule.
Done(r) ==
  \/ r.direction = "In" /\ fds[r.fd].eof
  \/ fds[r.fd].closed

SetupCancel == pc = "setup" /\ it <= Len(rules) /\ Done(this_rule)
                 /\ Cancel("cancel_setup")

SetupPollfd ==
  /\ pc = "setup" /\ it <= Len(rules) /\ ~Done(this_rule)
  /\ LET events == IF this_rule.id \in interest THEN {this_rule.direction}
                                                ELSE {}
     IN  pollfds' = Append(pollfds, [id |-> this_rule.id, events |-> events,
                                     revents |-> {}])
  /\ it' = it + 1
  /\ UNCHANGED <<app, kernel, pc, idx, result, cancels, dead>>

something_to_poll == \E k \in DOMAIN pollfds : pollfds[k].events # {}

SetupDone ==
  /\ pc = "setup" /\ it > Len(rules)
  /\ IF something_to_poll
       THEN /\ pc' = "poll" /\ it' = 1
            /\ UNCHANGED <<app, kernel, pollfds, idx, result, cancels, dead>>
       ELSE Return("Exit")

\* Mutant: the rule stays in the list.
EraseNothing(back) ==
  /\ pc' = back /\ it' = it + 1
  /\ UNCHANGED <<added, interest, fds, kernel, pollfds, result, cancels, dead,
                 rules>>
  /\ idx' = IF back = "results" THEN idx + 1 ELSE idx

\* Mutant: idx does not move on, as if the pollfd were erased as well.
EraseBehind(back) ==
  /\ pc' = back
  /\ rules' = RemoveAt(rules, it)
  /\ UNCHANGED <<added, interest, fds, kernel, it, idx, pollfds, result, cancels,
                 dead>>

\* _rules.erase(it) once cancel() has returned; the for statement of the
\* second loop steps idx.
EraseRule(back) ==
  /\ pc' = back
  /\ rules' = RemoveAt(rules, it)
  /\ idx' = IF back = "results" THEN idx + 1 ELSE idx
  /\ UNCHANGED <<added, interest, fds, kernel, it, pollfds, result, cancels,
                 dead>>

SetupErase == pc = "cancel_setup" /\ EraseRule("setup")
ResultsErase == pc = "cancel_results" /\ EraseRule("results")

\* External: what poll sets for a pollfd.
Revents(p) ==
  LET f == (CHOOSE r \in ToSet(rules) : r.id = p.id).fd
      readable == \/ "input" \in kernel[f]
                  \/ "end" \in kernel[f] /\ f \notin Pipes
      ready == (IF readable THEN {"In"} ELSE {})
                 \cup (IF "room" \in kernel[f] THEN {"Out"} ELSE {})
  IN  IF fds[f].closed THEN {"NVAL"}
      ELSE (p.events \cap ready)
             \cup (IF "end" \in kernel[f] /\ f \in Pipes THEN {"HUP"} ELSE {})
             \cup (IF "error" \in kernel[f] THEN {"ERR"} ELSE {})

\* poll has something to report.
PollReturns ==
  /\ pc = "poll"
  /\ pollfds' = [k \in DOMAIN pollfds |->
                   [pollfds[k] EXCEPT !.revents = Revents(pollfds[k])]]
  /\ \E k \in DOMAIN pollfds : pollfds'[k].revents # {}
  /\ pc' = "results"
  /\ UNCHANGED <<app, kernel, it, idx, result, cancels, dead>>

PollTimeout ==
  /\ pc = "poll" /\ \A k \in DOMAIN pollfds : Revents(pollfds[k]) = {}
  /\ Return("Timeout")

PollInterrupted == pc = "poll" /\ Return("Exit")

\* Any other error: the catch clause drops it and the results are all empty.
PollFails ==
  /\ pc = "poll" /\ pc' = "results"
  /\ UNCHANGED <<app, kernel, it, pollfds, idx, result, cancels, dead>>

\* What `pollfds[idx]` may be: past the end of the vector (a rule was added
\* meanwhile) it is whatever lies there, here an error, a hangup, a ready or a
\* quiet entry.
ThisPollfd ==
  IF idx <= Len(pollfds) THEN {pollfds[idx]}
  ELSE [id : {0}, events : {{this_rule.direction}},
        revents : {{"ERR"}, {"HUP"}, {this_rule.direction}, {}}]

\* The body of the second loop, up to the call of callback(): count_before is
\* taken; nothing counts as served yet.
Judge(this_pollfd) ==
  LET poll_error == this_pollfd.revents \cap {"ERR", "NVAL"} # {}
      poll_ready == this_pollfd.revents \cap this_pollfd.events # {}
      poll_hup == "HUP" \in this_pollfd.revents
  IN  IF poll_error THEN Return("exception")
      ELSE IF poll_hup /\ this_pollfd.events # {} /\ ~poll_ready
        THEN Cancel("cancel_results")
      ELSE IF poll_ready
        THEN /\ pc' = "callback"
             /\ UNCHANGED <<app, kernel, it, pollfds, idx, result, cancels,
                            dead>>
        ELSE /\ it' = it + 1 /\ idx' = idx + 1
             /\ UNCHANGED <<app, kernel, pc, pollfds, result, cancels, dead>>

Results ==
  /\ pc = "results"
  /\ IF it <= Len(rules) THEN \E p \in ThisPollfd : Judge(p)
                         ELSE Return("Success")

\* Mutant: the call ends with the first callback.
CallbackEndsPass ==
  /\ pc = "callback"
  /\ IF this_rule.direction \notin fds[this_rule.fd].served
          /\ this_rule.id \in interest
       THEN Return("exception") ELSE Return("Success")

\* The callback returns: busy wait, or on to the next rule.
CallbackReturns ==
  /\ pc = "callback"
  /\ IF this_rule.direction \notin fds[this_rule.fd].served
          /\ this_rule.id \in interest
       THEN Return("exception")
       ELSE /\ pc' = "results" /\ it' = it + 1 /\ idx' = idx + 1
            /\ fds' = Uncounted
            /\ UNCHANGED <<rules, added, interest, kernel, pollfds, result,
                           cancels, dead>>

\* callback() throws, or the interest() that is asked after it.
CallbackThrows == pc = "callback" /\ Return("exception")

\* cancel() throws: erase is not reached, and the rule stays in the list.
CancelThrows ==
  /\ pc \in {"cancel_setup", "cancel_results"} /\ Leave("exception")
  /\ cancels' = [cancels EXCEPT ![this_rule.id] = @ - 1]

\* interest() throws while the pollfds are collected.
InterestThrows ==
  pc = "setup" /\ it <= Len(rules) /\ ~Done(this_rule) /\ Return("exception")

WaitNextEvent ==
  \/ SetupCancel \/ SetupPollfd \/ SetupDone \/ SetupErase
  \/ PollReturns \/ PollTimeout \/ Results \/ ResultsErase \/ CallbackReturns

-----------------------------------------------------------------------------
\* External: what may happen to a descriptor while the loop waits.
Environment ==
  /\ pc = "poll"
  /\ \E f \in FD : \E c \in {"input", "room", "end", "error"} \ kernel[f] :
       /\ ~fds[f].closed
       /\ c = "input" => "end" \notin kernel[f]
       /\ c \in {"error", "room"} => f \notin Pipes
       /\ kernel' = [kernel EXCEPT ![f] = @ \cup {c}]
  /\ UNCHANGED <<app, loop>>

LoopNext ==
  \/ Application \/ Call \/ WaitNextEvent
  \/ PollInterrupted \/ PollFails \/ Environment
  \/ CallbackThrows \/ CancelThrows \/ InterestThrows

\* The caller calls again until Exit, callbacks return or throw, and poll does
\* not fail for ever when it has something to report.
LoopSpec ==
  /\ LoopInit /\ [][LoopNext]_loopVars
  /\ WF_loopVars(Call) /\ WF_loopVars(WaitNextEvent) /\ SF_loopVars(PollReturns)

-----------------------------------------------------------------------------
(* Properties. *)

Ids == {rules[k].id : k \in DOMAIN rules}

\* A rule leaves the list only with a cancel() that returned, and cancel()
\* returns once: a rule is in the list and not cancelled, or gone and cancelled,
\* whichever loop drops it, whatever the callbacks do to the list meanwhile, and
\* however often cancel() has thrown, each time leaving the rule to be cancelled
\* again.
CancelledOnce ==
  \A i \in 1 .. added :
    LET in_cancel == /\ pc \in {"cancel_setup", "cancel_results"}
                     /\ this_rule.id = i
    IN  cancels[i] = IF i \notin Ids \/ in_cancel THEN 1 ELSE 0

\* Erasing rules and adding them during the call keeps the two indexes of the
\* second loop together: a rule that was polled is judged by its own result, and
\* only a rule added by a callback or a cancel of this second loop is judged by
\* memory past the end of pollfds.
JudgedByOwnResult ==
  pc \in {"results", "callback", "cancel_results"} /\ it <= Len(rules) =>
    IF \E k \in DOMAIN pollfds : pollfds[k].id = this_rule.id
      THEN idx <= Len(pollfds) /\ pollfds[idx].id = this_rule.id
      ELSE idx > Len(pollfds)

\* No rule is called back to read from a descriptor that was at its end, or
\* closed, before this call of wait_next_event, although poll goes on reporting
\* a socket at its end as readable.
NoCallbackAfterEof ==
  pc = "callback" /\ this_rule.direction = "In" /\ idx <= Len(pollfds)
    => this_rule.fd \notin dead

\* An exception ends the first loop before it has seen every rule.
SetupThrows == InterestThrows \/ (pc = "cancel_setup" /\ CancelThrows)

\* A rule whose descriptor is closed is dropped in the end, unless the loop has
\* been left: no other rule, no error of poll and no callback, throwing or not,
\* keeps it in the list for ever.  Assumed: cancel() and interest() do not go on
\* throwing in the first loop for ever.  There a rule whose cancel() always
\* throws stays, and so does every closed rule behind it.
ClosedIsDropped ==
  <>[][~SetupThrows]_loopVars => \A i \in 1 .. MaxRules :
    (\E k \in DOMAIN rules : rules[k].id = i /\ fds[rules[k].fd].closed)
      ~> (i \notin Ids \/ result = "Exit")

\* The rule is interested and its descriptor stays ready.
Ready(i) ==
  \E k \in DOMAIN rules :
    /\ rules[k].id = i /\ i \in interest
    /\ LET f == rules[k].fd
       IN  /\ ~fds[f].closed
           /\ IF rules[k].direction = "In"
                THEN "input" \in kernel[f] /\ ~fds[f].eof
                ELSE "room" \in kernel[f]

\* A rule that is interested and ready from some time on is called back again
\* and again, unless the loop is left or keeps throwing: the other rules cannot
\* starve it.
ReadyIsServed ==
  \A i \in 1 .. MaxRules :
    <>[]Ready(i) =>
      \/ []<>(pc = "callback" /\ this_rule.id = i)
      \/ <>(result = "Exit") \/ []<>(result = "exception")
=============================================================================
