# A TLA+ model of the Sponge TCP implementation

This directory models the TCP implementation in `src/libsponge`: the byte
stream, the stream reassembler, the wrapping sequence numbers, the receiver and
the sender, a sender and a receiver together over an unreliable network; the
segments' way over the wire; the event loop; and the program `apps/webget.cc`
with the buffers, descriptors and sockets it uses. TLC checks the models on small
instances, TLAPS proves what holds for every value of the constants. Every
definition is translated from the source; `PROJECT.json` maps it to its lines.

Everything in the library is single-threaded: a public method runs to its end
before another one starts, so one method call is one step. What interleaves is
the calls: of the application, of the clock and of the network. Two methods are
cut into smaller steps, because something else does run in the middle of them:
`EventLoop::wait_next_event` calls the application back, and
`FileDescriptor::write` makes system calls until everything is written.

## The system and what is hard about it

| part | state | operations that change it | what is hard |
|---|---|---|---|
| `ByteStream` | deque, two counters, end and error flags | `write`, `pop_output`, `read`, `end_input`, `set_error` | order and counters over long mixes of partial calls; the unsigned `remaining_capacity` |
| `StreamReassembler` | map index -> string, `write_ptr`, the noted end, its output `ByteStream` | `push_substring` | overlaps, repeats, any order; the window's limit; a known end with bytes missing |
| `WrappingInt32` | none | `wrap`, `unwrap` | the choice of the candidate at half the range and near zero |
| `TCPReceiver` | the reassembler, `_syn`, `_isn`, `_checkp`, `ack` | `segment_received` | late duplicates of SYN and FIN, segments outside the window, the reset at the end of the stream |
| `TCPSender` | the outgoing `ByteStream`, `_next_seqno`, `ack_s`, window, outstanding segments, timer | `fill_window`, `ack_received`, `tick`, `send_empty_segment` | partial, old and impossible acknowledgments, the timer, back-off, a closed window |
| `TCPState` | none | none | the summaries are inferred from counters |
| `TCPSegment`, `TCPHeader`, `NetParser` | header fields, parse error | `parse`, `serialize` | a short header; an error met halfway |
| `InternetChecksum` | sum and parity | `add` | pieces of odd length |
| `Buffer`, `BufferList`, `BufferViewList` | shared storage and offset, list | `append`, `remove_prefix` | prefixes that end on a buffer's boundary |
| `EventLoop` | list of rules | `add_rule`, `wait_next_event` | callbacks that change what was polled; hang-up, end of file, busy wait |
| `FileDescriptor`, sockets | shared end-of-file and closed flags, counters | `read`, `write`, `close`, `shutdown` | partial writes, a descriptor closed by its handle and by its destructor |
| `webget`, `SystemCall` | a socket | `get_URL` | any system call may throw; bounded kernel buffers between two blocking programs |
| `Address`, `TunFD`, printing | none of their own | system calls | nothing a model would show |

`TCPConnection`, which would own a sender and a receiver, is named in comments
and tests but has no implementation in this repository. Its place is taken by
what `tests/sender_harness.hh` and `tests/receiver_harness.hh` do.

## Modules

A class is a record and its methods are operators from the old record to the
new one (the `...Ops` modules), so that a class that owns another one, or a
composition, uses the same definitions. The module named after the class adds
the variable, the callers and the properties. Definitions marked *Mutant* are
wrong versions of the one below them: they are used only to confirm that the
properties notice the mistake.

| module | models |
|---|---|
| `WrappingIntegers` | `wrap`, `unwrap`; the width is the constant `HalfRange` (2^31 in the code) |
| `SequenceTracking` | a peer that names positions by wrapped numbers and a local end that unwraps them against the last one |
| `ByteStreamOps`, `ByteStream` | `ByteStream` |
| `StreamReassemblerOps`, `StreamReassembler` | `StreamReassembler`; the two loops of `push_substring` are `Assemble` and `Coalesce`, recursive functions over the positions up to the map's last key; a round is `AssembleStep` or `CoalesceStep` |
| `Reassembly` | the abstract reassembler: a set of byte indices |
| `TCPSegment` | the fields of a segment that sender and receiver use |
| `TCPReceiverOps`, `TCPReceiver` | `TCPReceiver` with the whole reassembler inside |
| `TCPSenderOps`, `TCPSender` | `TCPSender`; the loop of `fill_window` is a recursive function whose round is `FillStep` |
| `TCPState` | both `state_summary` functions |
| `Transfer` | sender, receiver and network, one direction |
| `ReliableStream` | the abstract pipe that `Transfer` implements |
| `InternetChecksum` | `InternetChecksum`; the size of a byte is the constant `ByteBase` (256 in the code) |
| `NetParser` | `NetParser`, `NetUnparser` |
| `TCPWire` | `TCPHeader` and `TCPSegment`: `parse`, `serialize` |
| `SegmentExchange` | segments serialized, sent over UDP, damaged, received and parsed into one object |
| `BufferOps` | `Buffer`, `BufferList`, `BufferViewList` |
| `FileDescriptorOps` | `FDWrapper` and what `FileDescriptor` and `Socket` do to it |
| `EventLoop` | `EventLoop`, with the application inside its callbacks |
| `MCParts` | nothing of its own: `SequenceTracking`, `ByteStream` and `StreamReassembler` in one model for TLC |
| `WebGet` | `webget.cc`: `get_URL`, `main` and the loop of `FileDescriptor::write` |
| `DataTheorems` | lemmas: induction, loops, sequence numbers, a `ByteStream` and a `StreamReassembler` as values |
| `SenderTheorems`, `ReceiverTheorems` | lemmas: a `TCPSender`, a `TCPReceiver` as a value, and what each method does to it |
| `TCPReceiver_proofs` | theorems about `SequenceTracking`, `StreamReassembler` and `TCPReceiver` |
| `TCPSender_proofs`, `Transfer_proofs`, `WebGet_proofs` | theorems about the module they are named after |
| `Components_proofs` | theorems about `ByteStream` and `EventLoop` |

A module of proofs may extend several components at once, so `SequenceTracking`,
`StreamReassembler`, `EventLoop` and `WebGet` name their initial states, steps and
specifications after themselves (`TrackingSpec`, `ReassemblerSpec`, `LoopSpec`, `GetSpec`).

In `EventLoop`, `pc` says where `wait_next_event` is: `setup` is its first loop, `poll`
the system call, `results` its second loop, `callback`, `cancel_setup` and
`cancel_results` the three places where the application runs. `callback()`, `cancel()` and
`interest()` may throw: the exception leaves the call (`CallbackThrows`, `CancelThrows`,
`InterestThrows`), and a rule whose `cancel()` threw is still in the list. `it` and `idx` are the
code's iterator and index, `rules` its list and `pollfds` its vector. Reading
`pollfds[idx]` past the end, which happens when a callback adds a rule, is
undefined in the code and yields any kind of entry in the model. In `WebGet`, `stage`
is the statement of `get_URL` that runs next; a failing system call takes it to
`failure` through the destructor of the socket. The kernel (what poll reports, the
socket buffers) and the server are external and modelled by what the code can
see of them.

Bytes. The code copies bytes and never looks at one, so byte number *i* of a
stream is the number *i*: a byte lost, repeated or moved shows in the value.
`ByteStream` alone uses an arbitrary set `Byte`, and in the request of `WebGet` a byte is
the triple of its message, its buffer and its place.

Integers. Sequence numbers wrap at `Modulus`, timer values at `UIntRange`. The
`size_t` subtraction in `push_substring` wraps in the code; `Clip` states its
effect (the whole string is kept). The receiver's window is a `size_t` and reaches
`ack_received` as a `uint16_t`: `Transfer` takes it modulo `WindowRange`. Absolute 64-bit positions do not wrap in the
model: a stream of 2^64 bytes does not occur.

On the wire a byte is below `ByteBase` and words are two and four of them.

Left out of the state: `read_ptr` and `_begin`, which every call assigns before
it uses them, and the messages that are printed.

## Runs

Bounds are small on purpose and chosen so that the hard cases happen.
The sender and the reassembler have a type invariant of their own among their
properties; those of the other components with proofs are part of the inductive
invariants there.

* **parts** (`MCParts`): the parts that stand on their own. One of them moves in a
  behaviour, the other two stay as they were made.
  * `SequenceTracking`: `HalfRange` 4 and 20 positions, so the number wraps more than
    twice. The two ends agree on every position; `unwrap` returns the closest
    position for every number, tie and zero included.
  * `ByteStream`: capacity 3, strings of up to 3, 6 bytes in total: writes that do
    not fit, reads of more than there is. It is a first-in first-out queue.
  * `StreamReassembler`: a stream of 6 bytes and a capacity of 4, every substring
    with every index inside the window. 4 is the least capacity in which two
    waiting strings overlap partly; 6 bytes are the least that can exceed it, since
    one byte is missing while others wait. The output is the stream, no byte is
    counted twice, capacity holds for output and waiting bytes together, and the
    map implements `Reassembly`. The history variable `offered` is part of the
    refinement: a push has to keep what it was offered, not just something. No
    action reads it, so TLC identifies states by the object alone (`VIEW`); the
    refinement is still checked on every step.
* **receiver** (`TCPReceiver`): a stream of 7 bytes and SYN and FIN over a
  sequence space of 6, so numbers wrap and the stream is longer than the whole
  space; capacity 2. Every segment of the stream may arrive at any time, in any
  cut, again and again, as long as it is not half the sequence space away, the
  assumption every TCP makes; so may a SYN, and a stray byte that claims the
  SYN's number.
* **sender** (`TCPSender`): all public methods in any order, every 32-bit number
  as ackno at any time, windows 0, 1, 2 and 4 with a payload limit of 2, ticks of
  1 and 2 with an initial timeout of 2, three retransmissions in a row.
  `UIntRange` 17 is the smallest range in which three doublings do not overflow;
  in the code 65535 ms doubled `MAX_RETX_ATTEMPTS` = 8 times stays far below
  2^32. `segments_out` is drained between calls: no method reads it.
  The application writes nothing after `end_input`, as the contract of the stream
  asks (`byte_stream.hh:10-11`). `WindowRespectedAfterSyn` is about every call that
  sends once the SYN is out; `LateAckKeepsFlight`: an acknowledgment below the last
  one leaves position, flight, timer and counters alone, whatever window it carries.
* **sender_backoff**, **sender_window**, **sender_old_ack** (`TCPSender`, same bounds):
  violated, see *Disagreements*.
* **transfer** (`Transfer`): 3 bytes through a receiver with room for 2, at most two
  segments and two acknowledgments in the network (enough for reordering, for
  an old acknowledgment behind a new one, and for a two-byte segment that meets
  a window of one). `WindowRange` 3 is above the receiver's capacity, as 65536 is
  above the default of 64000. A message stays in the network until it is lost, so it can
  arrive any number of times. The timer's values do not matter here, since a
  timeout may come at any time, so `UIntRange` is 2; the count of
  retransmissions saturates at `MaxRetx`, as nothing asks more of it than whether
  it is zero. The system may stop once everything is delivered, so deadlock is
  not an error.
* **transfer_live**: 2 bytes, receiver capacity 1, so the window closes after each
  byte; one message at a time in each direction.
* **segment_exchange** (`SegmentExchange`): `ByteBase` 64: four such bytes fit
  TLC's integers, which four bytes of 256 would not, and the six flags just fit
  one. `doff` is the upper three bits of its byte (`DoffUnit` 8) and takes values on
  both sides of 5. Headers with and without filling, payloads of 0, 1 and 4 bytes, a
  sequence number with all bits set, a pseudo checksum that makes the sum carry,
  every position damaged by the smallest and by the largest change; foreign
  datagrams of every length up to 29 with every `doff`, beyond the mtu of 27 too.
  Every segment may follow every other one in the same object; after damage or a
  foreign datagram a new object is taken (`Discard`), which keeps the histories
  apart that would otherwise multiply. An intact segment is accepted with all its
  fields, a single damaged byte never passes, what parsing yields is what a
  reading by position yields, and the checksum is the complement of the sum of
  the words wherever the data is cut. `ParsedByPosition` leaves open what
  `TCPSegment::parse` makes of a whole header with a `doff` below 5.
* **segment_short_header** (`SegmentExchange`, same bounds): violated, see
  *Disagreements*.
* **event_loop** (`EventLoop`): a socket and a pipe, two rules in all, so that one can
  be dropped and the other one judged or added in the same call (more rules are
  covered by `LoopCorrect`). Every rule that leaves the list was cancelled by one
  `cancel()` that returned; a rule that was polled is judged by its own result,
  whatever was erased or added meanwhile; nothing is read from a descriptor that
  was at its end before the call. A closed descriptor's rule is dropped in the end;
  a rule that stays ready is served again and again.
* **web_get** (`WebGet`): two calls of `write`, each with every list of one to three
  buffers of 0 to 2 bytes, an answer of up to 4 bytes, kernel buffers of 3 and 2
  bytes: smaller than request and answer, so both sides block. The request
  arrives byte for byte, success means a complete answer, the descriptor is
  given back once, and the program ends.

The event loop may return `Exit`, after which its caller stops, `webget` ends, and
the exchange is idle when its object is discarded: for these, stopping is not an
error (`CHECK_DEADLOCK FALSE`).

### Fairness

`Transfer`, `EventLoop` and `WebGet` have liveness properties.

`Transfer`. Assumed: the sending application closes
its stream and the receiving one reads (weak fairness: the calls are always
possible until they are made); the clock runs and the links are not dead (strong
fairness: a timeout whose segment is not lost, the arrival of the oldest
outstanding segment with an answer that is not lost, and the arrival of the
answer). Nothing is assumed about any other segment or acknowledgment, about
writes, or about the order of anything. The code gives the rest: `tick` sends the
oldest segment again for as long as it is called. Giving up after
`MAX_RETX_ATTEMPTS` would be the business of a `TCPConnection`.

`EventLoop`. The repository has no caller of the loop, so this is the use its header
describes: the caller calls `wait_next_event` until it returns `Exit` ("make no further
calls", `eventloop.hh:46`), also after an exception, and the steps of a call are taken,
callbacks returning or throwing included (weak fairness). poll may be interrupted, time out or fail, but not for ever while
it has something to report (strong fairness of `PollReturns`). Nothing is assumed
of the application's actions or of the descriptors. The two properties name what
they need besides. `ClosedIsDropped` assumes that `cancel()` and `interest()` do not go on
throwing in the first loop for ever (`<>[][~SetupThrows]_loopVars`): `cancel()` is called
before `erase`, so a rule whose `cancel()` always throws is never dropped, and each call ends
there, before the rules behind it. `ReadyIsServed` promises nothing for a loop that keeps
throwing, from wherever.

`WebGet`. The program runs while it is not blocked; the server goes on reading and,
since the request says `Connection: close`, ends in the end (weak fairness). No
fairness for its answering: it may answer with less.

### Disagreements between code and documentation

The first four are exhibited by runs that expect a violation. The others are recorded
here from reading the code.

* `window_zero` is never cleared, so there is no back-off after the first closed
  window (**sender_backoff**). "Wait twice as long b/c exponential back-off"
  (`tests/send_retx.cc:35`).
* The SYN is not subtracted from the room for payload: with bytes in the stream
  before the first `fill_window`, the first segment takes two numbers of a window
  of one (**sender_window**). "a full window of nonzero size should be respected"
  (`tests/send_extra.cc:364`). The harness calls `fill_window` before it writes,
  which hides it. Later calls respect the window (`WindowRespectedAfterSyn`).
* An old acknowledgment replaces the window (**sender_old_ack**). "Old ACK is ignored"
  (`tests/send_ack.cc:39`); that test repeats the window it already has.
  `LateAckKeepsFlight` is what holds.
* `TCPSegment::parse` ignores the result of `TCPHeader::parse`, so a header with a
  `doff` below 5, an error to the latter, is accepted (**segment_short_header**).
  "Header length is shorter than minimum required" (`libsponge/util/parser.hh:17`) is
  one of the results of parsing a "TCP segment" (`parser.hh:11`). The test of it
  (`tests/tcp_parser.cc:83`) calls `TCPHeader::parse`.

* `push_substring` keeps a string whole when it starts beyond the window: the
  count `read_ptr + _capacity - index` underflows. When the gap closes later,
  bytes are skipped in the output. "Bytes that would exceed the capacity are
  silently discarded" (`stream_reassembler.hh:34`). `TCPReceiver` never makes such
  a call: run **receiver** checks its output with the real reassembler inside. In
  `StreamReassembler` the guard of `PushInWindow` excludes it.
* Strings wholly below `write_ptr` are never erased. "The StreamReassembler will
  stay within the memory limits of the `capacity`" (`stream_reassembler.hh:33`).
  `LiveBytesWithinCapacity` is what holds: the bytes still to be written fit.
* `write` accepts bytes after `end_input`, although "the writer can end the input,
  and then no more bytes can be written" (`byte_stream.hh:10-11`). The model's
  `write` does the same, and the run of `ByteStream` writes after the end; the writers
  in the other models do not, so no property covers a stream that grows again.
* A poll that fails other than by an interrupt is swallowed by the `catch`, and the
  call goes on with empty results (`PollFails`). "If an error occurs during polling,
  this function throws a std::runtime_error" (`eventloop.cc:46`). The result is then
  `Success`, "At least one Rule was triggered" (`eventloop.hh:44`), with none triggered.
* A `cancel()` that throws leaves its rule in the list. "Once this occurs, the Rule is
  canceled, i.e., the EventLoop deletes it" (`eventloop.hh:70`). `CancelledOnce` says
  what holds, `ClosedIsDropped` what is assumed.
* A `close` that fails leaves `_closed` false, and the destructor closes the same
  descriptor number again; `GivenBackOnce` states that this is the only way.

## Proofs

Every safety property that a passing run checks is proved for every value of the constants,
except the four of `SegmentExchange`. So are both refinements, as step simulations. The
liveness properties are only model-checked.

| module | theorem | states |
|---|---|---|
| `DataTheorems` | `UnwrapOfWrap` | `unwrap` recovers a position within half the range of the checkpoint |
| `Components_proofs` | `ByteStreamCorrect` | `Fifo`, `WithinCapacity` |
| | `LoopCorrect` | `CancelledOnce`, `JudgedByOwnResult`, `NoCallbackAfterEof` |
| `TCPSender_proofs` | `SenderCorrect` | `TypeOK`, `UnackedIsKept`, `SegmentContent`, `TimerCoversFlight`, `SequenceAccounting`, `Backoff` |
| | `WindowIsRespected`, `OldestIsRetransmitted`, `StagesInOrder`, `LateAcksAreHarmless` | the action properties `WindowRespectedAfterSyn`, `RetransmitsOldest`, `SummaryOnlyAdvances`, `LateAckKeepsFlight` |
| `TCPReceiver_proofs` | `AlwaysAgree`, `AlwaysClosest` | `PeersAgree`, `ClosestToCheckpoint` |
| | `ReassemblerCorrect` | `ReassemblerTypeOK`, `OutputIsStream`, `UnassembledExact`, `LiveBytesWithinCapacity` |
| | `ReassemblerRefines` | `ImplementsReassembly` |
| | `ReceiverCorrect` | `OutputIsPrefix`, `AcknoExact` |
| | `EdgeOnlyAdvances`, `ReceiverStages` | the action properties `RightEdgeNeverShrinks`, `SummaryOnlyAdvances` |
| `Transfer_proofs` | `TransferCorrect` | `EndToEnd`, `AckedIsDelivered` |
| | `TransferIsPipe` | `ImplementsPipe` |
| `WebGet_proofs` | `GetCorrect` | `RequestIntact`, `SuccessIsComplete`, `GivenBackOnce` |

### Assumptions

The constants are assumed to be what their names say: capacities, lengths and bounds
are natural numbers, sequence numbers lie in the sequence space. Beyond that:

* `HalfRange` is any number above 0 (2^31 in the code).
* `Capacity \in 1 .. HalfRange - 1` for a receiver: its window is less than half the
  sequence space, as the default of 64000 bytes is, and without which no TCP can tell
  a new segment from an old one.
* `StreamLen + 2 <= HalfRange` in `Transfer`: its network keeps a segment for as long as it
  likes, so a number must not come around again while an old copy of it is about.
  In the code that is a stream of up to 2 GB. `TCPReceiver` has no such assumption: its
  stream may be longer than the whole space, and its guards say how old a segment
  may be.
* `BackoffAssumption`: the initial timeout doubled `MaxRetx` times fits an `unsigned int`.
  A `uint16_t` number of milliseconds doubled `MAX_RETX_ATTEMPTS` = 8 times does.

### Loops and induction

The provers cannot instantiate an induction theorem that has an operator as a
parameter. `DataTheorems` states induction with a set in place of the predicate
(`SetInduction`, from the well-foundedness of `<`), and the loops of the code are
recursive functions whose value at *k* is the state after *k* rounds. Three lemmas about
any such function do the rest: it exists (`LoopExists`), a set that every round keeps
holds its last value (`LoopKeeps`), and what every round advances has arrived at the end
(`LoopAdvances`). A loop's invariant is then a set of states, and its proof is the proof
of one round. This covers both loops of `push_substring`, the loop of
`unassembled_bytes`, `fill_window`, `BufferViewList::remove_prefix` and what it is measured
with, `size` and `Gather`. `WebGet_proofs` has these lemmas once more, because it is about
none of the data of `DataTheorems` and extends no module of TCP.

### The arguments

`UnwrapOfWrap`. Both numbers are written as position plus ISN plus a multiple of the
modulus; the offset is then congruent to `p - c`, and a residue in `0 .. Modulus - 1` is
unique, which settles both branches. `AlwaysAgree` follows: agreement makes the previous
position the checkpoint, which puts the next one in range.

`ByteStream`. `Fifo` alone is not inductive: that `write` takes a prefix needs
`remaining_capacity` to be no less than zero, which is `WithinCapacity`.

`StreamReassembler`. The invariant `ReassemblerOK` says that every string of the map is the
piece of the stream that belongs under its key and ends inside the window, that the
byte to be written next is not stored, that no two strings overlap, and that the end is
signalled when it is known and reached. Between two statements of `push_substring` only
the first part holds (`Loaded`): the first loop restores the missing byte (it writes
every string that reaches `write_ptr`), the second one that strings do not overlap, and
`Have`, the set of bytes written or stored, is the same through both. `Have` is also the
refinement mapping to the set of indices of `Reassembly`. `UnassembledExact` is the third
loop: strings that do not overlap are counted one by one.

`TCPSender`. The invariant `SenderOK` says that the map of outstanding segments covers the
numbers from `ack_s` to `_next_seqno` without overlap, but for a first segment that is
partly acknowledged (`Covers`), that each holds the bytes, SYN and FIN that belong under
its number, that `_next_seqno` counts SYN, the bytes read and FIN, and that the timer runs
exactly while the map is not empty. `SenderTheorems` shows it for each method, with the
loop of `fill_window` as above, and says what each call puts on the wire. `Backoff` is
inductive together with the bound on `retransnum`.

`TCPReceiver`. A receiver is new, open or closed (`ReceiverOK`). While it is open its
reassembler satisfies `ReassemblerOK` and `_checkp` is `write_ptr`; the window test of
`segment_received` is what brings a segment within the range of `UnwrapOfWrap` and its
push inside the window. At the end of the stream `segment_received` resets `_syn` and
`_checkp`, and the stronger invariant is lost for good: a late duplicate is unwrapped
against zero and may be stored under a wrong index. What survives is that such a string
lies below `write_ptr` (`Finished`), where neither loop looks at its bytes, so that
output, `ackno` and window stay what they were.

`Transfer`. The receiver's invariant speaks of a stream of known length, but here it is
still being written. `Serves` therefore states it for every length that is still
possible: at least the bytes sent so far, and exactly these once FIN is sent. The
invariant `Joint` joins the sender's `SenderOK`, that every segment in the network is one
the sender built, `Serves`, that `ack_s` is at most what the receiver has for good, and
that every acknowledgment in the network names a number the receiver has reached. An
acknowledgment then unwraps to a number the receiver has, whatever its age, and FIN is
taken as acknowledged only when the receiver's stream has ended. Each step is shown to be
a step of `ReliableStream` or to leave it alone.

`EventLoop`. The three properties need each other and the order of the list
(`LoopInv`). `rules` is in the order of its ids, so no rule is there twice. `LinedUp`: in the
first loop there is one pollfd per rule passed; in the second one rule `k` from `it` on
belongs to pollfd `k + (idx - it)`, and the rules behind the last pollfd are newer than all
that were polled. Erasing moves the rules down and `idx - it` up by one; adding only
appends. A `cancel()` that throws takes its call back and finds its rule still in the list.

`WebGet`. The invariant `GetInv` adds to the properties what has been written and closed at
each stage, and that end of file is seen only after the server has ended and all of
its answer was read. The step that needs work is a turn of `write`: for any list of views
and any `n` up to its size, `remove_prefix` leaves a list whose bytes are those of the old
one from `n + 1` on (`RemovePrefixFacts`), across views that are empty or end at `n`.

### Only model-checked

* Liveness (`EventuallyComplete`, `ClosedIsDropped`, `ReadyIsServed`, `Terminates`): fairness is
  out of the provers' reach.
* `SegmentExchange`: `IntactIsAccepted`, `DamageIsRejected`, `ParsedByPosition`,
  `ChecksumOfWords`. They are about the arithmetic of one's complement sums over words cut
  anywhere, and of words and bytes with a variable base, which is not linear; and
  `DamageIsRejected` is bounded by the carries that a 32-bit sum has room for. Their modules use
  recursion over data of any length.
* `BacksOffInOpenWindow`, `WindowRespected`, `OldAckIsIgnored` and `ShortDoffIsReported` are
  false, see *Disagreements*.

## Not modelled

* `TCPConnection`: not in the repository.
* `Address`, `TunFD`, `hexdump`, timestamps, random seeds, `to_string` and `summary`: system
  calls and printing without state of their own.
* `listen`, `accept`, `bind`, socket options, `set_blocking`, the checks of a descriptor's
  type: single system calls. All descriptors block.
* The count of duplicates of a `FileDescriptor`: the application keeps one for as long
  as the model runs, so the destructor runs at the end (`WebGet`) or not at all.
* `BufferList::remove_prefix` and its conversion to `Buffer`, which nothing calls.
* In `WebGet`, a server that answers before it has read the request: with buffers smaller
  than both, client and server could wait for each other (`webget.cc:24`).
* In the event loop: what happens to a descriptor while a callback runs (it is
  noticed at the next poll either way), and reads and writes by cancel callbacks.
* The operators of `wrapping_integers.hh` (differences and comparisons), which only
  tests use.
* A SYN from another connection with another ISN after the stream has ended. RST,
  urgent data and options, which neither sender nor receiver looks at.
