# A TLA+ model of easyfibers

easyfibers runs stackful fibers on one thread: socket fibers, timer fibers and
processing fibers, driven by a poller and one or more runners. This directory
holds TLA+ modules that model the library, TLC configurations that check them
on small instances, and TLAPS proofs of most of their safety properties for
instances of any size. Source paths below are relative to the repository's `src/`.

## 1. Inventory

| part | state | operations | correct when |
|---|---|---|---|
| **Poller** `poller.rs` | `toexec_fibers`, `timedout_fibers` (per runner), the wheel, the pool of stacks, mio's registrations | `poll`, `timer_reg`, `timer_cancel`, `stack_push`, `stack_pop`, the queues | every event and expiry reaches its fiber once; a stack has one owner |
| **Runner** `runner.rs` | `fibers` vector, `free_fibers`, `tomain_fibers`, `results` | `run`, `step_into`, `step_out`, `stepped_out`, `register`, `child_iter`, `join_main`, `resume_fiber`, `cancel_timer`, lookups | a fiber is entered only while it is blocked in something that is over; slots and results are neither lost nor shared |
| **Fiber** `fiber.rs` | `FiberInt`: state, stack, socket, `ready`, `result`, `wtoken`, `timed_out`, parent, children | the calls of a running fiber, `FiberRef`, `TimerRef` | a call blocks until what its documentation says |
| **Timer wheel** `wheel.rs`, `builder.rs` | slots with linked lists through a slab, cursor of `poll` | `reserve`, `set_timeout`, `cancel`, `poll` | nothing fires before its tick, nothing due is missed |
| **Registry** `tls.c`, `runner.rs`, `poller.rs` | the thread's pointers to poller and runners, ids that pack runner and fiber, references into the fibers vector | new and drop of both, `find_empty`, `split_id`, growth of the vector | a runner meets its own entries only; a reference leads to a slot of the runner it was taken from |
| **DNS client** `dns.rs` | servers, socket family | `start_lookup`, `lookup_on`, `dns_parse` | a lookup asks every server it can reach |
| **DNS packets** `dns_parser/` | cursors into the packet | `Packet::parse`, `Name::scan`, `RRData::parse`, `Builder` | ends on every input, within bounds; finds the first address; asks for the host |
| **TLS sockets** `fiber.rs`, `runner.rs` | `TlsTemp` and `Tls`, `tmp_buf` | `tcp_tls_*`, `write_bufs`, `read_bufs` | a handshake ends; a count is what was moved, an error means nothing was |
| macOS resolver `dns.rs` | a thread, a channel, generations | | not modelled (section 6) |

How they interact: everything is one thread. The main stack calls
`Poller::poll`, which fills the two queues from mio and from the wheel, and
`Runner::run`, which empties them by stepping into fibers. A fiber steps out by
blocking or returning; `stepped_out`, on the main stack, then decides who is
next: straight on into the parent, or back to the loop of `run()`. Queues,
tokens and parents refer to a fiber by its **slot number** and to a timer by
its **token**, without a generation.

What is hard about it:

* a slot number or a token outlives what it was made for (stale queue entries,
  a timer that fired in the same poll as the event it guards, a reused token);
* a fiber can be entered for several reasons (event, timer, queue, child, main
  stack), and the blocked call does not look at which it was;
* sockets are edge triggered and registration is skipped when the direction is
  unchanged;
* references outlive what they point at: `context_function` keeps one into a
  vector that may grow, a `FiberRef` names a slot of a runner that may be gone;
* a TLS stream moves a part of what it is given, or fails half-way through an
  array of buffers, and the call is then started over;
* the DNS parser takes lengths and pointers from the network, on the thread
  that everything else runs on;
* one field serves two purposes: `result` (chunks out, answers in), `timed_out`
  (flag and tick count), `connect_param` (parameter and "is resolving");
* a bounded slab of timers that can be full at each of three places.

`PROJECT.json` lists these hazards at their lines, with the properties aimed
at them.

## 2. Modules

| module | what it is |
|---|---|
| `Poller` | queues, timers as a slab of tokens, pool of stacks, edge-triggered sockets, for one runner |
| `Fibers` | `RunnerInt` and `FiberInt`, and everything that creates a fiber. Extends `Poller` |
| `Runner` | the calls of a fiber, context switches, `run()`, `poll()`, the main stack; `Spec` and `FairSpec`. Extends `Fibers` |
| `RunnerProps` | invariants and liveness of `Runner` |
| `MCRunner` | instance for TLC |
| `RunnerProofs` | proofs about `Runner`: types and stacks, wakeups and lookups |
| `UsageProofs` | proofs about `Runner` for classes of programs: what wakes a fiber, that nothing enters a closed one, parents and children |
| `Wheel`, `WheelProps`, `MCWheel` | the hashed wheel, its invariants, instance for TLC |
| `TimerService` | abstract specification of timers, implemented by `Wheel` |
| `Registry` | poller and runners of a thread, the fibers vector and what points into it |
| `Dns` | choice of servers in one lookup |
| `Packet`, `PacketProps`, `MCPacket` | the DNS parser and builder, their properties, packets and hosts for TLC |
| `TlsBufs` | vectored reads and writes over a TLS stream |
| `WheelProofs`, `RegistryProofs`, `DnsProofs`, `PacketProofs`, `TlsBufsProofs` | proofs about the module of that name |
| `Induction` | lemmas about numbers, functions defined by recursion on a number, paths and `FlattenSeq` that several of them use |

### Runner, Fibers, Poller

The **program is left open.** `Usage` is the set of calls that a program makes;
on the main stack and in a running fiber any of them may come next. It also
names liberties a program may take: `busy_parent`, `return_early`,
`late_drop`, `repoll`, `run_unprompted` (explained in `Fibers.tla`), and what may
befall it: `resolve_error`, `malformed_dns`, and `register_error`, which lets mio
refuse a socket. A run picks a `Usage`; what holds for which is what the runs
tell.

**A socket that mio refuses** (`register_error`) is an error of the call that
blocks (`IoUnregistered`), of `new_listener`, whose slot is off the free list by
then (`ListenerFails`), or of `new_resolve`, which leaves all as if it had
succeeded (`Resolve`); a connection that is refused is kept and its fiber starts
at once (`ConnectFails`). `ready` is set all the same (`fiber.rs:353`), so with
`register_error` any socket may become ready without an event (`SocketReady`):
the model does not keep which ones were refused, and allows more than the code
does.

**Control** is a program counter, since there is one thread: `at` is the place
(`main`, inside `poll()` at `events` or `timers`, inside `run()` at `toexec`
or `timedout`, `step_into`, `resumed`, `fiber`, `stepped_out`, `panic`), `cur`
the fiber concerned and `loop` the loop of `run()` to go back to. `step_into`
of a parent is the last thing `stepped_out` does, so recursion of
`step_into`/`stepped_out` needs no stack in the model.

**A fiber** is a record with the fields of `FiberInt`. `op` stands for what
its saved stack would say: the call it is blocked in. Stacks are numbers; a
fiber that has none gets the top of the pool or a fresh one. A result is a
`"chunk"` or a `"reply"`, by who wrote it; parameters and data are reduced to
whether they are there. A socket is `avail` (directions that would not block)
and `edge` (an event mio has not delivered); re-registering makes an event if
the socket is ready, closing it removes it. mio is external and modelled by
the use `poll()` makes of it.

**Time** is left out of `Runner`: a timer that is set may fire in any later
poll. This covers every pace of the clock; `Wheel` has the real arithmetic.

**Panics** end the model in place `panic`: a second start without parameter
(`param.unwrap()`), overwriting the slot of the fiber that runs, an underflow
of `timed_out`, a DNS packet that does not parse.

Reductions to know of: `read`, `write` and the vectored forms are one action
pair each (`IoReturns`, `IoBlocks`), with a closed or failing socket counted
as ready; the socket's state changes only while control is on the main stack
or in a fiber, the places where something reads it next; `poll()` that was
interrupted by a signal is a poll without events; `flush` is I/O alone and
leaves no trace in the runner.

**TLS.** `tcp_tls_connect` and `tcp_tls_accept` are one call, `handshake`: the
socket is taken out of the fiber, becomes `TlsTemp` while the handshake is
interrupted and `Tls` when it is done, or is closed. Each round uses up any
part of what could be read and written, and registers for readable whatever it
was waiting for. A `Tls` socket may return buffered data without being ready,
and cannot be registered any more (`Evented`): a call that would have to is
an action of its own, `IoUnregistered`.

### Wheel and TimerService

`Wheel` keeps the lists of the slots, threaded through the slab by `next` and
`prev`, the slab's free list and growth, `next_timeout` per slot, and the
cursor (`cur_wheel_tick`, `cur_slab_idx`) that survives between polls; one
iteration of the loop in `Wheel::poll` is a step. `TimerService` says what the
poller may count on: a timer is armed for a tick, not before the tick of the
instant asked for and not later than that or two ticks past the last poll, and
a poll ends only when nothing due is left. `move_timeout`, `next_timeout()`
and `release` have no callers and are left out.

### Registry and Dns

`Registry` takes the thread's poller and its runners together: new and drop of
both, `find_empty`, the packing of ids, the queues per position, the wheel that
all share, and the life of a fiber as far as it leaves its runner: it is made and
queued, has timers (its own, that of its lookup, and those that `timed_step_out`
sets for a blocked call), joins the main stack, streams and returns. `poll()`
queues a fiber for any event of its socket, whatever it is doing and also if it
is queued already, as `poller.rs:117` does. A Runner may be dropped at any time
on the main stack. Queue entries, timers, `FiberRef`s and `TimerRef`s carry the
number of the runner that made them, and `dirty` the positions that a Runner left
with any of these: both are history, which no step looks at (`dirty` ends for a
position when the poller, and with it the queues, is dropped and no reference is
left).

The fibers vector is kept with its length, so that `Moves` tells how often it has
been reallocated; a fiber under way remembers in `seen` the allocation in which
`context_function` took its reference, and writes through it when it returns.
Dropping a runner frees its fields in the order of declaration. `fault` records
what brings the process down: `"freed"` (memory that is not there any more),
`"nowhere"` (no runner), `"index"` (a slot that the vector does not have),
`"restart"` (`param.unwrap()` of a fiber that has returned). Children,
hibernation, and a lookup that fails to start are left to `Runner`.

`Dns` is the round of servers in `lookup_on`, started at the ticks that are
left.

### Packet

Packets are real bytes, positions count from 0. The parser is a state machine
with one step per iteration of a loop of the code: `at` is the place in
`Packet::parse`, `name` the local variables of `Name::scan`, `rd` the slice of
record data that `RRData::parse` works on; `goal` says what a scanned name is
part of, as the scan is called from nine places. Positions in a slice are
kept as positions in the packet, with the slice's bounds. Every error of the
parser is the place `error`. The parsed packet is reduced to what `dns_parse`
looks for. Whether bytes from 128 up are UTF-8 is left open in `TXT` records.

The builder runs before: a host (a sequence of labels) becomes a query, a
header alone if a label does not fit, or a panic; the query is then parsed by
the same machine, so that `AsksForHost` compares what is asked with the host.
`PacketProps` has names a second time, as the protocol defines them (`EndsIn`,
`LabelsAt`), for comparison.

### TlsBufs

A byte that is written is the pair of its buffer and its place there, a byte
that is read is its number in the stream: where it came from can be told. A step is an iteration of a loop in `FiberSock::read_bufs` or
`write_bufs`, with the stream moving any part of what it is offered, blocking,
ending or failing; `Retry` and `TimesOut` are the loop of `RunnerInt` around
it. An array without buffers is among the inputs: a write of it is reported as a
closed socket (`runner.rs:213`). The lengths 4096 and 16384 of the code are the
constants `Small` and `TmpLen`.

## 3. Runs

| run | instance | shows |
|---|---|---|
| `deadlines` | 2 slots, 2 tokens, TCP reads and TLS handshakes with timeouts | `NoPanic`, `SlotsAccounted`: calls, timers and reuse of slots never enter a closed slot, and none is lost, free twice, or free and queued |
| `children` | 3 slots: a parent with up to two children | `ChunkReceived`, `FamilyTree`, `SlotsAccounted`, `NoneForgotten` |
| `main_stack` | 2 slots, 1 token, processing and timer fibers, `FairSpec` | `TimeoutArmed`, `JoinBlocks`, `NoEcho`; `Runs`, `Resumes` |
| `lookups` | 2 slots, 1 token, up to 2 ticks, lookups from main stack and parents, failing and malformed ones too, listeners, sockets that mio refuses, early returns | `TypeOK`, `StacksDistinct` |
| `one_fiber` | 1 slot reused by all kinds of sockets, handshakes, lookups, hibernation, `FairSpec` | `NoLostWakeup`, `LookupCounts`, `LookupWaits`; `IoEnds`, `LookupEnds` |
| `wheel` | 2 slots of 2 ms, slab of 1 to 3 entries, 8 ms of clock | `WTypeOK`, `ListsLinked`, `NextTimeoutBounds`, `TimerServiceSpec` (refinement) |
| `registry` | 2 positions, 2 runners, 2 slots in all, a vector that moves when it grows beyond 1, 1 token, 1 reference, dropped busy or idle | `HandlesValid`, `Isolated`, `RefsLand` |
| `dns` | 3 servers, 5 ticks, any reachability | `AllAsked`, `FailsForCause` |
| `packets` | all names of up to 5 bytes over 7 values, messages of up to two answers with every kind of record and their prefixes, hosts at the limits | `InBounds`, `Resolvable`, `Understood`, `AsksForHost`, `PanicsIfInvalid`, `PTypeOK`; `ScanAdvances`, `Terminates` |
| `tls_bufs` | up to 3 buffers of up to 3 bytes, `Small` = 2, `TmpLen` = 4, 8 bytes moved | `Counted`, `FailsUnmoved`, `LongInOrder`, `ReadKept` |
| `queued_twice` | 1 slot | violates `NoPanic` |
| `tls_write_order` | up to 2 buffers | violates `SentInOrder` |

**Bounds.** `NumSlots` and `NumTokens` bound fibers and timers at a time; both
are reused, so behaviours are of any length. Two fibers suffice for the races
over tokens and slots (one that leaves something behind, one that finds it),
three for a parent that removes one of two children. `MaxResults`, `MaxRefs`
and `MaxQueue` bound what the main stack has not fetched and what piles up in
`toexec` when poll is called; they stand in guards of the program's steps,
never of the library's. `MaxTicks` of 2 has a lookup that retries and one that
expires. In `wheel`, two slots and 8 ms are two rounds, with durations of less
than a tick, of more, and of more than a round; the slab grows once by doubling
and once by the smaller last step. In `registry` an id has its runner in multiples
of 8 and its fiber below 4, with a gap between them as in the code (`2^40` and
`2^32`), and the vector can outgrow its first allocation. Two Runners suffice for
one that leaves something and one that follows it at its position or lives beside
it; a third, on a full registry, is in the theorems alone. The bytes of `packets` are a zero, short labels, a label
beyond the packet's end, an unknown label format and a pointer, with targets at the
name itself, within it, and before it; the hosts include the longest label the
builder takes, the first that it refuses, and names that end at each of the
last bytes of the buffer, which is 512 bytes as in the code. In `tls_bufs`,
lengths 0 to 3 lie on both sides of `Small`, and copies fill `TmpLen`.

`CHECK_DEADLOCK FALSE` is set where the system stops: at a panic
(`one_fiber`, `lookups`), at a fault or when the bounds are used up (`registry`),
when a lookup is over (`dns`), a packet is parsed
(`packets`) or a call returns (`tls_bufs`, `tls_write_order`).

**Fairness** (`Fairness` in `Runner.tla`). Weak fairness of everything inside
the library: a single thread does not stop there. Strong fairness of a running
fiber stepping out (fibers are cooperative; one that never blocks starves
every other by design), and of the main loop as the repository writes it
(`README.md:230`, `lib.rs:217`): it keeps calling `poll`, calls `run` when `poll`
returned true, and fetches responses and fibers and resumes those. That it calls
`run` when `poll` returned false is allowed (`run_unprompted`) and never assumed,
so what is only queued need not run: `Runs` is about fibers that are queued when
`poll` has reported something, or that have a timer, and `Resumes` has `[]<>smth`,
that `poll` goes on reporting, as its premise. `Clock` says that while polls go
on, no timer stays in the wheel for ever. It does not say that a timer which is
cancelled and set anew at each wakeup (`runner.rs:566-577`) ever fires, and
`IoEnds` makes an exception for a TLS peer that keeps waking the call. Nothing
is assumed of the peers: `SocketReady` has no fairness. In `Packet`, weak fairness
of the next step: the parser is sequential code.

## 4. What the model found

Listed as runs, with their findings in `PROJECT.json`:

* **queued_twice.** A fiber whose read timed out streams a chunk from the
  `timedout` loop. `stepped_out` queues it, `poll()` queues it again for its
  socket; it returns on the first entry and `run()` steps into the closed slot
  for the second, where `param.unwrap()` panics.
* **tls_write_order.** `write_bufs` on a TLS socket copies a buffer of less than
  4096 bytes to `tmp_buf` and continues without going on to the next. The same
  buffer is copied until `tmp_buf` is full, and that is sent, again and again:
  the peer gets the first small buffer many times and nothing that follows it.
  With an empty buffer the loop does not end.

Three more, with the instance that shows each (for the first two, constants of
`MCRunner`; tokens, ticks, results, references and queue at 1 unless said
otherwise):

* **A timer of another fiber** violates `TimeoutArmed`: `NumSlots = 2`,
  `NumTokens = 2`, `MaxQueue = 2`,
  `Usage = {"new_tcp", "read", "time", "run_unprompted"}`. Timer and event of a
  fiber come in one poll. The timer's token is free from then on and another
  fiber takes it; the first fiber, woken by its event, cancels it
  (`runner.rs:574`). The other waits without a timeout, although
  `socket_timeout` is "How long to wait on socket operations before timing out"
  (`fiber.rs:49`).
* **A lookup that timed out** violates `NoneForgotten`: `NumSlots = 1`,
  `Usage = {"new_resolve", "time", "resp_chunk", "run_unprompted"}`. The timeout
  leaves `connect_param` set. The fiber runs, but the next time it is queued
  `run()` treats it as resolving and reads its empty socket (`runner.rs:709`);
  `resp_chunk` and `join_main` never return, although "fiber will still be run"
  (`fiber.rs:101`).
* **An empty label** violates `AsksForHost` in `MCPacket`: `Inputs = {}` and
  `Hosts = {<<<<97>>, <<>>, <<97>>>>}`, which is `a..a` split at its dots.
  `write_name` checks that a label is not too long and not that it is there: two
  dots in a row, or one at the end of the host, write a zero byte, which ends the
  name, and go on. The query that is sent has the rest of the host where type and
  class should be, although `add_question` is documented to panic "When name is
  invalid" (`dns_parser/builder.rs:56`).

Others come out of the same modules with another `Usage` (or constant), and
delimit what the passing runs say:

| property | with | why it fails |
|---|---|---|
| `Runs`, without the condition that `poll()` reported something | `{"new_processor"}` | `poll()` returns false although a fiber is queued; a loop that then skips `run()`, as the one in `README.md:231`, does not execute it |
| `IoEnds`, without `TlsWakes` | `one_fiber` | a TLS socket that is woken before its timer fires, and has no whole record, blocks again with the whole timeout |
| `NoLostWakeup` | `{"new_tcp", "read", "register_error", "run_unprompted"}` | mio refuses a socket and `ready` is set all the same (`fiber.rs:353`): the next read does not register and waits for an event that cannot come |
| `SlotsAccounted` | `new_listener` with `register_error` | the slot of a listener that mio refuses is neither used nor free (`runner.rs:474`) |
| `TimeoutArmed` | `main_stack` with `late_drop` | a `TimerRef` dropped after its timer fired cancels the timer that has the token by then |
| `NoPanic` | `{"new_tcp", "hibernate", "run_unprompted"}` | a hibernated fiber starts over, but its parameter was taken the first time |
| `NoPanic` | `{"new_tcp", "join_tcp", "read", "get_child", "busy_parent", "return_some", "run_unprompted"}` | a parent blocked on its own socket is stepped into by its child and once more by its event |
| `NoPanic` | `{"new_listener", "accept", "run_unprompted"}` | a listener is registered as it is created: a connection queues it a second time before it first ran, and if it returns then, `run()` steps into the closed slot |
| `NoPanic` | `{"new_tcp", "read", "join_main", "run_unprompted"}` | an event queues a fiber in `join_main`, and so does `resume_fiber` |
| `NoPanic` | `{"new_tcp", "read", "repoll", "run_unprompted"}` | two polls without a run in between queue a fiber twice |
| `NoPanic` | `{"new_fiber_timer", "drop_timer", "late_drop", "new_tcp", "read", "time", "run_unprompted"}`, `NumSlots = 2` | a `TimerRef` dropped late frees the slot of a fiber that waits on its socket |
| `ChunkReceived` | `busy_parent` with `resp_chunk` and `join_main` | the child's own event ends `resp_chunk` before the parent has the chunk |
| `FamilyTree`, `SlotsAccounted`, `NoPanic` | `{"new_processor", "join_tcp", "return_early", "run_unprompted"}`, `NumSlots = 3`, `MaxQueue = 3` | a parent returns before its child, which then steps into the closed parent, or into whatever has its slot |
| `JoinBlocks` | `{"new_tcp", "read", "join_main", "run_unprompted"}` | an event of the fiber's socket ends `join_main` |
| `TimeoutDue` | `{"new_tcp", "read", "time", "run_unprompted"}` | a timer that fired with the event ends the *next* read |
| `SlotsAccounted` | `{"new_fiber_timer", "drop_timer", "late_drop", "new_tcp", "read", "time", "run_unprompted"}`, `NumSlots = 2`, `MaxQueue = 2` | a `TimerRef` dropped late frees the slot of a fiber that has it by then |
| `Isolated`, without `h.pos \notin dirty` | `registry` | a Runner is dropped while a fiber is queued, and the next at its position inherits the entry |
| `RefsLand`, without `dirty = {}` | `registry` | a `TimerRef` or `FiberRef` is used after its Runner was dropped: there is no runner, or one that has no such slot |
| `fault # "freed"` | `registry` | a vector grows while a fiber is under way: as it returns, `context_function` writes result and state where the vector was (`runner.rs:785`). In the code that takes a fifth fiber |
| `fault # "freed"` | `registry` | a Runner is dropped before its `FiberRef`s are fetched: the vector goes first, and then `tomain_fibers`, whose `FiberRef`s write to it (`runner.rs:119-129`) |
| `fault # "restart"` | `registry` | a fiber is queued twice, as in queued_twice |
| `ReadFilled` | `tls_bufs` | a short read is followed by a read into the *next* buffer: the caller gets a count, and cannot tell where the holes are (`fiber.rs:389`) |

In the states of `registry`, queues do hold entries of slots that have been freed:
in `toexec`, of a fiber that returned while it was queued again; in `timedout`, of
a timer whose `TimerRef` was dropped between `poll()` and `run()`. They are entries
of the same runner, which is what `Isolated` says, and name a slot that it has,
which is why no index misses; whose fiber they wake is the matter of `NoPanic`.
And runners do meet in the wheel, as its tokens are reused: a fiber that cancels a
token whose timer has fired may cancel a timer of another runner.

The model has these as steps of the code, and no property against them:

* a handshake that could not write waits for readable (`HandshakeBlocks`,
  `runner.rs:320`): nothing but its timer ends the wait, if the peer waits too;
* a call on an established TLS stream that blocks in a direction it was not
  registered for returns "no socket" instead of waiting (`IoUnregistered`,
  `fiber.rs:459`);
* `add_question` refuses labels of 63 bytes, which the protocol allows, and
  `lookup_on` does not look at its result (`dns.rs:364`): a header without a
  question is sent (`BuildRefused`);
* a DNS packet that does not parse is unwrapped (`dns.rs:7`,
  `MalformedAnswer`).

By reading only: `cancel` in `wheel.rs` leaves a slot's `next_timeout` as it was, so it is a
lower bound (`NextTimeoutBounds`) and not the minimum that `wheel.rs:21`
describes; and ticks are rounded down, so a timer may fire up to a tick early,
which `TimerService` allows.

## 5. Proofs

TLAPS checks every step of these, for every value of the constants that
satisfies the `ASSUME` of the module. Those bound what the code bounds (a `u8`
of ticks, a power of two of wheel slots, of at most 4096; ids whose parts do not
overlap) and leave the rest open: the bounds that make TLC's instances finite
are arbitrary numbers in the proofs. Some results hold for a class of programs
only; the class is an explicit hypothesis, and section 4 has the
counterexamples outside of it.

| theorem | property | of programs |
|---|---|---|
| `TypeCorrect`, `StacksStayDistinct` | `TypeOK`, `StacksDistinct` | any |
| `WakeupNeverLost`, `LookupAlwaysCounts`, `LookupAlwaysWaits` | `NoLostWakeup`, `LookupCounts`, `LookupWaits` | `NoStaleParent`: without children, or without lookups, and mio takes the sockets |
| `TimerNeverLost`, `JoinAlwaysBlocks`, `ReplyNeverEchoed`, `ProcessorsNeverPanic` | `TimeoutArmed`, `JoinBlocks`, `NoEcho`, `NoPanic` | `NoSockets`: processing and timer fibers |
| `SocketsNeverPanic` | `NoPanic` | `Careful`: fibers with sockets, lookups and timers, but no children, listeners, `join_main` or hibernation; chunks only if no timer fires |
| `FamilyTreeKept`, `SlotsAlwaysAccounted`, `ChunkAlwaysReceived`, `NoneEverForgotten`, `FamiliesNeverPanic` | `FamilyTree`, `SlotsAccounted`, `ChunkReceived`, `NoneForgotten`, `NoPanic` | `Families`: fibers with sockets, chunks and children, whose parents wait in `get_child` and return after them; no lookups, and no timer fires |
| `WheelTypeCorrect`, `ListsStayLinked`, `NextTimeoutNeverLate`, `WheelImplementsService` | `WTypeOK`, `ListsLinked`, `NextTimeoutBounds`, `TimerServiceSpec` | any |
| `HandlesAlwaysValid`, `RunnersIsolated`, `ReferencesLand` | `HandlesValid`, `Isolated`, `RefsLand` | any |
| `EveryServerAsked`, `FailureHasCause` | `AllAsked`, `FailsForCause` | any servers |
| `PacketTypeCorrect`, `ParserInBounds`, `ScanAlwaysAdvances`, `PanicOnlyIfInvalid` | `PTypeOK`, `InBounds`, `ScanAdvances`, `PanicsIfInvalid` | any packet of bytes, any host |
| `NamesResolve` | `Resolvable` | any packet of bytes |
| `QueryAsksForHost` | `AsksForHost` | `ProperHosts`: any hosts without empty labels |
| `CountCorrect`, `FailureMovesNothing`, `ReadComplete`, `LongWritesInOrder` | `Counted`, `FailsUnmoved`, `ReadKept`, `LongInOrder` | any buffers |

The arguments, with the inductive invariant of each:

**Types and stacks** (`RunnerProofs`). `TypeOK` is inductive as it stands, with
a lemma per group of actions (`CreatesType`, `CallsType`, `SwitchesType`,
`RunType`, `PollType`, `MainType`) and a step per action. What is not routine is
`StepInto`: that `PoppedStack` returns a stack at all. `FreshStack` is the
pigeonhole argument: there are as many stacks as slots, and the fiber that needs
one holds none, so the others hold fewer than all. `StacksDistinct` is inductive
together with `TypeOK`: a stack moves between a fiber and the pool in `unstack`
and `step_into` alone (`UnstackKeeps`, `StepIntoKeeps`). Neither early returns
nor late drops break it.

**Wakeups and lookups** (`RunnerProofs`, `WakeInv`). `NoLostWakeup` speaks of
fibers that are blocked; the invariant ties the three pieces together for every
slot: a blocked call is registered for the direction it waits for, and if the
socket has that direction then an edge is pending or the fiber is scheduled
(`EventOK`). `LookupOK` is what keeps a resolving fiber out of reach: it has not
started, control is not in it, it has no parent, and while its timer is set a
tick is left. `NoStaleParent` is needed since a child that outlives its parent
leads into whatever has the parent's slot by then, and it leaves `register_error`
out since a refused socket has no events.

**One waker** (`UsageProofs`, `OneWaker`). For processors and timers, every
slot is in exactly one place: free, queued, on its way to the main stack, held
by it, armed, due, running, or lost. The invariant says that there is such a
map `w` from slots to places, and for each place which list or token has the
slot (once) and what its record looks like. Each action moves one slot, or two,
from one place to another; the lemmas (`ListStays`, `Disarms` and the like) say
what a move does to the lists it does not touch. The four theorems read their
property off `w`.

**Entries** (`UsageProofs`, `EntryInv`). With sockets there is no such map: a
fiber that waits may have a timer, an edge that mio has not delivered and a place
in the queue at once. What keeps `run()` from a second entry is the order of its
loops. Whatever leads into a slot (the queue, a socket, a timer, control itself)
leads into one that is taken, whose fiber has its parameter if it has yet to
start (`Leads`, `CanEnter`). A fiber is queued once, for one reason, and has no
`TimerRef` then (`QueuedOK`); and once the loop over `toexec` is over (`Late`),
what is queued is fresh fibers alone, which no event and no timer leads to
(`Unprompted`), so that neither the `timedout` loop nor the next `poll()` reaches
a fiber that is queued. `Phase` is the step that makes it so: the loop ends when
the queue is empty. A result in the slot of a living fiber is there only while
control is on its way out of it (`Leaving`), so `stepped_out` queues a fiber only
for a chunk it has just sent; that is where a program with chunks *and* timers
fails, and the run queued_twice shows it. Each group of actions has its lemma
(`CreatesSound` to `EnvironmentSound`); all of them end in `OneSlotSound`, which
reduces a step to the slot it is about.

**Families** (`UsageProofs`, `FamilyInv`). `FamilyTree` is not inductive: that a
list loses the right child depends on which children can be taken at all, and
when. `TreeInv` has both directions of the relation for every slot in use, a
closed child that waits for its parent included. `PendInv` is the core: at most
one child at a time is closed or holds a chunk (`Pending`), and control is then
either on its way out of that child or on its way into its parent's `get_child`
(`Taker`), with nothing in between that could free or reuse a slot. It holds
because `stepped_out` goes straight on into the parent, and because a parent with
children is blocked in `get_child` alone, so that nothing but a child leads into
it (`TraitsOK`, `InLineOK`: it is never queued). `MemberOK` then says what the
record of a slot is when nobody has it (`Vacated`), when control is in it
(`HereOK`) and when it is switched out (`AwayOK`). Most steps touch one slot
(`OneMember`); a join, `child_iter` and a child's switch to its parent touch two
(`TwoMembers`), and the lemma `SwapRemoves` says what `swap_remove_front` leaves
of the list. `NoneForgotten` needs `WakeInv` as well, for the registration of a
blocked socket. The class leaves timers that fire out: with them, a chunk sent
from the `timedout` loop queues a fiber twice (queued_twice).

**Wheel** (`WheelProofs`, `WheelInv`). A list is described without recursion by
a rank of its entries: there is a numbering that `next` decreases, of which the
head has the highest in its slot and that skips none (`Sorted`). So a list has
no cycle and holds every timer of its slot, and that is what a poll that reaches
the end of a list needs in order to have seen all that is due. `CursorInv` says
of a poll under way, cancels between its steps included, that what the cursor
has passed is for a later round; `PlacedInv` that no poll is past a timer's
tick. From these, each step of `Wheel` is a step of `TimerService` or a stutter.

**Registry** (`RegistryProofs`). `HandlesInv` for the handles: it is inductive by
itself, as a position that is taken has a handle. `IsolationInv` adds that at a
position that is not dirty every entry of both queues, every timer whose id packs
that position and every reference is of the runner that is there now, and of a
slot within its vector (`Mine`); that free lists name slots of the vector
(`VectorOK`), as `register` takes them from there; and that `run()` and the fiber
in it are of a runner that is held (`LoopOK`, `CurOK`), as they queue and arm in
its name. Vectors only grow while their runner lives, so what is `Mine` stays so
(`AllGrow`). The two steps that could break it are those of a position changing
hands: `DropRunner` either finds nothing of the runner left, or makes the position
dirty, and `NewRunner` takes one at which, if it is clean, nothing is queued. The
arithmetic of `split_id` is the lemma `SplitId` that a packed id gives back its
parts, as `PosUnit` divides `RunnerUnit`; `PollEvent` and `PollTimer` rest on it.
`ReferencesLand` follows from the same invariant: the entry that is popped, and
the reference that is used, are `Mine`. Nothing is assumed of the program. That no
access is `"freed"` or a `"restart"` is not claimed; section 4 has the behaviours.

**DNS client** (`DnsProofs`, `DInv`). Of the servers that can be reached, none
whose turn has come is left out, where the turn of server `s` comes when `s`
ticks are left, and that of server 0 at the start.

**Packets** (`PacketProofs`, `PInv`). Until its first pointer a scan is within
the slice it was given; from then on it is within the packet, and the place it
returns to is in the slice (`ScanInv`). The bounds of record data stay in order
(`DataInv`).

`NamesResolve` cannot follow the scan alone. The scan is bounded by
`name.largest`, which a later `Display` does not have: it starts anew from each
pointer's target. `PathInv` says instead that the scan has come from the start
of the name to where it is along labels and pointers, by a path of any length
(`Path` over `Edges`), and that a name that is accepted ends there. A shortest
path visits no position twice (`ShortPath`, by counting), so it has fewer steps
than the packet has bytes, and `PathEnds` carries `EndsIn` back along it, one
edge at a time.

`QueryAsksForHost` follows a query from the builder through the parser
(`AskInv`). A query is its header, the labels one after the other and `QueryEnd`
(`Asked`); `QueryLayout`, `LabelPlace` and `QueryTail` say which byte is where,
for any number of labels. The scan is always at the start of a label or at the
end of the name, meets no pointer, and finds every label good, so the parse has
no error and ends at the last byte. `QueryReads` is the induction, from the last
label to the first, that the labels read from byte 12 are those of the host; it
needs as many steps of `LabelsAt` as there are labels, and a packet has at least
that many bytes (`LabelsLong`). `ProperHosts` is needed: section 4 shows what
becomes of the others.

**TLS buffers** (`TlsBufsProofs`, `BInv`). A loop whose count is 0 is at the
first buffer, so that a call that waits or fails has moved nothing
(`CountInv`). What was read, or sent when no buffer is small, is the
concatenation of what the loop has come to (`ReadInv`, `WriteInv`).

**Induction over data** is done over sets of numbers: `InductionOnSet` says that
a set with 0 and all successors has all numbers, and a proof collects the
numbers its claim holds for. `Induction` derives with it the facts about
`FlattenSeq`, and that `Min` is a least element. A recursive function is a
`CHOOSE`, of which nothing is known until a solution of its equation is there:
`IterationExists` makes one, by iterating a step from a start, and with it
`EndsInEquation` and `LabelsAtEquation` show that `EndsIn` and `LabelsAt` are
what they are defined to be.

Only model-checked:

* the liveness properties, which need fairness and `ENABLED`;
* `Understood`, which compares the parser with the messages that the constant
  `Inputs` was encoded from: the encoder is part of `MCPacket`, not of the code;
* the safety properties of `Runner` outside the classes above, in the programs of
  the runs.

## 6. Not modelled

* The macOS resolver (`dns.rs:23-289`, compiled on macOS alone) and the loop over
  its results in `run()` (`runner.rs:725-737`), which is empty elsewhere.
  `resolv_cb` takes the message into a `Box` (`dns.rs:248`), sends its pointer
  (`dns.rs:283`) and frees it as it returns; `check_result` takes the pointer
  into a `Box` again (`dns.rs:111`). What a lookup yields is undefined, so
  there is nothing to state about the generations that come after it.
* `move_timeout`, `next_timeout()` and `release` of the wheel, which have no
  callers; the parts of `dns_parser` that are not reached from `dns_parse` and
  `lookup_on` (`set_truncated`, the text of errors).
* Display of names, which only tests call: `Resolvable` states what it relies on.
* mio refusing a socket in a handshake (`runner.rs:320`) or as a fiber hibernates
  (`runner.rs:560`): both return the error.
* `tick as u32` in `set_timeout` (`wheel.rs:145`): ticks of 250 ms pass `u32` after
  some 34 years.
* In `Registry`: children, hibernation and lookups that fail to start.
* Reading `resolv.conf` (`dns.rs:397-434`): `NumServers` is any number, none too.
* Contents of messages (payloads), logging, the
  builder's defaults, `mio`, `native_tls` and the kernel, which are external.

## 7. Plan

Proofs that are left, most useful first:

1. The classes with timers: `Careful` and `Families` both leave out what fails, but
   families whose sockets time out and that send no chunks are in neither;
   `EntryInv` and `FamilyInv` would have to be joined.
2. Families with lookups (`join_resolve`), whose parent is alive.
