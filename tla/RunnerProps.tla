---------------------------- MODULE RunnerProps ----------------------------
(***************************************************************************)
(* What should be true of one runner and its fibers.  Which of these hold  *)
(* for which programs (the constant Usage) is what the runs show.          *)
(***************************************************************************)
EXTENDS Runner

-----------------------------------------------------------------------------
(* Safety.                                                                 *)

\* Every variable has its type: no position out of the vector, no token out
\* of the slab, no lookup that counts more ticks than its u8 was given.
TypeOK ==
    /\ toexec \in Seq(Slots)
    /\ timedout \in Seq(Slots)
    /\ slab \in [Tokens -> Slots \cup {None}]
    /\ vacant \in Seq(Tokens)
    /\ free_stacks \in Seq(Stacks)
    /\ avail \in [Slots -> SUBSET Directions]
    /\ edge \subseteq Slots
    /\ fibers \in [Slots -> Fiber]
    /\ nfibers \in 0 .. NumSlots
    /\ free_fibers \in Seq(Slots)
    /\ tomain_fibers \in Seq(Slots)
    /\ results \in Seq(Results)
    /\ fiber_refs \in [Slots -> Nat]
    /\ timer_refs \in [Slots -> Nat]
    /\ smth \in BOOLEAN
    /\ at \in Places
    /\ cur \in Slots
    /\ loop \in {"toexec", "timedout"}

\* A stack is in one place: no two fibers have the same one, and none that is
\* in the pool (stack_push in unstack, stack_pop in step_into) belongs to a
\* fiber or is there twice.
StacksDistinct ==
    /\ \A p \in Slots : fibers[p].stack \notin Range(free_stacks)
    /\ \A p, q \in Slots :
         p # q /\ fibers[p].stack # None => fibers[p].stack # fibers[q].stack
    /\ \A i, j \in DOMAIN free_stacks : i # j => free_stacks[i] # free_stacks[j]

\* No fiber is started a second time (context_function unwraps a parameter
\* that is there only once), no slot is overwritten under the fiber running in
\* it, and no lookup counts below zero: the places where the runner panics.
NoPanic == at # "panic"

\* p is switched out: control is not in it and not on its way into it.
SwitchedOut(p) ==
    cur = p => at \notin {"step_into", "resumed", "fiber", "panic"}

SocketOps == {"read", "write", "accept", "handshake"}

\* The direction a blocked socket call waits for, as it registers.  A handshake
\* registers for readable also when what it could not do was write.
WaitsFor(call) == IF call = "write" THEN "writable" ELSE "readable"

\* A fiber that is blocked in a call on a socket that is ready for the call
\* has an event coming or is queued: with edge triggers a registration that
\* is skipped (`ready' already has the direction) must not lose the event.  A
\* handshake that is blocked in a write is out of its sight: it is ready for
\* the call when it is writable, and has asked for readable only.
NoLostWakeup ==
    \A p \in Slots :
      /\ SwitchedOut(p)
      /\ ~fibers[p].connect_param
      /\ fibers[p].op \in SocketOps
      /\ WaitsFor(fibers[p].op) \in avail[p]
      => p \in edge \/ Scheduled(p)

\* A lookup whose timer is set has a tick left to count down, so run() never
\* takes one from zero.
LookupCounts ==
    \A p \in Slots :
      fibers[p].connect_param /\ fibers[p].wtoken # None => fibers[p].timed_out > 0

\* A fiber that is still resolving its host has not run: its function sees the
\* connection or no socket, never the socket of the lookup.
LookupWaits ==
    \A p \in Slots :
      fibers[p].connect_param /\ fibers[p].sock # "Empty" => fibers[p].op = "start"

\* resp_chunk returns only once the parent or the main stack has the chunk: a
\* running fiber never has one still in its slot, where the next overwrites it.
ChunkReceived == at = "fiber" => Me.result # "chunk"

\* There is a FiberRef of p that the main stack holds or will fetch.
Referenced(p) == fiber_refs[p] > 0 \/ p \in Range(tomain_fibers)

\* join_main returns only once the main stack has resumed the fiber: one that
\* runs has no FiberRef left.
JoinBlocks == at = "fiber" => ~Referenced(cur)

\* What resume_fiber put into a slot is for the fiber: stepped_out never hands
\* it back to the main stack as a response of that fiber.
NoEcho == "reply" \notin Range(results)

\* A fiber that counts on a timer (wtoken is set) has that timer in the wheel,
\* or it fired and the fiber is queued for it: nobody else cancelled it.
TimeoutArmed ==
    \A p \in Slots :
      fibers[p].wtoken # None =>
         slab[fibers[p].wtoken] = p \/ p \in Range(timedout)

\* A timer that run() acts on is the one the fiber counts on, not an earlier
\* one of the same slot while its own is still in the wheel.
TimeoutDue ==
    timedout # <<>> =>
      LET p == Head(timedout) IN
         fibers[p].wtoken # None => slab[fibers[p].wtoken] # p

Once(seq, x) ==
    \E i \in DOMAIN seq : seq[i] = x /\ \A j \in DOMAIN seq : seq[j] = x => i = j

\* A slot is either in use or free, never both or neither: a free one is free
\* once, is not queued and has no stack; a closed fiber is free, is about to
\* be (in stepped_out), or is kept for a living parent's child_iter.
SlotsAccounted ==
    /\ \A p \in Range(free_fibers) :
         /\ Once(free_fibers, p)
         /\ ~Scheduled(p)
         /\ fibers[p].stack = None
    /\ \A p \in 1 .. nfibers :
         LET owner == fibers[p].parent IN
         \/ Live(p)
         \/ p \in Range(free_fibers)
         \/ at = "stepped_out" /\ cur = p
         \/ owner # None /\ Live(owner) /\ p \in Range(fibers[owner].children)

\* Parents and children agree: a child is in its parent's list once, and the
\* parent of a living child is alive, so step_into(parent) enters the fiber
\* that joined it.
FamilyTree ==
    /\ \A p \in Slots : \A c \in Range(fibers[p].children) :
         fibers[c].parent = p /\ Once(fibers[p].children, c)
    /\ \A c \in Slots : Live(c) /\ fibers[c].parent # None =>
         /\ Live(fibers[c].parent)
         /\ c \in Range(fibers[fibers[c].parent].children)

\* p is a fiber that is switched out and not just leaving.
Waiting(p) ==
    /\ p <= nfibers
    /\ Live(p)
    /\ p \notin Range(free_fibers)
    /\ cur = p => at \notin {"step_into", "resumed", "fiber", "stepped_out", "panic"}

\* Somebody has p on a list that leads back into it.
WillWake(p) ==
    LET f == fibers[p] IN
    \/ Scheduled(p) /\ (f.connect_param => f.op = "start")
    \/ Referenced(p) /\ f.op = "join_main"
    \/ f.wtoken # None /\ (slab[f.wtoken] = p \/ p \in Range(timedout))
    \/ f.sock # "Empty" /\ f.op = "start" /\ f.ready # "none"
    \/ f.sock # "Empty" /\ f.op \in SocketOps /\ f.ready = WaitsFor(f.op)
    \/ HasResult(p) /\ f.parent # None /\ p \in Range(fibers[f.parent].children)
    \/ f.op = "get_child" /\ \E c \in Range(f.children) :
                                Live(c) \/ (cur = c /\ at = "stepped_out")

\* No fiber is forgotten: whatever it is blocked in, it is queued, has a
\* timer, a FiberRef or a registered socket, has a result its parent will
\* take, or waits for a child that is alive.
NoneForgotten == \A p \in Slots : Waiting(p) => WillWake(p)

-----------------------------------------------------------------------------
(* Liveness.                                                               *)

\* A new fiber that is queued when poll() has reported something, or has the
\* timer it starts with, is executed, unless that timer is cancelled, which
\* frees its slot.  A loop that calls run() only if poll() returned true never
\* runs a fiber that is merely queued: toexec is not among what poll() reports.
Runs ==
    \A p \in Slots :
      /\ p <= nfibers /\ Live(p) /\ fibers[p].func /\ fibers[p].op = "start"
      /\ (Scheduled(p) /\ smth) \/ fibers[p].wtoken # None
      ~> (at = "fiber" /\ cur = p) \/ p \in Range(free_fibers)

\* resp_chunk and join_main return as long as poll() goes on reporting timers
\* or events, of whatever fibers: what they wait for is queued without one.
Resumes ==
    []<>smth =>
      \A p \in Slots :
        fibers[p].op \in {"resp_chunk", "join_main"} ~> fibers[p].op = "user"

\* The socket of p is encrypted, and it woke its fiber.
TlsWakes(p) ==
    fibers[p].sock \in {"Tls", "TlsTemp"} /\ (p \in edge \/ Scheduled(p))

\* A read, a write or a handshake that has a timer ends, although the peer may
\* never send, read or answer: a handshake waits for readable alone, also when
\* what it could not do was write, and then has nothing but its timer.  Only
\* over TLS may a call go on: a wakeup that brings part of a record blocks it
\* again, and timed_step_out sets the whole timeout again.
IoEnds ==
    \A p \in Slots, call \in {"read", "write", "handshake"} :
      (fibers[p].op = call /\ fibers[p].wtoken # None)
      ~> fibers[p].op # call \/ TlsWakes(p)

\* A lookup with a timer ends: it has its connection, the fiber runs without
\* one, or the wheel was full when the timer had to be set again.
LookupEnds ==
    \A p \in Slots :
      fibers[p].connect_param /\ fibers[p].op = "start" /\ fibers[p].wtoken # None
      ~> \/ ~fibers[p].connect_param
         \/ at = "fiber" /\ cur = p
         \/ vacant = <<>> /\ fibers[p].wtoken = None

=============================================================================
