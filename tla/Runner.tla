------------------------------- MODULE Runner -------------------------------
(***************************************************************************)
(* One runner of easyfibers (runner.rs, fiber.rs) at work: the calls of a  *)
(* running fiber, the context switches between the main stack and the      *)
(* fibers, run(), and what the main stack does between two runs.           *)
(*                                                                         *)
(* The program is left open: on the main stack and in a running fiber it   *)
(* may make any call named in Usage, in any order.  step_into of a parent  *)
(* is the last thing stepped_out does, so the main stack never has more to *)
(* remember than which loop of run() it is in (`loop').                    *)
(***************************************************************************)
EXTENDS Fibers

-----------------------------------------------------------------------------
(* Calls of a running fiber.                                               *)

SocketTimeout ==
    /\ InFiber("socket_timeout")
    /\ Update(cur, [Me EXCEPT !.timeout = ~@])
    /\ OnlyFibers
    /\ UNCHANGED control

\* The sockets a call works on; on any other it returns an error.
SocksFor(call) == IF call = "accept" THEN {"Listener"} ELSE {"Tcp", "Udp", "Tls"}

\* The sockets that can be registered with mio: an established TLS stream is
\* not among them.
Evented == Socks \ {"Tls", "Empty"}

\* read and write (and their vectored forms) and accept_tcp return: the
\* socket is ready, and perhaps still is afterwards, or it is no socket for
\* this call.  A closed or failed socket counts as ready.  A TLS stream may
\* have the data already.
IoReturns(call, dir) ==
    /\ InLoop(call)
    /\ IF Me.sock \in SocksFor(call)
         THEN /\ dir \in avail[cur] \/ Me.sock = "Tls"
              /\ avail' \in {avail, [avail EXCEPT ![cur] = @ \ {dir}]}
         ELSE UNCHANGED avail
    /\ Update(cur, [Me EXCEPT !.op = "user"])
    /\ UNCHANGED <<toexec, timerVars, free_stacks, edge, slotVars, outVars,
                   mainVars, control>>

\* Mutant: a socket is registered once, whatever for.
MustRegister_once(dir) == dir \in Directions /\ Me.ready = "none"

\* The socket has to be registered before the fiber waits for dir on it.
MustRegister(dir) == Me.ready # dir

\* Whether timed_step_out sets a timer; accept_tcp uses plain step_out.
Armed(call) == call # "accept" /\ Me.timeout /\ NextToken # None

\* The call finds that the socket is not ready; a TLS stream finds out by
\* reading what there is of a record, so that the socket is not ready then.
WouldBlock(call, dir) ==
    /\ InLoop(call)
    /\ Me.sock \in SocksFor(call)
    /\ dir \notin avail[cur] \/ Me.sock = "Tls"
    /\ avail' = [avail EXCEPT ![cur] = @ \ {dir}]

\* WouldBlock: the socket is registered for the direction unless it is
\* already, a timer is set, and the fiber steps out until it is woken.
IoBlocks(call, dir) ==
    /\ WouldBlock(call, dir)
    /\ MustRegister(dir) => Me.sock \in Evented
    /\ IF MustRegister(dir) THEN Registered(cur, dir) ELSE UNCHANGED edge
    /\ IF Armed(call) THEN timer_reg(cur) ELSE UNCHANGED <<slab, vacant>>
    /\ Update(cur, [Me EXCEPT !.op = call,
                       !.ready = IF MustRegister(dir) THEN dir ELSE @,
                       !.wtoken = IF Armed(call) THEN NextToken ELSE @,
                       !.timed_out = IF Armed(call) THEN 0 ELSE @])
    /\ Goto("stepped_out")
    /\ UNCHANGED <<toexec, timedout, free_stacks, slotVars, outVars, mainVars>>

\* WouldBlock on a socket that has to be registered and cannot be, or that mio
\* refuses: the call returns that error at once.
IoUnregistered(call, dir) ==
    /\ WouldBlock(call, dir)
    /\ MustRegister(dir)
    /\ Me.sock \in Evented => "register_error" \in Usage
    /\ Update(cur, IF Me.sock \in Evented
                     THEN [Me EXCEPT !.op = "user", !.ready = dir]
                     ELSE [Me EXCEPT !.op = "user"])
    /\ UNCHANGED <<toexec, timerVars, free_stacks, edge, slotVars, outVars,
                   mainVars, control>>

\* The socket that tcp_tls_connect and tcp_tls_accept take out of the fiber
\* ("handshake" is the name of both calls), and the loop once it was woken.
HandshakeSock == IF Me.op = "handshake" THEN "TlsTemp" ELSE "Tcp"

\* Any other socket is closed with the error that is returned; so is the
\* stream when the handshake fails.
HandshakeFails ==
    /\ InLoop("handshake")
    /\ Update(cur, [Me EXCEPT !.sock = "Empty", !.op = "user"])
    /\ SocketDropped(cur)
    /\ UNCHANGED <<toexec, timerVars, free_stacks, slotVars, outVars, mainVars,
                   control>>

\* What is left to read and write after the handshake did its part.
Used(left) == left \subseteq avail[cur] /\ avail' = [avail EXCEPT ![cur] = left]

HandshakeDone ==
    /\ InLoop("handshake")
    /\ Me.sock = HandshakeSock
    /\ \E left \in SUBSET Directions : Used(left)
    /\ Update(cur, [Me EXCEPT !.sock = "Tls", !.op = "user"])
    /\ UNCHANGED <<toexec, timerVars, free_stacks, edge, slotVars, outVars,
                   mainVars, control>>

\* Interrupted, in one direction or both: the socket is registered for
\* readable, whichever it was (with an event at once if there is more to read),
\* and the fiber steps out.
HandshakeBlocks ==
    /\ InLoop("handshake")
    /\ Me.sock = HandshakeSock
    /\ \E left \in SUBSET Directions :
         /\ left # Directions
         /\ Used(left)
         /\ edge' = IF "readable" \in left THEN edge \cup {cur} ELSE edge \ {cur}
    /\ IF Armed("handshake") THEN timer_reg(cur) ELSE UNCHANGED <<slab, vacant>>
    /\ Update(cur, [Me EXCEPT !.op = "handshake", !.sock = "TlsTemp",
                       !.ready = "readable",
                       !.wtoken = IF Armed("handshake") THEN NextToken ELSE @,
                       !.timed_out = IF Armed("handshake") THEN 0 ELSE @])
    /\ Goto("stepped_out")
    /\ UNCHANGED <<toexec, timedout, free_stacks, slotVars, outVars, mainVars>>

RespChunk ==
    /\ InFiber("resp_chunk")
    /\ Len(results) < MaxResults
    /\ Update(cur, [Me EXCEPT !.result = "chunk", !.op = "resp_chunk"])
    /\ Goto("stepped_out")
    /\ OnlyFibers

JoinMain ==
    /\ InFiber("join_main")
    /\ RefsLeft
    /\ tomain_fibers' = Append(tomain_fibers, cur)
    /\ Update(cur, [Me EXCEPT !.op = "join_main"])
    /\ Goto("stepped_out")
    /\ UNCHANGED <<pollerVars, slotVars, results, mainVars>>

\* Mutant: a child that closed without a result is passed over.
Deliverable_result(c) == HasResult(c)

\* Children that child_iter can deal with: closed, or holding a result.
Deliverable(c) == ~Live(c) \/ HasResult(c)

\* The positions of such children in the running fiber's list.
ReadyChildren == {i \in DOMAIN Me.children : Deliverable(Me.children[i])}

\* Mutant: the front is removed instead.
SwapRemoveFront_pop(seq, i) == IF i \in DOMAIN seq THEN Tail(seq) ELSE seq

\* VecDeque::swap_remove_front: the front takes the place of element i.
SwapRemoveFront(seq, i) == Tail([seq EXCEPT ![i] = seq[1]])

\* The running fiber becomes f, and child c loses its result to it.
Took(c, f) ==
    LET g == [fibers EXCEPT ![cur] = f] IN
    fibers' = [g EXCEPT ![c] = [g[c] EXCEPT !.result = "none"]]

\* child_iter without children left returns None.
NoChildren ==
    /\ InLoop("get_child")
    /\ Me.children = <<>>
    /\ Update(cur, [Me EXCEPT !.op = "user"])
    /\ OnlyFibers
    /\ UNCHANGED control

\* child_iter takes the result of the first child that has something; i is
\* its position.  A closed child gives its slot back, one that is still alive
\* is scheduled again.  Without a result the loop goes on.
TakeChild(i) ==
    LET c == Me.children[i]
        op == IF HasResult(c) THEN "user" ELSE "get_child"
    IN
    /\ InLoop("get_child")
    /\ i \in ReadyChildren
    /\ \A j \in ReadyChildren : i <= j
    /\ IF Live(c)
         THEN /\ push_toexec(c)
              /\ Took(c, [Me EXCEPT !.op = op])
              /\ UNCHANGED free_fibers
         ELSE /\ free_fibers' = Append(free_fibers, c)
              /\ Took(c, [Me EXCEPT !.op = op,
                                    !.children = SwapRemoveFront(@, i)])
              /\ UNCHANGED toexec
    /\ UNCHANGED <<timerVars, free_stacks, sockVars, nfibers, outVars, mainVars,
                   control>>

\* child_iter steps out when no child has anything.
ChildBlocks ==
    /\ InLoop("get_child")
    /\ Me.children # <<>>
    /\ ReadyChildren = {}
    /\ Update(cur, [Me EXCEPT !.op = "get_child"])
    /\ Goto("stepped_out")
    /\ OnlyFibers

\* hibernate_for_read.  Without a socket that can be registered that fails and
\* the fiber goes on, marked as if it had no stack.
HibernateForRead ==
    LET fails == Me.sock \notin Evented /\ MustRegister("readable") IN
    /\ InFiber("hibernate")
    /\ Update(cur, [Me EXCEPT !.state = "Unstacked",
                       !.ready = IF fails THEN @ ELSE "readable"])
    /\ IF MustRegister("readable") /\ ~fails
         THEN Registered(cur, "readable") ELSE UNCHANGED edge
    /\ Goto(IF fails THEN "fiber" ELSE "stepped_out")
    /\ UNCHANGED <<toexec, timerVars, free_stacks, avail, slotVars, outVars, mainVars>>

HibernateJoinMain ==
    /\ InFiber("hibernate")
    /\ RefsLeft
    /\ tomain_fibers' = Append(tomain_fibers, cur)
    /\ Update(cur, [Me EXCEPT !.state = "Unstacked"])
    /\ Goto("stepped_out")
    /\ UNCHANGED <<pollerVars, slotVars, results, mainVars>>

\* FiberFn returns: the end of context_function.
Return ==
    /\ at = "fiber"
    /\ Me.op = "user"
    /\ Me.children = <<>> \/ "return_early" \in Usage
    /\ \E r \in {"none", "chunk"} :
         /\ r = "chunk" => "return_some" \in Usage /\ Len(results) < MaxResults
         /\ Update(cur, [Me EXCEPT !.result = r, !.state = "Closed"])
    /\ Goto("stepped_out")
    /\ OnlyFibers

-----------------------------------------------------------------------------
(* Context switches.                                                       *)

\* The stacks that fibers hold.
StacksInUse == {fibers[p].stack : p \in Slots} \ {None}

\* step_into: a fiber without a stack gets one.  A fiber without a function
\* (a plain timer) closes at once.
StepInto ==
    /\ at = "step_into"
    /\ IF Me.func
         THEN /\ Goto("resumed")
              /\ IF Me.stack = None
                   THEN /\ Update(cur, [Me EXCEPT !.stack = PoppedStack(StacksInUse)])
                        /\ stack_pop
                   ELSE UNCHANGED <<fibers, free_stacks>>
         ELSE /\ Goto("stepped_out")
              /\ Update(cur, [Me EXCEPT !.state = "Closed"])
              /\ UNCHANGED free_stacks
    /\ UNCHANGED <<toexec, timerVars, sockVars, slotVars, outVars, mainVars>>

\* context_function: FiberFn is called with the parameter, which is there
\* only the first time.
Start ==
    /\ at = "resumed"
    /\ Me.op = "start"
    /\ Update(cur, [Me EXCEPT !.state = "Stacked", !.param = FALSE, !.op = "user"])
    /\ Goto(IF Me.param THEN "fiber" ELSE "panic")
    /\ OnlyFibers

\* The rest of timed_step_out, and of read, write and handshake: the timer is cancelled
\* by its token, then a timeout ends the call and anything else retries it.
ResumeIo ==
    /\ at = "resumed"
    /\ Me.op \in {"read", "write", "handshake"}
    /\ timer_cancel(Me.wtoken)
    /\ Update(cur, [Me EXCEPT !.wtoken = None, !.timed_out = 0,
                       !.op = IF Me.timed_out > 0 THEN "user" ELSE @])
    /\ Goto("fiber")
    /\ UNCHANGED <<toexec, timedout, free_stacks, sockVars, slotVars, outVars, mainVars>>

\* Mutant: join_main leaves the result where it was.
ResumeJoinMain_kept ==
    /\ at = "resumed"
    /\ Me.op = "join_main"
    /\ Update(cur, [Me EXCEPT !.op = "user"])
    /\ Goto("fiber")
    /\ OnlyFibers

\* join_main returns whatever result the slot holds.
ResumeJoinMain ==
    /\ at = "resumed"
    /\ Me.op = "join_main"
    /\ Update(cur, [Me EXCEPT !.result = "none", !.op = "user"])
    /\ Goto("fiber")
    /\ OnlyFibers

\* resp_chunk returns; accept_tcp and child_iter try again.
Resume ==
    /\ at = "resumed"
    /\ Me.op \in {"resp_chunk", "accept", "get_child"}
    /\ Update(cur, [Me EXCEPT !.op = IF @ = "resp_chunk" THEN "user" ELSE @])
    /\ Goto("fiber")
    /\ OnlyFibers

\* unstack, when stepped_out calls it: the stack goes to the pool and the
\* fiber can only start over.
Unstacks(p) == fibers[p].state # "Stacked" /\ fibers[p].stack # None

unstack(p) == IF Unstacks(p) THEN stack_push(fibers[p].stack)
                             ELSE UNCHANGED free_stacks

\* Mutant: the fiber keeps the stack it gave to the pool.
Unstacked_kept(p) ==
    IF Unstacks(p) THEN [fibers[p] EXCEPT !.op = "start"] ELSE fibers[p]

Unstacked(p) ==
    IF Unstacks(p) THEN [fibers[p] EXCEPT !.stack = None, !.op = "start"]
                   ELSE fibers[p]

\* take_result: the main stack gets the result, if there is one.
take_result(p) ==
    results' = IF HasResult(p) THEN Append(results, fibers[p].result) ELSE results

\* stepped_out of a closed fiber that has a parent: on to the parent, which
\* finds the result in its child.
ClosedChild ==
    /\ at = "stepped_out"
    /\ ~Live(cur)
    /\ Me.parent # None
    /\ unstack(cur)
    /\ Update(cur, [Unstacked(cur) EXCEPT !.sock = "Empty"])
    /\ SocketDropped(cur)
    /\ EnterFiber(Me.parent)
    /\ UNCHANGED <<toexec, timerVars, slotVars, outVars, mainVars>>

\* stepped_out of a closed fiber without a parent: its slot is free.
ClosedOrphan ==
    /\ at = "stepped_out"
    /\ ~Live(cur)
    /\ Me.parent = None
    /\ unstack(cur)
    /\ Update(cur, [Unstacked(cur) EXCEPT !.sock = "Empty", !.result = "none"])
    /\ SocketDropped(cur)
    /\ take_result(cur)
    /\ free_fibers' = Append(free_fibers, cur)
    /\ Goto(loop)
    /\ UNCHANGED <<toexec, timerVars, nfibers, tomain_fibers, mainVars>>

\* stepped_out of a living child that holds a result: on to the parent.
ChunkToParent ==
    /\ at = "stepped_out"
    /\ Live(cur)
    /\ Me.parent # None
    /\ HasResult(cur)
    /\ unstack(cur)
    /\ Update(cur, Unstacked(cur))
    /\ EnterFiber(Me.parent)
    /\ UNCHANGED <<toexec, timerVars, sockVars, slotVars, outVars, mainVars>>

\* Mutant: the main stack gets a copy.
ChunkToMain_copied ==
    /\ at = "stepped_out"
    /\ Live(cur)
    /\ Me.parent = None
    /\ HasResult(cur)
    /\ unstack(cur)
    /\ Update(cur, Unstacked(cur))
    /\ take_result(cur)
    /\ push_toexec(cur)
    /\ Goto(loop)
    /\ UNCHANGED <<timerVars, sockVars, slotVars, tomain_fibers, mainVars>>

\* stepped_out of a living fiber without a parent that holds a result: the
\* main stack gets it and the fiber is scheduled again.
ChunkToMain ==
    /\ at = "stepped_out"
    /\ Live(cur)
    /\ Me.parent = None
    /\ HasResult(cur)
    /\ unstack(cur)
    /\ Update(cur, [Unstacked(cur) EXCEPT !.result = "none"])
    /\ take_result(cur)
    /\ push_toexec(cur)
    /\ Goto(loop)
    /\ UNCHANGED <<timerVars, sockVars, slotVars, tomain_fibers, mainVars>>

\* stepped_out of a living fiber without a result: it waits.
Waits ==
    /\ at = "stepped_out"
    /\ Live(cur)
    /\ ~HasResult(cur)
    /\ unstack(cur)
    /\ Update(cur, Unstacked(cur))
    /\ Goto(loop)
    /\ UNCHANGED <<toexec, timerVars, sockVars, slotVars, outVars, mainVars>>

-----------------------------------------------------------------------------
(* run(), on the main stack: first the fibers to execute, then the timers  *)
(* that fired.  The loop over lookup_results is empty outside macOS.       *)

BeginRun ==
    /\ at = "main"
    /\ smth \/ "run_unprompted" \in Usage
    /\ Len(results) <= MaxResults
    /\ smth' = FALSE
    /\ at' = "toexec"
    /\ loop' = "toexec"
    /\ UNCHANGED <<pollerVars, runnerVars, fiber_refs, timer_refs, cur>>

ToexecDone ==
    /\ at = "toexec"
    /\ toexec = <<>>
    /\ at' = "timedout"
    /\ loop' = "timedout"
    /\ UNCHANGED <<pollerVars, runnerVars, mainVars, cur>>

\* p is the next fiber to execute, and leaves the queue.
Pops(p) ==
    /\ at = "toexec"
    /\ toexec # <<>>
    /\ p = Head(toexec)
    /\ toexec' = Tail(toexec)

\* Mutant: a fiber in a lookup is stepped into as well.
Execute_any(p) ==
    /\ Pops(p)
    /\ EnterFiber(p)
    /\ UNCHANGED <<timerVars, free_stacks, sockVars, runnerVars, mainVars>>

\* A fiber that is not in a lookup is stepped into.
Execute(p) ==
    /\ Pops(p)
    /\ ~fibers[p].connect_param
    /\ EnterFiber(p)
    /\ UNCHANGED <<timerVars, free_stacks, sockVars, runnerVars, mainVars>>

\* A datagram can be read on the socket of the lookup.
HasAnswer(p) == fibers[p].sock # "Empty" /\ "readable" \in avail[p]

\* There is no datagram, or one without an address: the lookup goes on.
NoAddress(p) ==
    /\ Pops(p)
    /\ fibers[p].connect_param
    /\ avail' \in IF HasAnswer(p)
                    THEN {avail, [avail EXCEPT ![p] = @ \ {"readable"}]}
                    ELSE {avail}
    /\ UNCHANGED <<timerVars, free_stacks, edge, runnerVars, mainVars, control>>

\* dns_parse unwraps the packet: one that does not parse is a panic.
MalformedAnswer(p) ==
    /\ "malformed_dns" \in Usage
    /\ Pops(p)
    /\ fibers[p].connect_param
    /\ HasAnswer(p)
    /\ Goto("panic")
    /\ UNCHANGED <<timerVars, free_stacks, sockVars, runnerVars, mainVars>>

\* The answer has an address: have_addr replaces the socket of the lookup by
\* the connection, and the fiber starts once that is writable.
Connects(p) ==
    /\ Pops(p)
    /\ fibers[p].connect_param
    /\ HasAnswer(p)
    /\ timer_cancel(fibers[p].wtoken)
    /\ \E sock \in {"Tcp", "Udp"} :
         Update(p, [fibers[p] EXCEPT !.wtoken = None, !.timed_out = 0,
                       !.connect_param = FALSE, !.sock = sock, !.ready = "writable"])
    /\ SocketDropped(p)
    /\ UNCHANGED <<timedout, free_stacks, slotVars, outVars, mainVars, control>>

\* have_addr without a connection, or with one that mio refuses: the fiber
\* starts at once, on no socket or on the one that will have no events.
ConnectFails(p) ==
    /\ Pops(p)
    /\ fibers[p].connect_param
    /\ HasAnswer(p)
    /\ timer_cancel(fibers[p].wtoken)
    /\ \E sock \in {"Empty", "Tcp", "Udp"} :
         /\ sock # "Empty" => "register_error" \in Usage
         /\ Update(p, [fibers[p] EXCEPT !.wtoken = None, !.timed_out = 0,
                          !.connect_param = FALSE, !.sock = sock,
                          !.ready = IF sock = "Empty" THEN "none" ELSE "writable"])
    /\ SocketDropped(p)
    /\ EnterFiber(p)
    /\ UNCHANGED <<timedout, free_stacks, slotVars, outVars, mainVars>>

\* run() returns to the main stack.
TimedoutDone ==
    /\ at = "timedout"
    /\ timedout = <<>>
    /\ Goto("main")
    /\ UNCHANGED <<pollerVars, runnerVars, mainVars>>

\* The timer of p is the next that fired, and leaves the queue.
Expires(p) ==
    /\ at = "timedout"
    /\ timedout # <<>>
    /\ p = Head(timedout)
    /\ timedout' = Tail(timedout)

\* The fiber is not waiting on a timer any more.
StaleTimer(p) ==
    /\ Expires(p)
    /\ fibers[p].wtoken = None
    /\ UNCHANGED <<toexec, slab, vacant, free_stacks, sockVars, runnerVars,
                   mainVars, control>>

\* Mutant: the tick is not counted.
LookupTick_uncounted(p) ==
    /\ Expires(p)
    /\ fibers[p].wtoken # None
    /\ fibers[p].connect_param
    /\ fibers[p].timed_out > 1
    /\ timer_reg(p)
    /\ Update(p, [fibers[p] EXCEPT !.wtoken = NextToken])
    /\ UNCHANGED <<toexec, free_stacks, sockVars, slotVars, outVars, mainVars, control>>

\* A lookup with ticks left sends its query again and sets its timer again.
LookupTick(p) ==
    /\ Expires(p)
    /\ fibers[p].wtoken # None
    /\ fibers[p].connect_param
    /\ fibers[p].timed_out > 1
    /\ timer_reg(p)
    /\ Update(p, [fibers[p] EXCEPT !.timed_out = @ - 1, !.wtoken = NextToken])
    /\ UNCHANGED <<toexec, free_stacks, sockVars, slotVars, outVars, mainVars, control>>

\* The last tick of a lookup: the fiber runs without a socket.
LookupExpires(p) ==
    /\ Expires(p)
    /\ fibers[p].wtoken # None
    /\ fibers[p].connect_param
    /\ fibers[p].timed_out = 1
    /\ Update(p, [fibers[p] EXCEPT !.timed_out = 0, !.wtoken = None, !.sock = "Empty"])
    /\ SocketDropped(p)
    /\ EnterFiber(p)
    /\ UNCHANGED <<toexec, slab, vacant, free_stacks, slotVars, outVars, mainVars>>

\* Counting down from zero: the u8 underflows, a panic in a build with
\* overflow checks (without them it wraps to 255 and the lookup ticks on).
LookupUnderflow(p) ==
    /\ Expires(p)
    /\ fibers[p].wtoken # None
    /\ fibers[p].connect_param
    /\ fibers[p].timed_out = 0
    /\ Goto("panic")
    /\ UNCHANGED <<toexec, slab, vacant, free_stacks, sockVars, runnerVars, mainVars>>

\* Mutant: the fiber is not told that it timed out.
TimerWakes_unmarked(p) ==
    /\ Expires(p)
    /\ fibers[p].wtoken # None
    /\ ~fibers[p].connect_param
    /\ Update(p, [fibers[p] EXCEPT !.wtoken = None])
    /\ EnterFiber(p)
    /\ UNCHANGED <<toexec, slab, vacant, free_stacks, sockVars, slotVars, outVars,
                   mainVars>>

\* Mutant: the timer of a fiber that stopped waiting on it wakes it as well.
TimerWakes_stale(p) ==
    /\ Expires(p)
    /\ ~fibers[p].connect_param
    /\ Update(p, [fibers[p] EXCEPT !.wtoken = None, !.timed_out = 1])
    /\ EnterFiber(p)
    /\ UNCHANGED <<toexec, slab, vacant, free_stacks, sockVars, slotVars, outVars,
                   mainVars>>

\* Mutant: the timer is taken off the fiber, which is not stepped into.
TimerWakes_dropped(p) ==
    /\ Expires(p)
    /\ fibers[p].wtoken # None
    /\ ~fibers[p].connect_param
    /\ Update(p, [fibers[p] EXCEPT !.wtoken = None, !.timed_out = 1])
    /\ UNCHANGED <<toexec, slab, vacant, free_stacks, sockVars, slotVars, outVars,
                   mainVars, control>>

\* Any other timer wakes its fiber, or closes a plain timer.
TimerWakes(p) ==
    /\ Expires(p)
    /\ fibers[p].wtoken # None
    /\ ~fibers[p].connect_param
    /\ Update(p, [fibers[p] EXCEPT !.wtoken = None, !.timed_out = 1])
    /\ EnterFiber(p)
    /\ UNCHANGED <<toexec, slab, vacant, free_stacks, sockVars, slotVars, outVars,
                   mainVars>>

-----------------------------------------------------------------------------
(* The main stack outside run(), and the environment.                      *)

GetResponse ==
    /\ at = "main"
    /\ results # <<>>
    /\ results' = Tail(results)
    /\ UNCHANGED <<pollerVars, fibers, slotVars, tomain_fibers, mainVars, control>>

GetFiber ==
    /\ at = "main"
    /\ tomain_fibers # <<>>
    /\ tomain_fibers' = Tail(tomain_fibers)
    /\ fiber_refs' = [fiber_refs EXCEPT ![Head(tomain_fibers)] = @ + 1]
    /\ UNCHANGED <<pollerVars, fibers, slotVars, results, timer_refs, smth, control>>

\* Mutant: a FiberRef that is dropped does not resume its fiber.
ResumeFiber_dropped(p) ==
    /\ at = "main"
    /\ fiber_refs[p] > 0
    /\ fiber_refs' = [fiber_refs EXCEPT ![p] = @ - 1]
    /\ \/ Update(p, [fibers[p] EXCEPT !.result = "reply"]) /\ push_toexec(p)
       \/ UNCHANGED <<fibers, toexec>>
    /\ UNCHANGED <<timerVars, free_stacks, sockVars, slotVars, outVars, timer_refs,
                   smth, control>>

\* resume_fiber with or without a response; dropping the FiberRef is the same
\* as resuming without.
ResumeFiber(p) ==
    /\ at = "main"
    /\ fiber_refs[p] > 0
    /\ fiber_refs' = [fiber_refs EXCEPT ![p] = @ - 1]
    /\ \E r \in {"none", "reply"} : Update(p, [fibers[p] EXCEPT !.result = r])
    /\ push_toexec(p)
    /\ UNCHANGED <<timerVars, free_stacks, sockVars, slotVars, outVars, timer_refs,
                   smth, control>>

\* Dropping a TimerRef is cancel_timer: it frees the slot if the fiber that
\* is in it now waits on a timer.
DropTimerRef(p) ==
    /\ OnMain("drop_timer")
    /\ timer_refs[p] > 0
    /\ smth => "late_drop" \in Usage
    /\ timer_refs' = [timer_refs EXCEPT ![p] = @ - 1]
    /\ IF fibers[p].wtoken # None
         THEN /\ timer_cancel(fibers[p].wtoken)
              /\ Update(p, [fibers[p] EXCEPT !.wtoken = None, !.result = "none",
                                             !.param = FALSE])
              /\ free_fibers' = Append(free_fibers, p)
         ELSE UNCHANGED <<slab, vacant, fibers, free_fibers>>
    /\ UNCHANGED <<toexec, timedout, free_stacks, sockVars, nfibers, outVars,
                   fiber_refs, smth, control>>

\* poll() starts.  An interrupted poll returns false and changes nothing.
BeginPoll ==
    /\ at = "main"
    /\ smth => "repoll" \in Usage
    /\ Len(toexec) <= MaxQueue
    /\ smth' = FALSE
    /\ Goto("events")
    /\ UNCHANGED <<pollerVars, runnerVars, fiber_refs, timer_refs>>

\* mio returns the sockets with an event, in any order; one that is no longer
\* ready by then is not among them.
PollEvent(p) ==
    /\ at = "events"
    /\ p \in edge
    /\ edge' = edge \ {p}
    /\ IF fibers[p].ready \in avail[p]
         THEN push_toexec(p) /\ smth' = TRUE
         ELSE UNCHANGED <<toexec, smth>>
    /\ UNCHANGED <<timerVars, free_stacks, avail, runnerVars, fiber_refs,
                   timer_refs, control>>

EventsDone ==
    /\ at = "events"
    /\ edge = {}
    /\ Goto("timers")
    /\ UNCHANGED <<pollerVars, runnerVars, mainVars>>

\* The wheel returns a timer that is due.
PollTimer(tk) ==
    /\ at = "timers"
    /\ "time" \in Usage
    /\ TimerFires(tk)
    /\ smth' = TRUE
    /\ UNCHANGED <<toexec, free_stacks, sockVars, runnerVars, fiber_refs,
                   timer_refs, control>>

PollReturns ==
    /\ at = "timers"
    /\ Goto("main")
    /\ UNCHANGED <<pollerVars, runnerVars, mainVars>>

\* The peer or the kernel makes a socket ready, also while it is ready; a
\* socket registered for the direction gets an event (`ready' says that it is,
\* also if mio refused).  Nothing reads a socket's state outside these two
\* places.
SocketReady(p, dir) ==
    /\ at \in {"main", "fiber"}
    /\ fibers[p].sock # "Empty"
    /\ fibers[p].sock = "Listener" => dir = "readable"
    /\ avail' = [avail EXCEPT ![p] = @ \cup {dir}]
    /\ \/ edge' = IF fibers[p].ready = dir THEN edge \cup {p} ELSE edge
       \/ "register_error" \in Usage /\ UNCHANGED edge
    /\ UNCHANGED <<toexec, timerVars, free_stacks, runnerVars, mainVars, control>>

-----------------------------------------------------------------------------
Creates ==
    \/ New("Tcp", "new_tcp") \/ New("Udp", "new_udp")
    \/ New("Listener", "new_listener") \/ New("Empty", "new_processor")
    \/ Join("Tcp", "join_tcp") \/ Join("Udp", "join_udp")
    \/ NewTimer(TRUE) \/ NewTimer(FALSE)
    \/ NewResolve \/ JoinResolve \/ ResolveFails \/ ListenerFails

Calls ==
    \/ SocketTimeout
    \/ IoReturns("read", "readable") \/ IoBlocks("read", "readable")
    \/ IoReturns("write", "writable") \/ IoBlocks("write", "writable")
    \/ IoReturns("accept", "readable") \/ IoBlocks("accept", "readable")
    \/ IoUnregistered("read", "readable") \/ IoUnregistered("write", "writable")
    \/ HandshakeFails \/ HandshakeDone \/ HandshakeBlocks
    \/ RespChunk \/ JoinMain
    \/ NoChildren \/ (\E i \in DOMAIN Me.children : TakeChild(i)) \/ ChildBlocks
    \/ HibernateForRead \/ HibernateJoinMain
    \/ Return

Switches ==
    \/ StepInto \/ Start \/ ResumeIo \/ ResumeJoinMain \/ Resume
    \/ ClosedChild \/ ClosedOrphan \/ ChunkToParent \/ ChunkToMain \/ Waits

Run ==
    \/ BeginRun \/ ToexecDone \/ TimedoutDone
    \/ \E p \in Slots :
         \/ Execute(p) \/ NoAddress(p) \/ MalformedAnswer(p)
         \/ Connects(p) \/ ConnectFails(p)
         \/ StaleTimer(p) \/ LookupTick(p) \/ LookupExpires(p)
         \/ LookupUnderflow(p) \/ TimerWakes(p)

Poll ==
    \/ BeginPoll \/ EventsDone \/ PollReturns
    \/ \E p \in Slots : PollEvent(p)
    \/ \E tk \in Tokens : PollTimer(tk)

Main ==
    \/ GetResponse \/ GetFiber
    \/ \E p \in Slots : ResumeFiber(p) \/ DropTimerRef(p)

Environment == \E p \in Slots, dir \in Directions : SocketReady(p, dir)

Next == Creates \/ Calls \/ Switches \/ Run \/ Poll \/ Main \/ Environment

Spec == Init /\ [][Next]_vars

\* A running fiber gives the thread back.
StepsOut == Calls /\ at' = "stepped_out"

\* The clock: while polls go on, no timer stays in the wheel for ever.  One
\* that is cancelled and set again at each wakeup need not fire.
Clock ==
    "time" \in Usage /\ []<>(at = "timers") =>
       \A tk \in Tokens, p \in Slots : []<>(slab[tk] # p)

\* What the program owes the library.  Control does not stop inside it; a
\* fiber blocks or returns after finitely many calls, as cooperative fibers
\* must; the main loop keeps calling poll, calls run when poll reported
\* something (and need not otherwise), fetches the responses, and resumes the
\* fibers that joined it.
Fairness ==
    /\ WF_vars(Switches \/ Run \/ Poll \/ Calls)
    /\ SF_vars(StepsOut)
    /\ SF_vars(smth /\ BeginRun) /\ SF_vars(BeginPoll)
    /\ SF_vars(GetResponse) /\ SF_vars(GetFiber)
    /\ \A p \in Slots : SF_vars(ResumeFiber(p))
    /\ Clock

FairSpec == Spec /\ Fairness

=============================================================================
