------------------------------ MODULE Registry ------------------------------
(***************************************************************************)
(* The thread's poller and its runners: the pointers of tls.c, new and     *)
(* drop of Poller and Runner, the queues of the poller, which are kept per *)
(* position of a runner and addressed by ids that pack a runner's position *)
(* and a fiber's, the wheel that all runners share, and what outlives a    *)
(* step by pointing at a runner or at a slot of its vector: FiberRefs,     *)
(* TimerRefs, and the reference that context_function keeps while a fiber  *)
(* is under way.                                                           *)
(*                                                                         *)
(* Of what a fiber does, this keeps what leaves the runner: it arms and    *)
(* cancels timers, is queued, joins the main stack, makes other fibers and *)
(* returns.  Children, hibernation and the sockets are in Runner.tla.      *)
(***************************************************************************)
EXTENDS Integers, Sequences, FiniteSetsExt, Functions

CONSTANTS
    MaxRunners,     \* MAX_RUNNERS, 20 in the code
    RunnerUnit,     \* an id is shifted by 40 bits for its runner: 2 ^ 40 in the code
    PosUnit,        \* and masked for its fiber, to less than this: 2 ^ 32 in the code
    FirstCapacity,  \* what a Vec first allocates, 4; after that it doubles
    NumTokens,      \* max_capacity of the wheel's slab
    MaxFibers,      \* bound: length of a runner's vector
    MaxSlots,       \* bound: of all vectors together
    MaxMade,        \* bound: runners that are made
    MaxQueue,       \* bound: entries in the queues of all runners
    MaxFree,        \* bound: length of a free list, which may name a slot twice
    MaxRefs         \* bound: FiberRefs and TimerRefs that are not used up

ASSUME RegistryAssumption ==
    /\ MaxRunners \in 1 .. 128
    /\ PosUnit \in Nat \ {0} /\ RunnerUnit \in Nat
    /\ \E k \in 1 .. RunnerUnit : RunnerUnit = k * PosUnit
    /\ FirstCapacity \in Nat \ {0}
    /\ MaxFibers \in 1 .. PosUnit
    /\ {NumTokens, MaxSlots, MaxMade, MaxQueue, MaxFree, MaxRefs} \subseteq Nat

Positions == 0 .. MaxRunners - 1
Tokens == 1 .. NumTokens
Places == 1 .. MaxRefs
Null == 0

\* No timer, no reference, no loop; and no fiber that runs.
NoFiber == -1
Nothing == [number |-> Null]

VARIABLES
    poller,       \* there is a poller
    runner,       \* runner[r]: which runner is at position r, or Null
    made,         \* how many runners have been made; each is known by its number
    handles,      \* the Runners the program holds: their position and number
    fibers,       \* fibers[r]: the vector of the runner at r; slot p is at p + 1
    free_fibers,  \* free_fibers[r]: its slots to reuse, oldest first
    refs,         \* refs[k]: a FiberRef or TimerRef that is not used up, or Nothing
    toexec,       \* toexec_fibers
    timedout,     \* timedout_fibers
    wheel,        \* wheel[tk]: the timer with this token, or Nothing
    loop,         \* the loop that run() is in and its Runner, or Nothing outside it
    cur,          \* the slot of the fiber that runs, or NoFiber on the main stack
    fault,        \* "none", or what brought the process down
    dirty         \* positions that a Runner left while something of it was left

queues == <<toexec, timedout, wheel>>
runners == <<runner, made, handles>>
slots == <<fibers, free_fibers>>
running == <<loop, cur>>
gvars == <<poller, runners, slots, refs, queues, running, fault, dirty>>

NoQueue == [r \in Positions |-> <<>>]
NoTimers == [tk \in Tokens |-> Nothing]

GInit ==
    /\ poller = FALSE
    /\ runner = [r \in Positions |-> Null]
    /\ made = 0
    /\ handles = {}
    /\ fibers = NoQueue
    /\ free_fibers = NoQueue
    /\ refs = [k \in Places |-> Nothing]
    /\ toexec = NoQueue
    /\ timedout = NoQueue
    /\ wheel = NoTimers
    /\ loop = Nothing
    /\ cur = NoFiber
    /\ fault = "none"
    /\ dirty = {}

\* The id of fiber p of the runner at r; p fits below the runner's bits, so
\* the `or' of the code is a sum.
fiber_id(r, p) == p + r * RunnerUnit

\* Mutant: the runner is looked for one bit too high.
split_id_shifted(id) == <<(id \div (2 * RunnerUnit)) % 256, id % PosUnit>>

\* Mutant: the runner's bits are left in the fiber's position.
split_id_unmasked(id) == <<(id \div RunnerUnit) % 256, id>>

split_id(id) == <<(id \div RunnerUnit) % 256, id % PosUnit>>

\* Mutant: the highest position, whether it is in use or not.
find_empty_top == MaxRunners - 1

\* The first position without a runner, -1 if there is none.
find_empty ==
    LET empty == {r \in Positions : runner[r] = Null} IN
    IF empty = {} THEN -1 ELSE Min(empty)

\* The program can call poll(), run() and what else is for the main stack.
OnMain == fault = "none" /\ loop = Nothing

\* The runner at r can make fibers: on the main stack, or in one of its own.
Creating(r) == OnMain \/ (fault = "none" /\ cur # NoFiber /\ loop.pos = r)

-----------------------------------------------------------------------------
(* Queues and timers.  An entry knows which runner it is from.             *)

\* Queue q once slot p of runner n is queued for position r.
Pushed(q, r, p, n) == [q EXCEPT ![r] = Append(@, [pos |-> p, number |-> n])]

\* How much the sequences of all positions hold.
Total(f) == FoldSet(LAMBDA r, n : n + Len(f[r]), 0, Positions)

\* There is room for another entry.
Room == Total(toexec) + Total(timedout) < MaxQueue

\* The tokens that timer_reg may return on wheel w: a vacant one, or none if
\* the slab is full.
Reserved(w) ==
    LET vacant == {tk \in Tokens : w[tk] = Nothing} IN
    IF vacant = {} THEN {Null} ELSE vacant

\* The timer of slot p of runner n at r has token tk.
timer_reg(w, tk, r, p, n) ==
    IF tk = Null THEN w ELSE [w EXCEPT ![tk] = [id |-> fiber_id(r, p), number |-> n]]

\* The timer that has token tk now is gone, whose ever it is.
timer_cancel(w, tk) == IF tk = Null THEN w ELSE [w EXCEPT ![tk] = Nothing]

-----------------------------------------------------------------------------
(* The fibers vector.  A slot is a "timer" without a function, or its      *)
(* fiber is "unstacked" (not started, or returned), "stacked" (under way,  *)
(* in user code or in a plain step_out) or "timed" (in timed_step_out).    *)

States == {"timer", "unstacked", "stacked", "timed"}

\* A new slot; seen is where context_function will find the FiberInt.
NewInt(state, param, sock, connect_param, tk) ==
    [state |-> state, param |-> param, sock |-> sock, connect_param |-> connect_param,
     wtoken |-> tk, seen |-> 0]

\* How often a vector that has grown to n elements has been reallocated, and
\* its elements moved.
Moves(n) ==
    IF n <= FirstCapacity THEN 0 ELSE Min({k \in 1 .. n : n <= FirstCapacity * 2 ^ k})

\* The allocation that holds the vector of the runner at r.
Allocation(r) == Moves(Len(fibers[r]))

\* The slot that register() takes.
NewSlot(r) == IF free_fibers[r] # <<>> THEN Head(free_fibers[r]) ELSE Len(fibers[r])

\* register(): slot NewSlot(r) gets f, at the end of the vector or in place of
\* what was there.  If that is the running fiber, its stack is gone.
register(r, f) ==
    /\ NewSlot(r) < MaxFibers
    /\ NewSlot(r) < Len(fibers[r]) \/ Total(fibers) < MaxSlots
    /\ fibers' = [fibers EXCEPT ![r] =
                     IF NewSlot(r) = Len(@) THEN Append(@, f)
                                            ELSE [@ EXCEPT ![NewSlot(r) + 1] = f]]
    /\ free_fibers' = [free_fibers EXCEPT ![r] = IF @ # <<>> THEN Tail(@) ELSE @]
    /\ fault' = IF cur = NewSlot(r) THEN "freed" ELSE "none"

\* Slot p of r becomes f.
Update(r, p, f) == fibers' = [fibers EXCEPT ![r][p + 1] = f]

\* The slot is pushed to the free list.
Frees(r, p) ==
    /\ Len(free_fibers[r]) < MaxFree
    /\ free_fibers' = [free_fibers EXCEPT ![r] = Append(@, p)]

-----------------------------------------------------------------------------
(* Pollers and runners.                                                    *)

\* Poller::new; with a poller it returns an error.
NewPoller ==
    /\ OnMain
    /\ ~poller
    /\ poller' = TRUE
    /\ UNCHANGED <<runners, slots, refs, queues, running, fault, dirty>>

\* The queues and the wheel go with the poller.  Runners need one, so the
\* program drops it last.
DropPoller ==
    /\ OnMain
    /\ poller
    /\ handles = {}
    /\ poller' = FALSE
    /\ toexec' = NoQueue
    /\ timedout' = NoQueue
    /\ wheel' = NoTimers
    /\ dirty' = {r \in dirty : \E k \in Places : refs[k] # Nothing /\ refs[k].runner = r}
    /\ UNCHANGED <<runners, slots, refs, running, fault>>

\* Runner::new; without a poller or a position it returns an error.
NewRunner ==
    /\ OnMain
    /\ poller
    /\ made < MaxMade
    /\ find_empty # -1
    /\ made' = made + 1
    /\ runner' = [runner EXCEPT ![find_empty] = made + 1]
    /\ handles' = handles \cup {[pos |-> find_empty, number |-> made + 1]}
    /\ UNCHANGED <<poller, slots, refs, queues, running, fault, dirty>>

Kinds == {"fiber", "timer"}

\* A FiberRef that the main stack has not fetched.
Unfetched(k) == refs[k] # Nothing /\ refs[k].kind = "fiber" /\ ~refs[k].held

\* A timer of the runner at r has token tk.
TimerOf(r, tk) == wheel[tk] # Nothing /\ split_id(wheel[tk].id)[1] = r

\* Something is queued for position r, or there is a timer or a reference.
Left(r) ==
    \/ toexec[r] # <<>> \/ timedout[r] # <<>>
    \/ \E tk \in Tokens : TimerOf(r, tk)
    \/ \E k \in Places : refs[k] # Nothing /\ refs[k].runner = r

\* Dropping a Runner frees the fields of RunnerInt in order, the vector before
\* tomain_fibers: a FiberRef in there resumes its fiber as it is dropped, in
\* memory that is free.  Then the pointer is cleared.  What is in the poller
\* stays there.
DropRunner(h) ==
    /\ OnMain
    /\ handles' = handles \ {h}
    /\ runner' = [runner EXCEPT ![h.pos] = Null]
    /\ fibers' = [fibers EXCEPT ![h.pos] = <<>>]
    /\ free_fibers' = [free_fibers EXCEPT ![h.pos] = <<>>]
    /\ fault' = IF \E k \in Places : Unfetched(k) /\ refs[k].runner = h.pos
                  THEN "freed" ELSE "none"
    /\ dirty' = IF Left(h.pos) THEN dirty \cup {h.pos} ELSE dirty
    /\ UNCHANGED <<poller, made, refs, queues, running>>

-----------------------------------------------------------------------------
(* Creating fibers.                                                        *)

\* new_tcp and the like: a fiber is registered, and scheduled.  A processor is
\* one whose socket has no events.
NewFiber(h) ==
    /\ Creating(h.pos)
    /\ Room
    /\ register(h.pos, NewInt("unstacked", TRUE, TRUE, FALSE, Null))
    /\ toexec' = Pushed(toexec, h.pos, NewSlot(h.pos), h.number)
    /\ UNCHANGED <<poller, runners, refs, timedout, wheel, running, dirty>>

\* new_resolve: the fiber has the timer of its lookup.
NewLookup(h) ==
    /\ Creating(h.pos)
    /\ \E tk \in Reserved(wheel) :
         /\ register(h.pos, NewInt("unstacked", TRUE, TRUE, TRUE, tk))
         /\ wheel' = timer_reg(wheel, tk, h.pos, NewSlot(h.pos), h.number)
    /\ UNCHANGED <<poller, runners, refs, toexec, timedout, running, dirty>>

\* new_timer and new_fiber_timer: a TimerRef is returned if there is a token.
NewTimer(h, func) ==
    /\ OnMain
    /\ \E tk \in Reserved(wheel), k \in Places :
         /\ refs[k] = Nothing
         /\ register(h.pos, NewInt(IF func THEN "unstacked" ELSE "timer",
                                   func, FALSE, FALSE, tk))
         /\ wheel' = timer_reg(wheel, tk, h.pos, NewSlot(h.pos), h.number)
         /\ refs' = IF tk = Null THEN refs
                     ELSE [refs EXCEPT ![k] =
                             [kind |-> "timer", runner |-> h.pos, pos |-> NewSlot(h.pos),
                              number |-> h.number, held |-> TRUE]]
    /\ UNCHANGED <<poller, runners, toexec, timedout, running, dirty>>

-----------------------------------------------------------------------------
(* poll().                                                                 *)

\* The socket of a fiber has an event, whose token is the fiber's id: slot p of
\* the id is queued for the runner of the id, whatever the fiber is doing and
\* also if it is queued already.
PollEvent(h) ==
    /\ OnMain
    /\ \E p \in 0 .. Len(fibers[h.pos]) - 1 :
         LET to == split_id(fiber_id(h.pos, p)) IN
         /\ fibers[h.pos][p + 1].sock
         /\ Room
         /\ toexec' = Pushed(toexec, to[1], to[2], h.number)
    /\ UNCHANGED <<poller, runners, slots, refs, timedout, wheel, running, fault, dirty>>

\* A timer fires and is queued for the runner its id says.
PollTimer(tk) ==
    LET to == split_id(wheel[tk].id) IN
    /\ OnMain
    /\ wheel[tk] # Nothing
    /\ wheel' = timer_cancel(wheel, tk)
    /\ Room
    /\ timedout' = Pushed(timedout, to[1], to[2], wheel[tk].number)
    /\ UNCHANGED <<poller, runners, slots, refs, toexec, running, fault, dirty>>

-----------------------------------------------------------------------------
(* run().  The loop over the results of dns_check is left out: on Linux    *)
(* there are none.                                                         *)

BeginRun(h) ==
    /\ OnMain
    /\ loop' = [pos |-> h.pos, number |-> h.number, queue |-> "toexec"]
    /\ UNCHANGED <<poller, runners, slots, refs, queues, cur, fault, dirty>>

\* A loop ends when it finds its queue empty, and run() with the second one.
EndLoop ==
    LET queue == IF loop.queue = "toexec" THEN toexec ELSE timedout IN
    /\ fault = "none" /\ loop # Nothing /\ cur = NoFiber
    /\ queue[loop.pos] = <<>>
    /\ loop' = IF loop.queue = "toexec" THEN [loop EXCEPT !.queue = "timedout"] ELSE Nothing
    /\ UNCHANGED <<poller, runners, slots, refs, queues, cur, fault, dirty>>

\* run() takes slot p off toexec; off timedout.
Pops(p) ==
    /\ fault = "none" /\ loop # Nothing /\ cur = NoFiber
    /\ loop.queue = "toexec" /\ toexec[loop.pos] # <<>>
    /\ p = Head(toexec[loop.pos]).pos
    /\ toexec' = [toexec EXCEPT ![loop.pos] = Tail(@)]
    /\ UNCHANGED <<timedout, loop>>

Expires(p) ==
    /\ fault = "none" /\ loop # Nothing /\ cur = NoFiber
    /\ loop.queue = "timedout" /\ timedout[loop.pos] # <<>>
    /\ p = Head(timedout[loop.pos]).pos
    /\ timedout' = [timedout EXCEPT ![loop.pos] = Tail(@)]
    /\ UNCHANGED <<toexec, loop>>

There(r, p) == p < Len(fibers[r])

\* The vector has no such slot: indexing it is a panic.
IndexPanics(p) ==
    /\ Pops(p) \/ Expires(p)
    /\ ~There(loop.pos, p)
    /\ fault' = "index"
    /\ UNCHANGED <<poller, runners, slots, refs, wheel, cur, dirty>>

\* step_into a plain timer closes it, and stepped_out frees its slot.
ClosesTimer(p, f) ==
    /\ f.state = "timer"
    /\ Update(loop.pos, p, f)
    /\ Frees(loop.pos, p)
    /\ UNCHANGED <<cur, fault>>

\* context_function unwraps a parameter that is gone.
Restarts(p, f) ==
    /\ f.state = "unstacked" /\ ~f.param
    /\ fault' = "restart"
    /\ UNCHANGED <<slots, cur>>

\* The fiber starts, or goes on; a call that was timed has no timer any more.
Enters(p, f) ==
    /\ f.state \in {"stacked", "timed"} \/ (f.state = "unstacked" /\ f.param)
    /\ Update(loop.pos, p,
              [f EXCEPT !.state = "stacked", !.param = FALSE,
                        !.wtoken = IF f.state = "timed" THEN Null ELSE @,
                        !.seen = IF f.state = "unstacked" THEN Allocation(loop.pos) ELSE @])
    /\ cur' = p
    /\ UNCHANGED <<free_fibers, fault>>

\* step_into slot p, whose FiberInt is f by now and the wheel w: from
\* timed_step_out the fiber first cancels its timer.
StepInto(p, f, w) ==
    /\ ClosesTimer(p, f) \/ Restarts(p, f) \/ Enters(p, f)
    /\ wheel' = IF f.state = "timed" THEN timer_cancel(w, f.wtoken) ELSE w
    /\ UNCHANGED <<poller, runners, refs, dirty>>

\* The slot that is taken off toexec is not in a lookup.
Execute(p) ==
    LET f == fibers[loop.pos][p + 1] IN
    /\ Pops(p)
    /\ There(loop.pos, p)
    /\ ~f.connect_param
    /\ StepInto(p, f, wheel)

\* It is, and there is no address in its socket.
NoAddress(p) ==
    /\ Pops(p)
    /\ There(loop.pos, p)
    /\ fibers[loop.pos][p + 1].connect_param
    /\ UNCHANGED <<poller, runners, slots, refs, wheel, cur, fault, dirty>>

\* There is one: the timer is cancelled.  have_addr connects, and the fiber
\* starts when its socket is writable; or at once, if mio refuses the socket.
HasAddress(p) ==
    LET f == fibers[loop.pos][p + 1]
        w == timer_cancel(wheel, f.wtoken)
        g(sock) == [f EXCEPT !.wtoken = Null, !.connect_param = FALSE, !.sock = sock]
    IN
    /\ Pops(p)
    /\ There(loop.pos, p)
    /\ f.connect_param /\ f.sock
    /\ \/ /\ Update(loop.pos, p, g(TRUE))
          /\ wheel' = w
          /\ UNCHANGED <<poller, runners, free_fibers, refs, cur, fault, dirty>>
       \/ \E sock \in BOOLEAN : StepInto(p, g(sock), w)

\* An expiry of a slot that has no timer any more is ignored.
StaleTimer(p) ==
    /\ Expires(p)
    /\ There(loop.pos, p)
    /\ fibers[loop.pos][p + 1].wtoken = Null
    /\ UNCHANGED <<poller, runners, slots, refs, wheel, cur, fault, dirty>>

\* A lookup that has ticks left asks again, with a new timer if there is one.
LookupTick(p) ==
    LET f == fibers[loop.pos][p + 1] IN
    /\ Expires(p)
    /\ There(loop.pos, p)
    /\ f.wtoken # Null /\ f.connect_param
    /\ \E tk \in Reserved(wheel) :
         /\ Update(loop.pos, p, [f EXCEPT !.wtoken = tk])
         /\ wheel' = timer_reg(wheel, tk, loop.pos, p, loop.number)
    /\ UNCHANGED <<poller, runners, free_fibers, refs, cur, fault, dirty>>

\* Any other timer, and the last tick of a lookup, wakes the fiber.
TimerWakes(p) ==
    LET f == fibers[loop.pos][p + 1] IN
    /\ Expires(p)
    /\ There(loop.pos, p)
    /\ f.wtoken # Null
    /\ StepInto(p, [f EXCEPT !.wtoken = Null, !.sock = @ /\ ~f.connect_param], wheel)

-----------------------------------------------------------------------------
(* The fiber that runs, in slot cur.                                       *)

Me == fibers[loop.pos][cur + 1]

\* It calls something that steps out.
StepsOut ==
    /\ fault = "none" /\ cur # NoFiber
    /\ cur' = NoFiber
    /\ UNCHANGED <<poller, runners, loop, dirty>>

\* A read or write blocks: timed_step_out sets a timer, unless the call has no
\* timeout or there is no token.
Blocks ==
    /\ StepsOut
    /\ Me.sock
    /\ \E tk \in Reserved(wheel) \cup {Null} :
         /\ Update(loop.pos, cur,
                   [Me EXCEPT !.state = "timed", !.wtoken = IF tk = Null THEN @ ELSE tk])
         /\ wheel' = timer_reg(wheel, tk, loop.pos, cur, loop.number)
    /\ UNCHANGED <<free_fibers, refs, toexec, timedout, fault>>

\* accept_tcp blocks, without a timer.
Waits ==
    /\ StepsOut
    /\ Me.sock
    /\ UNCHANGED <<slots, refs, queues, fault>>

\* resp_chunk: stepped_out takes the result and queues the fiber again.
Chunks ==
    /\ StepsOut
    /\ Room
    /\ toexec' = Pushed(toexec, loop.pos, cur, loop.number)
    /\ UNCHANGED <<slots, refs, timedout, wheel, fault>>

\* join_main leaves a FiberRef.
Joins ==
    /\ StepsOut
    /\ \E k \in Places :
         /\ refs[k] = Nothing
         /\ refs' = [refs EXCEPT ![k] = [kind |-> "fiber", runner |-> loop.pos, pos |-> cur,
                                         number |-> loop.number, held |-> FALSE]]
    /\ UNCHANGED <<slots, queues, fault>>

\* FiberFn returns: context_function writes the result and the state through
\* the reference it has had since the fiber started, and stepped_out, which
\* finds the slot closed, drops the socket and frees the slot.
Returns ==
    /\ StepsOut
    /\ Update(loop.pos, cur, [Me EXCEPT !.state = "unstacked", !.sock = FALSE, !.seen = 0])
    /\ Frees(loop.pos, cur)
    /\ fault' = IF Me.seen = Allocation(loop.pos) THEN "none" ELSE "freed"
    /\ UNCHANGED <<refs, queues>>

-----------------------------------------------------------------------------
(* References on the main stack.                                           *)

\* get_fiber.
GetFiber(k) ==
    /\ OnMain
    /\ Unfetched(k)
    /\ \E h \in handles : h.pos = refs[k].runner
    /\ refs' = [refs EXCEPT ![k].held = TRUE]
    /\ UNCHANGED <<poller, runners, slots, queues, running, fault, dirty>>

\* The program uses up a reference of this kind; where it leads is told by the
\* position of the runner and the slot, whatever has become of them.
Uses(k, kind) ==
    /\ OnMain
    /\ refs[k] # Nothing
    /\ refs[k].kind = kind /\ refs[k].held
    /\ refs' = [refs EXCEPT ![k] = Nothing]
    /\ UNCHANGED <<poller, runners, timedout, running, dirty>>

\* There is no runner at the position, or it has no such slot.
Dangles(k, kind) ==
    /\ Uses(k, kind)
    /\ fault' = IF runner[refs[k].runner] = Null THEN "nowhere" ELSE "index"
    /\ ~There(refs[k].runner, refs[k].pos)
    /\ UNCHANGED <<slots, toexec, wheel>>

\* resume_fiber, or dropping the FiberRef, which is the same without a
\* response: the slot is queued.
ResumeFiber(k) ==
    /\ Uses(k, "fiber")
    /\ There(refs[k].runner, refs[k].pos)
    /\ Room
    /\ toexec' = Pushed(toexec, refs[k].runner, refs[k].pos, refs[k].number)
    /\ UNCHANGED <<slots, wheel, fault>>

\* Dropping a TimerRef: cancel_timer frees the slot if there is a timer in it.
DropTimerRef(k) ==
    LET r == refs[k].runner
        p == refs[k].pos
        f == fibers[r][p + 1]
    IN
    /\ Uses(k, "timer")
    /\ There(r, p)
    /\ \/ /\ f.wtoken # Null
          /\ wheel' = timer_cancel(wheel, f.wtoken)
          /\ Update(r, p, [f EXCEPT !.wtoken = Null, !.param = FALSE])
          /\ Frees(r, p)
       \/ f.wtoken = Null /\ UNCHANGED <<wheel, slots>>
    /\ UNCHANGED <<toexec, fault>>

-----------------------------------------------------------------------------
Run(p) ==
    \/ IndexPanics(p)
    \/ Execute(p) \/ NoAddress(p) \/ HasAddress(p)
    \/ StaleTimer(p) \/ LookupTick(p) \/ TimerWakes(p)

\* The slots that queue q names.
Named(q) == {entry.pos : entry \in Range(q)}

GNext ==
    \/ NewPoller \/ DropPoller \/ NewRunner
    \/ \E h \in handles :
         \/ DropRunner(h) \/ NewFiber(h) \/ NewLookup(h)
         \/ \E func \in BOOLEAN : NewTimer(h, func)
         \/ PollEvent(h) \/ BeginRun(h)
    \/ \E tk \in Tokens : PollTimer(tk)
    \/ loop # Nothing /\ \E p \in Named(toexec[loop.pos]) \cup Named(timedout[loop.pos]) : Run(p)
    \/ EndLoop
    \/ Blocks \/ Waits \/ Chunks \/ Joins \/ Returns
    \/ \E k \in Places :
         GetFiber(k) \/ ResumeFiber(k) \/ DropTimerRef(k) \/ \E kind \in Kinds : Dangles(k, kind)

GSpec == GInit /\ [][GNext]_gvars

-----------------------------------------------------------------------------
\* Every Runner the program holds leads to the runner it was made with: no two
\* share a position, and find_empty never gives out one that is taken.
HandlesValid == \A h \in handles : runner[h.pos] = h.number

\* Runners are kept apart: a runner at a position that no Runner before it left
\* with something pending meets its own fibers only.  Whatever is queued for
\* it, fires for it or refers to it was made by it and names a slot its vector
\* has, also if it went through mio or the wheel as an id, whatever the runners
\* at other positions left behind, and although entries of fibers that have
\* returned stay in the queues while their slots are reused.
Isolated ==
    \A h \in handles :
      LET mine(e) == e.number = h.number /\ There(h.pos, e.pos) IN
      h.pos \notin dirty =>
        /\ \A e \in Range(toexec[h.pos]) \cup Range(timedout[h.pos]) : mine(e)
        /\ \A tk \in Tokens :
             TimerOf(h.pos, tk) =>
               mine([pos |-> split_id(wheel[tk].id)[2], number |-> wheel[tk].number])
        /\ \A k \in Places : refs[k] # Nothing /\ refs[k].runner = h.pos => mine(refs[k])

\* Nothing dangles unless a Runner is dropped too early: as long as none was
\* dropped with something queued, a timer set or a reference left, run() never
\* indexes past the fibers vector, and no FiberRef or TimerRef is used where
\* its runner or its slot is not.  Fibers that block without a timeout may be
\* dropped with their Runner.
RefsLand == dirty = {} => fault \notin {"index", "nowhere"}

=============================================================================
