------------------------------- MODULE Fibers -------------------------------
(***************************************************************************)
(* The state of one runner of easyfibers (RunnerInt and FiberInt, in       *)
(* runner.rs and fiber.rs) on its poller, and the operations that create   *)
(* fibers.  Runner.tla has what the fibers and the main stack then do.     *)
(*                                                                         *)
(* The library is single threaded, so control is in one place, `at'.       *)
(***************************************************************************)
EXTENDS Poller

CONSTANTS
    Usage,       \* the calls the program makes, and how it drives the loop
    MaxTicks,    \* longest DNS lookup, in ticks of the wheel (255 in the code)
    MaxResults,  \* bound: results the main stack has not fetched
    MaxRefs,     \* bound: FiberRefs not yet resumed, TimerRefs of one slot
    MaxQueue     \* bound: fibers queued for execution when poll is called

ASSUME RunnerAssumption ==
    /\ MaxTicks \in 1 .. 255
    /\ MaxResults \in Nat
    /\ MaxRefs \in Nat
    /\ MaxQueue \in Nat

VARIABLES
    fibers,         \* the slots; those above nfibers are not allocated yet
    nfibers,        \* fibers.len()
    free_fibers,    \* slots to reuse, oldest first
    tomain_fibers,  \* FiberRefs the main stack has not fetched
    results,        \* responses the main stack has not fetched
    fiber_refs,     \* fiber_refs[p]: FiberRefs of p the main stack holds
    timer_refs,     \* timer_refs[p]: TimerRefs of p the main stack holds
    smth,           \* poll returned true and run has not been called since
    at,             \* where control is
    cur,            \* the fiber control is in, entering or leaving
    loop            \* the loop of run() that the main stack is in

slotVars == <<nfibers, free_fibers>>
outVars == <<tomain_fibers, results>>
mainVars == <<fiber_refs, timer_refs, smth>>
runnerVars == <<fibers, slotVars, outVars>>
control == <<at, cur, loop>>
vars == <<pollerVars, runnerVars, mainVars, control>>

-----------------------------------------------------------------------------
(* FiberInt.  t is Some exactly when stack is, except while the fiber      *)
(* runs, so only stack is kept.  generation is read by the macOS resolver  *)
(* alone.  op is the call the fiber is blocked in: "start" before the      *)
(* first instruction of FiberFn, "user" between two calls.  A result is a  *)
(* "chunk" if the fiber produced it (or new_timer was given it) and a      *)
(* "reply" if resume_fiber did.                                            *)

States == {"Closed", "Stacked", "Unstacked"}
Socks == {"Tcp", "Udp", "Listener", "Tls", "TlsTemp", "Empty"}
Results == {"none", "chunk", "reply"}
Ops == {"start", "user", "read", "write", "accept", "handshake",
        "resp_chunk", "join_main", "get_child"}
Places == {"main", "events", "timers", "toexec", "timedout", "step_into",
           "resumed", "fiber", "stepped_out", "panic"}

Fiber == [state : States, func : BOOLEAN, param : BOOLEAN,
          connect_param : BOOLEAN, sock : Socks,
          ready : Directions \cup {"none"}, stack : Stacks \cup {None},
          parent : Slots \cup {None}, children : Seq(Slots),
          result : Results, wtoken : Tokens \cup {None},
          timeout : BOOLEAN, timed_out : 0 .. MaxTicks, op : Ops]

\* The FiberInt that register() builds; a listener is registered with mio.
NewFiber(func, sock, param, parent) ==
    [state |-> "Unstacked", func |-> func, param |-> param,
     connect_param |-> FALSE, sock |-> sock,
     ready |-> IF sock = "Listener" THEN "readable" ELSE "none",
     stack |-> None, parent |-> parent, children |-> <<>>,
     result |-> "none", wtoken |-> None, timeout |-> TRUE,
     timed_out |-> 0, op |-> "start"]

\* A slot that the vector does not have yet.
Unallocated == [NewFiber(FALSE, "Empty", FALSE, None) EXCEPT !.state = "Closed"]

Init ==
    /\ PollerInit
    /\ fibers = [p \in Slots |-> Unallocated]
    /\ nfibers = 0
    /\ free_fibers = <<>>
    /\ tomain_fibers = <<>>
    /\ results = <<>>
    /\ fiber_refs = [p \in Slots |-> 0]
    /\ timer_refs = [p \in Slots |-> 0]
    /\ smth = FALSE
    /\ at = "main"
    /\ cur = 1
    /\ loop = "toexec"

\* The fiber control is in.
Me == fibers[cur]

\* The only slot that changes is p, which becomes f.
Update(p, f) == fibers' = [fibers EXCEPT ![p] = f]

\* Nothing outside the fibers' own records and the control state changes.
OnlyFibers == UNCHANGED <<pollerVars, slotVars, outVars, mainVars>>

\* Control goes on to another place; the fiber and the loop stay.
Goto(place) == at' = place /\ UNCHANGED <<cur, loop>>

\* Control goes to step_into(p).
EnterFiber(p) == at' = "step_into" /\ cur' = p /\ UNCHANGED loop

HasResult(p) == fibers[p].result # "none"
Live(p) == fibers[p].state # "Closed"
Scheduled(p) == p \in Range(toexec)

\* Mutant: a fiber is queued twice.
push_toexec_twice(p) == toexec' = toexec \o <<p, p>>

push_toexec(p) == toexec' = Append(toexec, p)

-----------------------------------------------------------------------------
(* The program.  Usage names the calls it makes and the liberties it takes *)
(* with the loop: "busy_parent" (a fiber with children has a socket, or    *)
(* blocks in something else than get_child), "return_early" (it returns    *)
(* before get_child gave None), "late_drop" (a TimerRef is dropped after   *)
(* its timer fired), "repoll" (poll twice without run), "run_unprompted"   *)
(* (run although poll returned false).  "resolve_error", "malformed_dns"   *)
(* and "register_error" are what the network and mio may do to it.         *)

OnMain(call) == at = "main" /\ call \in Usage

\* The calls that may step out; get_child is the one made for a parent.
Blocking == {"read", "write", "accept", "handshake", "resp_chunk",
             "join_main", "hibernate"}

\* The running fiber is between two calls and may make this one.
InFiber(call) ==
    /\ at = "fiber"
    /\ Me.op = "user"
    /\ call \in Usage
    /\ call \in Blocking /\ Me.children # <<>> => "busy_parent" \in Usage

\* It makes the call, or is at the head of the loop inside it.
InLoop(call) == InFiber(call) \/ (at = "fiber" /\ Me.op = call)

MayBeParent == Me.sock = "Empty" \/ "busy_parent" \in Usage

RefsLeft == Len(tomain_fibers) < MaxRefs /\ fiber_refs[cur] < MaxRefs

-----------------------------------------------------------------------------
(* Creating fibers.                                                        *)

NewSlot == IF free_fibers # <<>> THEN Head(free_fibers) ELSE nfibers + 1

\* There is a slot, and no TimerRef of the timer that had it, unless the
\* program drops those late.
SlotLeft ==
    /\ NewSlot \in Slots
    /\ timer_refs[NewSlot] = 0 \/ "late_drop" \in Usage

\* A slot is taken.  Overwriting the slot of the running fiber unmaps the
\* stack it runs on.
TakeSlot ==
    /\ SlotLeft
    /\ nfibers' = IF free_fibers # <<>> THEN nfibers ELSE nfibers + 1
    /\ SocketDropped(NewSlot)
    /\ Goto(IF at = "fiber" /\ NewSlot = cur THEN "panic" ELSE at)

\* Mutant: the slot that is taken stays free.
FreeLeft_kept == free_fibers

\* The slots that are still free once NewSlot is taken.
FreeLeft == IF free_fibers # <<>> THEN Tail(free_fibers) ELSE <<>>

\* The slots g once the parent, if there is one, has the new fiber in its list.
WithParent(parent, g) ==
    IF parent = None
      THEN g
      ELSE [g EXCEPT ![parent] =
               [g[parent] EXCEPT !.children = Append(g[parent].children, NewSlot)]]

\* register(): f goes into a slot and, if it is to be scheduled, into toexec;
\* its parent learns of it.
register(f, schedule) ==
    /\ TakeSlot
    /\ free_fibers' = FreeLeft
    /\ fibers' = WithParent(f.parent, [fibers EXCEPT ![NewSlot] = f])
    /\ IF schedule THEN push_toexec(NewSlot) ELSE UNCHANGED toexec

\* new_tcp, new_udp, new_listener and new_processor, from the main stack or
\* from a fiber: the new fiber has no parent.
New(sock, call) ==
    /\ OnMain(call) \/ InFiber(call)
    /\ register(NewFiber(TRUE, sock, TRUE, None), TRUE)
    /\ UNCHANGED <<timerVars, free_stacks, outVars, mainVars>>

\* mio refuses the listener of new_listener: the slot it was to reuse is off the
\* list by then, and stays off.  A slot that is not allocated is left alone.
ListenerFails ==
    /\ "register_error" \in Usage
    /\ OnMain("new_listener") \/ InFiber("new_listener")
    /\ free_fibers # <<>>
    /\ free_fibers' = Tail(free_fibers)
    /\ UNCHANGED <<pollerVars, fibers, nfibers, outVars, mainVars, control>>

\* join_tcp and join_udp: the new fiber is a child of the running one.
Join(sock, call) ==
    /\ InFiber(call)
    /\ MayBeParent
    /\ register(NewFiber(TRUE, sock, TRUE, cur), TRUE)
    /\ UNCHANGED <<timerVars, free_stacks, outVars, mainVars>>

\* new_timer (func is None, the result is there from the start) and
\* new_fiber_timer.  Without a token the caller gets None and the slot stays
\* taken.
NewTimer(func) ==
    /\ OnMain(IF func THEN "new_fiber_timer" ELSE "new_timer")
    /\ register([NewFiber(func, "Empty", func, None) EXCEPT
                    !.result = IF func THEN "none" ELSE "chunk",
                    !.wtoken = NextToken], FALSE)
    /\ timer_refs[NewSlot] < MaxRefs
    /\ timer_reg(NewSlot)
    /\ timer_refs' = [timer_refs EXCEPT
                         ![NewSlot] = IF NextToken = None THEN @ ELSE @ + 1]
    /\ UNCHANGED <<timedout, free_stacks, outVars, fiber_refs, smth>>

\* Mutants: no upper bound; no lower bound.
TimeoutTicks_uncapped == 1 .. MaxTicks + 1
TimeoutTicks_zero == 0 .. MaxTicks

\* The timeout of a lookup in ticks: at least one, at most what a u8 holds.
TimeoutTicks == 1 .. MaxTicks

\* new_resolve: the fiber waits on the UDP socket of the lookup.  When mio
\* refuses that socket the caller gets an error and all else is the same.
Resolve(parent) ==
    /\ \E ticks \in TimeoutTicks :
         register([NewFiber(TRUE, "Udp", TRUE, parent) EXCEPT
                      !.connect_param = TRUE, !.ready = "readable",
                      !.wtoken = NextToken, !.timed_out = ticks], FALSE)
    /\ timer_reg(NewSlot)
    /\ UNCHANGED <<timedout, free_stacks, outVars, mainVars>>

NewResolve == (OnMain("new_resolve") \/ InFiber("new_resolve")) /\ Resolve(None)

JoinResolve == InFiber("join_resolve") /\ MayBeParent /\ Resolve(cur)

\* start_lookup fails: the timer is cancelled again and the slot given back,
\* but only if there was a token.  The parent's list is as it was.
ResolveFails ==
    /\ "resolve_error" \in Usage
    /\ OnMain("new_resolve") \/ InFiber("new_resolve") \/ InFiber("join_resolve")
    /\ TakeSlot
    /\ free_fibers' = IF NextToken # None THEN Append(FreeLeft, NewSlot)
                                          ELSE FreeLeft
    /\ \E ticks \in TimeoutTicks :
         Update(NewSlot, [NewFiber(TRUE, "Empty", FALSE, None) EXCEPT
                             !.timed_out = ticks])
    /\ UNCHANGED <<toexec, timerVars, free_stacks, outVars, mainVars>>

=============================================================================
