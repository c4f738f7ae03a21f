------------------------------- MODULE Poller -------------------------------
(***************************************************************************)
(* The poller of easyfibers (poller.rs) as its one runner sees it: the     *)
(* queue of fibers to execute, the queue of fibers whose timer fired, the  *)
(* timers of the wheel (wheel.rs) reduced to its slab of tokens, the pool  *)
(* of free stacks, and the sockets registered with mio.                    *)
(*                                                                         *)
(* A fiber is known to the poller by the number of its slot in the         *)
(* runner's `fibers' vector.  Time is left out: a timer that is set may    *)
(* fire in any later poll.  Wheel.tla models the wheel itself.             *)
(***************************************************************************)
EXTENDS Naturals, Sequences, Functions

CONSTANTS
    NumSlots,   \* fiber slots the runner may allocate
    NumTokens   \* max_capacity of the wheel's slab

ASSUME PollerAssumption ==
    /\ NumSlots \in Nat \ {0}
    /\ NumTokens \in Nat

\* None of the code's Option values; slots, tokens and stacks count from 1.
None == 0
Slots == 1 .. NumSlots
Tokens == 1 .. NumTokens
Stacks == 1 .. NumSlots

\* What a socket can be waited on for; mio registers one of them at a time.
Directions == {"readable", "writable"}

VARIABLES
    toexec,       \* toexec_fibers[runner]
    timedout,     \* timedout_fibers[runner]
    slab,         \* slab[tk]: the fiber whose timer holds token tk, or None
    vacant,       \* free list of the slab, last freed first
    free_stacks,  \* pool of stacks, last freed first
    avail,        \* avail[p]: the directions the socket of p would not block on
    edge          \* fibers whose socket has an event mio has not delivered

timerVars == <<timedout, slab, vacant>>
sockVars == <<avail, edge>>
pollerVars == <<toexec, timerVars, free_stacks, sockVars>>

PollerInit ==
    /\ toexec = <<>>
    /\ timedout = <<>>
    /\ slab = [tk \in Tokens |-> None]
    /\ vacant = [tk \in Tokens |-> tk]
    /\ free_stacks = <<>>
    /\ avail = [p \in Slots |-> {}]
    /\ edge = {}

-----------------------------------------------------------------------------
(* Timers: wheel.reserve + set_timeout, wheel.cancel, one wheel.poll hit.  *)

\* The token timer_reg returns; None when the slab is at its capacity.
NextToken == IF vacant = <<>> THEN None ELSE Head(vacant)

timer_reg(p) ==
    IF vacant = <<>>
      THEN UNCHANGED <<slab, vacant>>
      ELSE /\ slab' = [slab EXCEPT ![Head(vacant)] = p]
           /\ vacant' = Tail(vacant)

\* Frees whatever timer holds the token now; a free token is left alone.
timer_cancel(tk) ==
    IF tk \in Tokens /\ slab[tk] # None
      THEN /\ slab' = [slab EXCEPT ![tk] = None]
           /\ vacant' = <<tk>> \o vacant
      ELSE UNCHANGED <<slab, vacant>>

\* Mutant: the expiry is lost.
TimerFires_lost(tk) ==
    /\ slab[tk] # None
    /\ timer_cancel(tk)
    /\ UNCHANGED timedout

\* The wheel's poll returns the timer of token tk.
TimerFires(tk) ==
    /\ slab[tk] # None
    /\ timedout' = Append(timedout, slab[tk])
    /\ slab' = [slab EXCEPT ![tk] = None]
    /\ vacant' = <<tk>> \o vacant

-----------------------------------------------------------------------------
(* The pool of stacks.                                                     *)

\* The stack stack_pop returns: the last one pushed, or a newly mapped one.
\* inUse is the set of stacks that fibers hold.
PoppedStack(inUse) ==
    IF free_stacks # <<>>
      THEN Head(free_stacks)
      ELSE CHOOSE s \in Stacks : s \notin inUse

stack_pop == free_stacks' = IF free_stacks = <<>> THEN <<>> ELSE Tail(free_stacks)

stack_push(s) == free_stacks' = <<s>> \o free_stacks

-----------------------------------------------------------------------------
(* mio: edge-triggered registration of a fiber's socket.                   *)

\* poll.register or reregister for direction d: an event is pending at once
\* exactly if the socket is ready.
Registered(p, d) ==
    edge' = IF d \in avail[p] THEN edge \cup {p} ELSE edge \ {p}

\* The socket of slot p is closed (or replaced): epoll forgets it.
SocketDropped(p) ==
    /\ avail' = [avail EXCEPT ![p] = {}]
    /\ edge' = edge \ {p}

=============================================================================
