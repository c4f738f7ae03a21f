-------------------------------- MODULE Wheel --------------------------------
(***************************************************************************)
(* The hashed timer wheel (wheel.rs) under the poller's three uses of it:  *)
(* timer_reg, timer_cancel, and the loop of poll() that calls Wheel::poll  *)
(* until it returns None.                                                  *)
(*                                                                         *)
(* Instants are milliseconds since the wheel was made.  The linked lists   *)
(* of the wheel's slots, threaded through the slab, and the cursor that    *)
(* survives from one poll to the next are as in the code; each iteration   *)
(* of the loop in Wheel::poll is a step.                                   *)
(***************************************************************************)
EXTENDS Integers, Sequences, FiniteSetsExt

CONSTANTS
    NumSlots,         \* slots of the wheel
    TickMs,           \* length of a tick in milliseconds
    InitialCapacity,  \* capacity the slab starts with
    MaxCapacity,      \* and the one it may grow to
    Tasks,            \* the tasks of timers: ids of fibers
    Durations,        \* bound: timeouts that are asked for, in milliseconds
    MaxMs             \* bound: how far the clock runs

\* The number of slots is a power of two, as Wheel::new asserts.
ASSUME WheelAssumption ==
    /\ NumSlots \in Nat \ {0} /\ \E k \in 0 .. 12 : NumSlots = 2 ^ k
    /\ TickMs \in Nat \ {0}
    /\ InitialCapacity \in Nat \ {0}
    /\ MaxCapacity \in Nat /\ InitialCapacity <= MaxCapacity
    /\ Tasks \subseteq Nat \ {0}
    /\ Durations \subseteq Nat
    /\ MaxMs \in Nat

Tokens == 1 .. MaxCapacity
Slots == 0 .. NumSlots - 1

\* EMPTY of the code, the task of a vacant entry, and no next_timeout.
None == 0

VARIABLES
    head,            \* head[s]: first entry of slot s
    next_timeout,    \* next_timeout[s] of slot s
    slab,            \* the entries
    vacant,          \* free list of the slab, last freed first
    capacity,        \* capacity of the slab
    cur_wheel_tick,  \* the tick poll has got to
    cur_slab_idx,    \* the entry of its slot that poll looks at next
    now,             \* the clock
    polled,          \* `at' of the current or the last poll
    polling          \* a poll is under way

lists == <<head, slab, vacant>>
cursor == <<cur_wheel_tick, cur_slab_idx>>
clock == <<now, polled, polling>>
wvars == <<lists, next_timeout, capacity, cursor, clock>>

\* An entry that is not in use.
Vacant == [task |-> None, when |-> 0, wheel_idx |-> 0, prev |-> None,
           next |-> None]

Armed(tk) == slab[tk].task # None

WInit ==
    /\ head = [s \in Slots |-> None]
    /\ next_timeout = [s \in Slots |-> None]
    /\ slab = [tk \in Tokens |-> Vacant]
    /\ vacant = [i \in 1 .. InitialCapacity |-> i]
    /\ capacity = InitialCapacity
    /\ cur_wheel_tick = 0
    /\ cur_slab_idx = None
    /\ now = 0
    /\ polled = 0
    /\ polling = FALSE

time_to_ticks(ms) == ms \div TickMs

ticks_to_wheel_idx(tick) == tick % NumSlots

-----------------------------------------------------------------------------
(* timer_reg: reserve, then set_timeout.                                   *)

\* Mutant: the slab doubles whatever its maximum.
Growth_doubling == capacity

\* By how much reserve lets a full slab grow: at most to twice its size.
Growth == Min({capacity, MaxCapacity - capacity})

\* The free list once reserve has made sure that there is an entry, if it can.
Reserved ==
    IF vacant # <<>> THEN vacant ELSE [i \in 1 .. Growth |-> capacity + i]

\* The tick of a timeout at `at': one that poll is past, or at, is deferred.
set_tick(at) == Max({time_to_ticks(at), cur_wheel_tick + 1})

\* slab[tk] becomes e, the head of its slot's list.
Linked(tk, e) ==
    [t \in Tokens |-> IF t = tk THEN e
                      ELSE IF t = e.next THEN [slab[t] EXCEPT !.prev = tk]
                      ELSE slab[t]]

set_timeout(tk, at, task) ==
    LET when == set_tick(at) * TickMs
        s == ticks_to_wheel_idx(set_tick(at))
    IN
    /\ head' = [head EXCEPT ![s] = tk]
    /\ slab' = Linked(tk, [task |-> task, when |-> when, wheel_idx |-> s,
                           prev |-> None, next |-> head[s]])
    /\ next_timeout' = [next_timeout EXCEPT
                           ![s] = IF @ = None \/ when <= @ THEN when ELSE @]

timer_reg(task, dur) ==
    /\ ~polling
    /\ Reserved # <<>>
    /\ vacant' = Tail(Reserved)
    /\ capacity' = IF vacant # <<>> THEN capacity ELSE capacity + Growth
    /\ set_timeout(Head(Reserved), now + dur, task)
    /\ UNCHANGED <<cursor, clock>>

-----------------------------------------------------------------------------
(* remove_slab, for cancel and for poll.                                   *)

\* Mutant: the entry behind keeps pointing back at the one removed.
Unlinked_halfway(tk) ==
    LET e == slab[tk] IN
    [t \in Tokens |-> IF t = tk THEN Vacant
                      ELSE IF t = e.prev THEN [slab[t] EXCEPT !.next = e.next]
                      ELSE slab[t]]

\* The slab without tk, whose neighbours in the list are joined.
Unlinked(tk) ==
    LET e == slab[tk] IN
    [t \in Tokens |-> IF t = tk THEN Vacant
                      ELSE IF t = e.prev THEN [slab[t] EXCEPT !.next = e.next]
                      ELSE IF t = e.next THEN [slab[t] EXCEPT !.prev = e.prev]
                      ELSE slab[t]]

\* The cursor idx, moved off an entry that is removed.
Beyond(tk, idx) == IF idx = tk THEN slab[tk].next ELSE idx

remove_slab(tk) ==
    /\ slab' = Unlinked(tk)
    /\ vacant' = <<tk>> \o vacant
    /\ head' = IF slab[tk].prev = None
                 THEN [head EXCEPT ![slab[tk].wheel_idx] = slab[tk].next]
                 ELSE head

\* A token that is vacant is left alone.
timer_cancel(tk) ==
    /\ ~polling
    /\ Armed(tk)
    /\ remove_slab(tk)
    /\ cur_slab_idx' = Beyond(tk, cur_slab_idx)
    /\ UNCHANGED <<next_timeout, capacity, cur_wheel_tick, clock>>

-----------------------------------------------------------------------------
(* poll.                                                                   *)

BeginPoll ==
    /\ ~polling
    /\ polling' = TRUE
    /\ polled' = now
    /\ UNCHANGED <<lists, next_timeout, capacity, cursor, now>>

\* The loop of Wheel::poll goes on.
Behind == polling /\ cur_wheel_tick <= time_to_ticks(polled)

slot == ticks_to_wheel_idx(cur_wheel_tick)

\* next_timeout of the slot is cleared when the cursor is at its head.
Cleared ==
    IF cur_slab_idx = head[slot] THEN [next_timeout EXCEPT ![slot] = None]
                                 ELSE next_timeout

\* The list of the slot is done: on to the next tick.
NextTick ==
    /\ Behind
    /\ cur_slab_idx = None
    /\ next_timeout' = Cleared
    /\ cur_wheel_tick' = cur_wheel_tick + 1
    /\ cur_slab_idx' = head[ticks_to_wheel_idx(cur_wheel_tick + 1)]
    /\ UNCHANGED <<lists, capacity, clock>>

\* Mutant: only timeouts of earlier ticks have expired.
Expired_late(tk) == time_to_ticks(slab[tk].when) < time_to_ticks(polled)

Expired(tk) == time_to_ticks(slab[tk].when) <= time_to_ticks(polled)

\* The entry has expired: poll returns its task, and is called again.
Fire(tk) ==
    /\ Behind
    /\ cur_slab_idx = tk
    /\ Expired(tk)
    /\ next_timeout' = Cleared
    /\ cur_slab_idx' = slab[tk].next
    /\ remove_slab(tk)
    /\ UNCHANGED <<capacity, cur_wheel_tick, clock>>

\* Mutant: next_timeout becomes that of the last entry looked at.
Earliest_last(s, when) == IF s \in Slots THEN when ELSE None

\* next_timeout of slot s with an entry that stays in it.
Earliest(s, when) ==
    IF Cleared[s] = None \/ when <= Cleared[s] THEN when ELSE Cleared[s]

\* The entry is for a later round of the wheel.
Skip(tk) ==
    /\ Behind
    /\ cur_slab_idx = tk
    /\ ~Expired(tk)
    /\ next_timeout' = [Cleared EXCEPT ![slot] = Earliest(slot, slab[tk].when)]
    /\ cur_slab_idx' = slab[tk].next
    /\ UNCHANGED <<lists, capacity, cur_wheel_tick, clock>>

\* poll returns None.
EndPoll ==
    /\ polling
    /\ ~Behind
    /\ polling' = FALSE
    /\ UNCHANGED <<lists, next_timeout, capacity, cursor, now, polled>>

\* Time passes; within one poll `at' is fixed, so it matters only outside.
Pass ==
    /\ ~polling
    /\ now < MaxMs
    /\ now' = now + 1
    /\ UNCHANGED <<lists, next_timeout, capacity, cursor, polled, polling>>

WNext ==
    \/ \E task \in Tasks, d \in Durations : timer_reg(task, d)
    \/ \E tk \in Tokens : timer_cancel(tk) \/ Fire(tk) \/ Skip(tk)
    \/ BeginPoll \/ NextTick \/ EndPoll \/ Pass

WSpec == WInit /\ [][WNext]_wvars

=============================================================================
