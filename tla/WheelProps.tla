----------------------------- MODULE WheelProps -----------------------------
(***************************************************************************)
(* What should be true of the timer wheel, and the service it implements.  *)
(***************************************************************************)
EXTENDS Wheel

\* Every variable has its type.
WTypeOK ==
    /\ head \in [Slots -> Tokens \cup {None}]
    /\ next_timeout \in [Slots -> Nat]
    /\ slab \in [Tokens -> [task : Tasks \cup {None}, when : Nat,
                            wheel_idx : Slots, prev : Tokens \cup {None},
                            next : Tokens \cup {None}]]
    /\ vacant \in Seq(Tokens)
    /\ capacity \in InitialCapacity .. MaxCapacity
    /\ cur_wheel_tick \in Nat
    /\ cur_slab_idx \in Tokens \cup {None}
    /\ now \in Nat
    /\ polled \in Nat
    /\ polling \in BOOLEAN

\* The lists threaded through the slab are lists: heads have nothing before
\* them, next and prev are inverse and stay within the slot of the entry's
\* tick, and no entry on a list is free.  The cursor is on an entry of the
\* slot poll has got to, also after cancels between two polls.
ListsLinked ==
    /\ \A s \in Slots : head[s] # None =>
         Armed(head[s]) /\ slab[head[s]].wheel_idx = s /\ slab[head[s]].prev = None
    /\ \A tk \in Tokens : Armed(tk) =>
         LET e == slab[tk] IN
         /\ e.wheel_idx = ticks_to_wheel_idx(time_to_ticks(e.when))
         /\ e.prev = None => head[e.wheel_idx] = tk
         /\ e.prev # None => Armed(e.prev) /\ slab[e.prev].next = tk
         /\ e.next # None =>
              Armed(e.next) /\ slab[e.next].prev = tk
                            /\ slab[e.next].wheel_idx = e.wheel_idx
    /\ \A i \in DOMAIN vacant : ~Armed(vacant[i])
    /\ cur_slab_idx # None =>
         Armed(cur_slab_idx) /\ slab[cur_slab_idx].wheel_idx = slot

\* A slot with timers has a next_timeout, and none of them is earlier, once a
\* poll is over: the clearing and restoring in poll never leaves it too late.
NextTimeoutBounds ==
    ~polling => \A tk \in Tokens : Armed(tk) =>
       next_timeout[slab[tk].wheel_idx] \in 1 .. slab[tk].when

-----------------------------------------------------------------------------
\* The wheel is a timer service: no timer is returned before its tick, none
\* that is due is missed by a poll (whatever the order of the lists, cancels
\* under the cursor, or how many rounds of the wheel have passed), and every
\* one is armed for the tick asked for or the first that a poll can reach.
Service == INSTANCE TimerService WITH
    armed <- [tk \in Tokens |-> [task |-> slab[tk].task,
                                 due |-> time_to_ticks(slab[tk].when)]]

\* WSpec implements TimerService.
TimerServiceSpec == Service!Spec

=============================================================================
