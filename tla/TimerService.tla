---------------------------- MODULE TimerService ----------------------------
(***************************************************************************)
(* What the runner counts on from the timer wheel (wheel.rs), without the  *)
(* wheel.  A timer is armed for a tick of TickMs milliseconds: not before  *)
(* the tick of the instant it was asked for, and not later than that or    *)
(* than two ticks past the last poll.  A poll returns timers whose tick    *)
(* has come, in any order, and ends only when none of those is left.       *)
(***************************************************************************)
EXTENDS Naturals

CONSTANTS
    Tokens,     \* the tokens there are
    Tasks,      \* what a timer stands for: ids of fibers
    TickMs,     \* length of a tick
    Durations   \* timeouts that are asked for, in milliseconds

VARIABLES
    armed,      \* armed[tk]: the timer that holds tk, or Unarmed
    now,        \* the clock, in milliseconds since the wheel was made
    polled,     \* when the current or the last poll began
    polling     \* a poll is under way

svars == <<armed, now, polled, polling>>

Tick(ms) == ms \div TickMs

Unarmed == [task |-> 0, due |-> 0]

Init ==
    /\ armed = [tk \in Tokens |-> Unarmed]
    /\ now = 0
    /\ polled = 0
    /\ polling = FALSE

\* A timer is set on a free token.
Set(tk) ==
    /\ ~polling
    /\ armed[tk] = Unarmed
    /\ \E task \in Tasks, d \in Durations :
       \E due \in Tick(now + d) .. Tick(now + d) + Tick(polled) + 2 :
         /\ due > Tick(now + d) => due <= Tick(polled) + 2
         /\ armed' = [armed EXCEPT ![tk] = [task |-> task, due |-> due]]
    /\ UNCHANGED <<now, polled, polling>>

\* Whatever timer holds the token is gone.
Cancel(tk) ==
    /\ ~polling
    /\ armed' = [armed EXCEPT ![tk] = Unarmed]
    /\ UNCHANGED <<now, polled, polling>>

BeginPoll ==
    /\ ~polling
    /\ polling' = TRUE
    /\ polled' = now
    /\ UNCHANGED <<armed, now>>

Due(tk) == armed[tk] # Unarmed /\ armed[tk].due <= Tick(polled)

\* The poll returns the timer of tk.
Fire(tk) ==
    /\ polling
    /\ Due(tk)
    /\ armed' = [armed EXCEPT ![tk] = Unarmed]
    /\ UNCHANGED <<now, polled, polling>>

EndPoll ==
    /\ polling
    /\ \A tk \in Tokens : ~Due(tk)
    /\ polling' = FALSE
    /\ UNCHANGED <<armed, now, polled>>

Pass ==
    /\ now' > now
    /\ UNCHANGED <<armed, polled, polling>>

Next ==
    \/ \E tk \in Tokens : Set(tk) \/ Cancel(tk) \/ Fire(tk)
    \/ BeginPoll \/ EndPoll \/ Pass

Spec == Init /\ [][Next]_svars

=============================================================================
