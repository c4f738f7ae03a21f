---------------------------- MODULE RegistryProofs ----------------------------
(***************************************************************************)
(* The runners of a thread are kept apart, for any number of runners,      *)
(* slots, timers and bits of an id, and whatever the program does: it may  *)
(* drop busy runners, keep references for ever and make any number of      *)
(* fibers, and events and expiries may be queued for any slot any number   *)
(* of times.                                                               *)
(***************************************************************************)
EXTENDS Registry, Induction, FiniteSetTheorems

\* Every Runner has the position it was given to itself, and a position that
\* is taken belongs to one.
HandlesInv ==
    /\ runner \in [Positions -> Nat]
    /\ made \in Nat
    /\ handles \subseteq [pos : Positions, number : Nat \ {Null}]
    /\ HandlesValid
    /\ \A r \in Positions : runner[r] # Null => [pos |-> r, number |-> runner[r]] \in handles

-----------------------------------------------------------------------------
(* What is kept per runner, for vectors vec, runners run and dirty         *)
(* positions d.                                                            *)

Allocations == {0} \cup {Moves(n) : n \in Nat}
Slot ==
    [state : States, param : BOOLEAN, sock : BOOLEAN, connect_param : BOOLEAN,
     wtoken : {Null} \cup Tokens, seen : Allocations]
Entry == [pos : Nat, number : Nat]
Ref == [kind : Kinds, runner : Positions, pos : Nat, number : Nat, held : BOOLEAN]
Timer == [id : Nat, number : Nat]

\* Slot p is one of the runner at r, whose number is n.
Mine(run, vec, r, p, n) == n = run[r] /\ n # Null /\ p < Len(vec[r])

\* The vectors keep within MaxFibers, and the free lists name slots they have.
VectorOK(vec, free) ==
    /\ vec \in [Positions -> Seq(Slot)]
    /\ free \in [Positions -> Seq(Nat)]
    /\ \A r \in Positions :
         /\ Len(vec[r]) <= MaxFibers
         /\ \A i \in 1 .. Len(free[r]) : free[r][i] < Len(vec[r])

\* What is queued, set or referred to at a position that is not dirty is of the
\* runner that is there.
QueueOK(q, run, vec, d) ==
    /\ q \in [Positions -> Seq(Entry)]
    /\ \A r \in Positions : \A i \in 1 .. Len(q[r]) :
         r \notin d => Mine(run, vec, r, q[r][i].pos, q[r][i].number)

OfRunner(t, run, vec, d) ==
    \E r \in Positions, p \in 0 .. MaxFibers - 1 :
      /\ t.id = fiber_id(r, p)
      /\ r \notin d => Mine(run, vec, r, p, t.number)

WheelOK(w, run, vec, d) ==
    /\ w \in [Tokens -> {Nothing} \cup Timer]
    /\ \A tk \in Tokens : w[tk] # Nothing => OfRunner(w[tk], run, vec, d)

RefsOK(x, run, vec, d) ==
    /\ x \in [Places -> {Nothing} \cup Ref]
    /\ \A k \in Places :
         x[k] # Nothing /\ x[k].runner \notin d
           => Mine(run, vec, x[k].runner, x[k].pos, x[k].number)

\* run() is that of a Runner that is held, and a fiber runs in its vector.
LoopOK(l, run) ==
    /\ l \in {Nothing} \cup [pos : Positions, number : Nat, queue : {"toexec", "timedout"}]
    /\ l # Nothing => l.number = run[l.pos] /\ l.number # Null

CurOK(l, c, vec) ==
    c # NoFiber => l # Nothing /\ c \in Nat /\ c < Len(vec[l.pos])

FaultOK(f, d) == d = {} => f \notin {"index", "nowhere"}

\* The inductive invariant.
IsolationInv ==
    /\ HandlesInv
    /\ VectorOK(fibers, free_fibers)
    /\ QueueOK(toexec, runner, fibers, dirty)
    /\ QueueOK(timedout, runner, fibers, dirty)
    /\ WheelOK(wheel, runner, fibers, dirty)
    /\ RefsOK(refs, runner, fibers, dirty)
    /\ LoopOK(loop, runner)
    /\ CurOK(loop, cur, fibers)
    /\ FaultOK(fault, dirty)

-----------------------------------------------------------------------------
(* Handles.                                                                *)

\* find_empty gives out a position that nobody has.
LEMMA FindEmpty ==
  ASSUME find_empty # -1
  PROVE  find_empty \in Positions /\ runner[find_empty] = Null
<1> DEFINE empty == {r \in Positions : runner[r] = Null}
<1>1. empty \in SUBSET Nat
  BY RegistryAssumption DEF Positions
<1>2. empty # {} /\ find_empty = Min(empty)
  BY Zenon DEF find_empty
<1>3. Min(empty) \in empty
  BY <1>1, <1>2, MinIsLeast
<1> QED BY <1>2, <1>3, Zenon

\* Runner::new puts the new runner at a position of its own.
LEMMA NewRunnerHandles ==
  ASSUME HandlesInv, NewRunner
  PROVE  HandlesInv'
<1> DEFINE e == find_empty
           h == [pos |-> e, number |-> made + 1]
<1>1. e \in Positions /\ runner[e] = Null
  BY FindEmpty DEF NewRunner
<1>2. /\ made' = made + 1
      /\ runner' = [runner EXCEPT ![e] = made + 1]
      /\ handles' = handles \cup {h}
  BY Zenon DEF NewRunner
<1> HIDE DEF e
<1>3. made + 1 \in Nat \ {Null}
  BY DEF HandlesInv, Null
<1>4. runner' \in [Positions -> Nat] /\ made' \in Nat
  BY <1>1, <1>2, <1>3 DEF HandlesInv
<1>5. handles' \subseteq [pos : Positions, number : Nat \ {Null}]
  BY <1>1, <1>2, <1>3 DEF HandlesInv
<1>6. HandlesValid'
  <2> SUFFICES ASSUME NEW g \in handles' PROVE runner'[g.pos] = g.number
    BY DEF HandlesValid
  <2>1. CASE g = h
    BY <1>1, <1>2, <2>1 DEF HandlesInv
  <2>2. CASE g \in handles
    <3>1. g.pos \in Positions /\ runner[g.pos] = g.number /\ g.number # Null
      BY <2>2 DEF HandlesInv, HandlesValid
    <3>2. g.pos # e
      BY <1>1, <3>1
    <3> QED BY <1>1, <1>2, <3>1, <3>2 DEF HandlesInv
  <2> QED BY <1>2, <2>1, <2>2
<1>7. \A r \in Positions :
        runner'[r] # Null => [pos |-> r, number |-> runner'[r]] \in handles'
  <2> TAKE r \in Positions
  <2>1. CASE r = e
    BY <1>1, <1>2, <2>1 DEF HandlesInv
  <2>2. CASE r # e
    <3>1. runner'[r] = runner[r]
      BY <1>1, <1>2, <2>2 DEF HandlesInv
    <3> QED BY <1>2, <3>1 DEF HandlesInv
  <2> QED BY <2>1, <2>2
<1> QED BY <1>4, <1>5, <1>6, <1>7, Zenon DEF HandlesInv

\* Dropping a Runner takes its own position from it, and no other's.
LEMMA DropRunnerHandles ==
  ASSUME HandlesInv, NEW h \in handles, DropRunner(h)
  PROVE  HandlesInv'
<1>1. /\ handles' = handles \ {h} /\ made' = made
      /\ runner' = [runner EXCEPT ![h.pos] = Null]
  BY DEF DropRunner
<1>2. /\ h \in [pos : Positions, number : Nat \ {Null}]
      /\ runner[h.pos] = h.number
  BY DEF HandlesInv, HandlesValid
<1>3. runner' \in [Positions -> Nat] /\ made' \in Nat
  BY <1>1, <1>2 DEF HandlesInv, Null
<1>4. HandlesValid'
  <2> SUFFICES ASSUME NEW g \in handles' PROVE runner'[g.pos] = g.number
    BY DEF HandlesValid
  <2>1. /\ g \in handles /\ g # h /\ runner[g.pos] = g.number
        /\ g \in [pos : Positions, number : Nat \ {Null}]
    BY <1>1 DEF HandlesInv, HandlesValid
  <2>2. g.pos # h.pos
    BY <1>2, <2>1
  <2> QED BY <1>1, <1>2, <2>1, <2>2 DEF HandlesInv
<1>5. \A r \in Positions :
        runner'[r] # Null => [pos |-> r, number |-> runner'[r]] \in handles'
  <2> TAKE r \in Positions
  <2>1. CASE r = h.pos
    BY <1>1, <1>2, <2>1 DEF HandlesInv
  <2>2. CASE r # h.pos
    <3>1. runner'[r] = runner[r]
      BY <1>1, <1>2, <2>2 DEF HandlesInv
    <3>2. [pos |-> r, number |-> runner[r]] # h
      BY <2>2
    <3> QED BY <1>1, <3>1, <3>2 DEF HandlesInv
  <2> QED BY <2>1, <2>2
<1>6. handles' \subseteq [pos : Positions, number : Nat \ {Null}]
  BY <1>1 DEF HandlesInv
<1> QED BY <1>3, <1>4, <1>5, <1>6, Zenon DEF HandlesInv

LEMMA HandlesKept ==
  ASSUME HandlesInv, UNCHANGED runners
  PROVE  HandlesInv'
  BY Zenon DEF HandlesInv, HandlesValid, runners

LEMMA HandlesInit == GInit => HandlesInv
<1> SUFFICES ASSUME GInit PROVE HandlesInv
  OBVIOUS
<1>1. runner = [r \in Positions |-> Null] /\ made = 0 /\ handles = {}
  BY DEF GInit
<1> QED BY <1>1 DEF HandlesInv, HandlesValid, Null

LEMMA HandlesStep == HandlesInv /\ [GNext]_gvars => HandlesInv'
<1> SUFFICES ASSUME HandlesInv, [GNext]_gvars PROVE HandlesInv'
  OBVIOUS
<1>1. CASE NewRunner
  BY <1>1, NewRunnerHandles
<1>2. CASE \E h \in handles : DropRunner(h)
  BY <1>2, DropRunnerHandles
<1>3. CASE UNCHANGED runners
  BY <1>3, HandlesKept
<1>4. NewRunner \/ (\E h \in handles : DropRunner(h)) \/ UNCHANGED runners
  BY Zenon DEF GNext, gvars, NewPoller, DropPoller, NewFiber, NewLookup, NewTimer, PollEvent,
     PollTimer, BeginRun, EndLoop, Run, IndexPanics, Execute, NoAddress, HasAddress, StepInto,
     StaleTimer, LookupTick, TimerWakes, StepsOut, Blocks, Waits, Chunks, Joins, Returns,
     GetFiber, Uses, Dangles, ResumeFiber, DropTimerRef
<1> QED BY <1>1, <1>2, <1>3, <1>4

\* Every Runner that the program holds leads to the runner it was made with,
\* for any number of positions and of runners that come and go, also when
\* runners are dropped that have fibers under way.
THEOREM HandlesAlwaysValid == GSpec => []HandlesValid
<1>1. HandlesInv => HandlesValid
  BY DEF HandlesInv
<1> QED BY <1>1, HandlesInit, HandlesStep, PTL DEF GSpec

-----------------------------------------------------------------------------
(* Ids.                                                                    *)

LEMMA Units ==
  /\ MaxRunners \in Nat /\ MaxRunners <= 128
  /\ PosUnit \in Nat /\ PosUnit > 0 /\ RunnerUnit \in Nat
  /\ MaxFibers \in Nat /\ MaxFibers <= PosUnit /\ PosUnit <= RunnerUnit
  /\ \E k \in Nat : RunnerUnit = k * PosUnit
  /\ FirstCapacity \in Nat /\ FirstCapacity > 0
<1>1. PICK k \in 1 .. RunnerUnit : RunnerUnit = k * PosUnit
  BY RegistryAssumption
<1>2. k \in Nat /\ k >= 1 /\ PosUnit \in Nat /\ RunnerUnit \in Nat
  BY RegistryAssumption
<1>3. PosUnit <= RunnerUnit
  BY <1>1, <1>2
<1> QED BY <1>1, <1>2, <1>3, RegistryAssumption

\* Division, as the shift and the mask of an id need it.
LEMMA Divides ==
  ASSUME NEW u \in Nat, u > 0, NEW q \in Nat, NEW p \in Nat, p < u
  PROVE  (p + q * u) \div u = q /\ (p + q * u) % u = p
  OBVIOUS

\* What was packed into an id is what split_id finds.
LEMMA SplitId ==
  ASSUME NEW r \in Positions, NEW p \in 0 .. MaxFibers - 1
  PROVE  split_id(fiber_id(r, p)) = <<r, p>>
<1>1. r \in Nat /\ r < 256 /\ p \in Nat /\ p < PosUnit /\ p < RunnerUnit
  BY Units DEF Positions
<1>2. PICK k \in Nat : RunnerUnit = k * PosUnit
  BY Units
<1> DEFINE id == p + r * RunnerUnit
<1>3. id \div RunnerUnit = r
  BY <1>1, Units, Divides
<1>4. id % PosUnit = p
  <2>1. r * k \in Nat /\ r * (k * PosUnit) = (r * k) * PosUnit
    BY <1>1, Units
  <2>2. id = p + (r * k) * PosUnit
    BY <1>2, <2>1
  <2> HIDE DEF id
  <2> QED BY <1>1, <2>1, <2>2, Units, Divides
<1>5. r % 256 = r
  BY <1>1
<1>6. fiber_id(r, p) = id
  BY DEF fiber_id
<1> HIDE DEF id
<1>7. split_id(id) = <<r % 256, p>>
  BY <1>3, <1>4, Zenon DEF split_id
<1> QED BY <1>5, <1>6, <1>7, Zenon

-----------------------------------------------------------------------------
(* Vectors that only grow: nothing that was of a runner ceases to be.      *)

Grown(vec, vec2) == \A r \in Positions : Len(vec[r]) <= Len(vec2[r])

LEMMA Lengths ==
  ASSUME NEW vec, NEW free, VectorOK(vec, free), NEW r \in Positions
  PROVE  /\ vec[r] \in Seq(Slot) /\ Len(vec[r]) \in Nat /\ Len(vec[r]) <= MaxFibers
         /\ free[r] \in Seq(Nat) /\ Len(free[r]) \in Nat
  BY DEF VectorOK

LEMMA MineGrows ==
  ASSUME NEW run, NEW vec, NEW free, NEW vec2, NEW free2,
         VectorOK(vec, free), VectorOK(vec2, free2), Grown(vec, vec2),
         NEW r \in Positions, NEW p \in Nat, NEW n, Mine(run, vec, r, p, n)
  PROVE  Mine(run, vec2, r, p, n)
<1>1. Len(vec[r]) \in Nat /\ Len(vec2[r]) \in Nat
  BY Lengths
<1>2. Len(vec[r]) <= Len(vec2[r])
  BY DEF Grown
<1>3. n = run[r] /\ n # Null /\ p < Len(vec[r])
  BY DEF Mine
<1>4. p < Len(vec2[r])
  BY <1>1, <1>2, <1>3
<1> QED BY <1>3, <1>4 DEF Mine

LEMMA QueueGrows ==
  ASSUME NEW run, NEW vec, NEW free, NEW vec2, NEW free2, NEW d, NEW q,
         VectorOK(vec, free), VectorOK(vec2, free2), Grown(vec, vec2),
         QueueOK(q, run, vec, d)
  PROVE  QueueOK(q, run, vec2, d)
<1>1. q \in [Positions -> Seq(Entry)]
  BY DEF QueueOK
<1> SUFFICES ASSUME NEW r \in Positions, NEW i \in 1 .. Len(q[r]), r \notin d
             PROVE  Mine(run, vec2, r, q[r][i].pos, q[r][i].number)
  BY <1>1 DEF QueueOK
<1>2. q[r] \in Seq(Entry)
  BY <1>1
<1>3. q[r][i] \in Entry
  BY <1>2, ElementOfSeq
<1>4. q[r][i].pos \in Nat
  BY <1>3 DEF Entry
<1>5. Mine(run, vec, r, q[r][i].pos, q[r][i].number)
  BY DEF QueueOK
<1> QED BY <1>4, <1>5, MineGrows

LEMMA WheelGrows ==
  ASSUME NEW run, NEW vec, NEW free, NEW vec2, NEW free2, NEW d, NEW w,
         VectorOK(vec, free), VectorOK(vec2, free2), Grown(vec, vec2),
         WheelOK(w, run, vec, d)
  PROVE  WheelOK(w, run, vec2, d)
<1> SUFFICES ASSUME NEW tk \in Tokens, w[tk] # Nothing
             PROVE  OfRunner(w[tk], run, vec2, d)
  BY Zenon DEF WheelOK
<1>1. OfRunner(w[tk], run, vec, d)
  BY Zenon DEF WheelOK
<1>2. PICK r \in Positions, p \in 0 .. MaxFibers - 1 :
        /\ w[tk].id = fiber_id(r, p)
        /\ r \notin d => Mine(run, vec, r, p, w[tk].number)
  BY <1>1, Zenon DEF OfRunner
<1>3. p \in Nat
  BY Units
<1>4. r \notin d => Mine(run, vec2, r, p, w[tk].number)
  BY <1>2, <1>3, MineGrows
<1> QED BY <1>2, <1>4, Zenon DEF OfRunner

LEMMA RefsGrow ==
  ASSUME NEW run, NEW vec, NEW free, NEW vec2, NEW free2, NEW d, NEW x,
         VectorOK(vec, free), VectorOK(vec2, free2), Grown(vec, vec2),
         RefsOK(x, run, vec, d)
  PROVE  RefsOK(x, run, vec2, d)
<1>1. x \in [Places -> {Nothing} \cup Ref]
  BY DEF RefsOK
<1> SUFFICES ASSUME NEW k \in Places, x[k] # Nothing, x[k].runner \notin d
             PROVE  Mine(run, vec2, x[k].runner, x[k].pos, x[k].number)
  BY <1>1, Zenon DEF RefsOK
<1>2. x[k] \in Ref
  BY <1>1
<1>3. x[k].runner \in Positions /\ x[k].pos \in Nat
  BY <1>2 DEF Ref
<1>4. Mine(run, vec, x[k].runner, x[k].pos, x[k].number)
  BY Zenon DEF RefsOK
<1> QED BY <1>3, <1>4, MineGrows

\* All that refers to a vector is right of the vector it grows to.
LEMMA AllGrow ==
  ASSUME NEW vec2, NEW free2, VectorOK(vec2, free2), Grown(fibers, vec2), IsolationInv
  PROVE  /\ QueueOK(toexec, runner, vec2, dirty)
         /\ QueueOK(timedout, runner, vec2, dirty)
         /\ WheelOK(wheel, runner, vec2, dirty)
         /\ RefsOK(refs, runner, vec2, dirty)
         /\ CurOK(loop, cur, vec2)
<1>1. VectorOK(fibers, free_fibers)
  BY DEF IsolationInv
<1>2. QueueOK(toexec, runner, vec2, dirty) /\ QueueOK(timedout, runner, vec2, dirty)
  BY <1>1, QueueGrows DEF IsolationInv
<1>3. WheelOK(wheel, runner, vec2, dirty)
  BY <1>1, WheelGrows DEF IsolationInv
<1>4. RefsOK(refs, runner, vec2, dirty)
  BY <1>1, RefsGrow DEF IsolationInv
<1>5. CurOK(loop, cur, vec2)
  <2> SUFFICES ASSUME cur # NoFiber
               PROVE  loop # Nothing /\ cur \in Nat /\ cur < Len(vec2[loop.pos])
    BY DEF CurOK
  <2>1. loop # Nothing /\ cur \in Nat /\ cur < Len(fibers[loop.pos])
    BY DEF IsolationInv, CurOK
  <2>2. loop.pos \in Positions
    BY <2>1 DEF IsolationInv, LoopOK
  <2>3. /\ Len(fibers[loop.pos]) \in Nat /\ Len(vec2[loop.pos]) \in Nat
        /\ Len(fibers[loop.pos]) <= Len(vec2[loop.pos])
    BY <1>1, <2>2, Lengths DEF Grown
  <2> QED BY <2>1, <2>3
<1> QED BY <1>2, <1>3, <1>4, <1>5

-----------------------------------------------------------------------------
(* What the operations do to a queue, the wheel, the references and the    *)
(* vectors.                                                                *)

LEMMA QueuePush ==
  ASSUME NEW run, NEW vec, NEW d, NEW q, QueueOK(q, run, vec, d),
         NEW s \in Positions, NEW p \in Nat, NEW n \in Nat,
         s \notin d => Mine(run, vec, s, p, n)
  PROVE  QueueOK(Pushed(q, s, p, n), run, vec, d)
<1> DEFINE e == [pos |-> p, number |-> n]
           t == Append(q[s], e)
           q2 == [q EXCEPT ![s] = t]
<1>1. q \in [Positions -> Seq(Entry)] /\ e \in Entry /\ e.pos = p /\ e.number = n
  BY DEF QueueOK, Entry
<1>2. q[s] \in Seq(Entry)
  BY <1>1
<1>3. /\ t \in Seq(Entry) /\ Len(t) = Len(q[s]) + 1 /\ t[Len(q[s]) + 1] = e
      /\ \A i \in 1 .. Len(q[s]) : t[i] = q[s][i]
  BY <1>1, <1>2, AppendProperties
<1>4. Pushed(q, s, p, n) = q2
  BY DEF Pushed
<1> HIDE DEF t, e
<1>5. q2 \in [Positions -> Seq(Entry)]
  BY <1>1, <1>3
<1>6. ASSUME NEW r \in Positions, NEW i \in 1 .. Len(q2[r]), r \notin d
      PROVE  Mine(run, vec, r, q2[r][i].pos, q2[r][i].number)
  <2>1. CASE r = s
    <3>1. q2[r] = t
      BY <1>1, <2>1
    <3>2. Len(q[s]) \in Nat
      BY <1>2
    <3>3. CASE i = Len(q[s]) + 1
      BY <1>1, <1>3, <1>6, <2>1, <3>1, <3>3
    <3>4. CASE i # Len(q[s]) + 1
      <4>1. i \in 1 .. Len(q[s]) /\ q2[r][i] = q[r][i]
        BY <1>3, <2>1, <3>1, <3>2, <3>4
      <4> QED BY <1>6, <2>1, <4>1 DEF QueueOK
    <3> QED BY <3>3, <3>4
  <2>2. CASE r # s
    <3>1. q2[r] = q[r]
      BY <1>1, <2>2
    <3> HIDE DEF q2
    <3> QED BY <1>6, <3>1 DEF QueueOK
  <2> QED BY <2>1, <2>2
<1> HIDE DEF q2
<1> QED BY <1>4, <1>5, <1>6 DEF QueueOK

LEMMA QueuePop ==
  ASSUME NEW run, NEW vec, NEW d, NEW q, QueueOK(q, run, vec, d),
         NEW s \in Positions, q[s] # <<>>
  PROVE  /\ QueueOK([q EXCEPT ![s] = Tail(@)], run, vec, d)
         /\ Head(q[s]).pos \in Nat
         /\ s \notin d => Mine(run, vec, s, Head(q[s]).pos, Head(q[s]).number)
<1> DEFINE t == Tail(q[s])
           q2 == [q EXCEPT ![s] = t]
<1>1. q \in [Positions -> Seq(Entry)]
  BY DEF QueueOK
<1>2. q[s] \in Seq(Entry)
  BY <1>1
<1>3. /\ t \in Seq(Entry) /\ Len(q[s]) \in Nat /\ Len(q[s]) > 0 /\ Len(t) = Len(q[s]) - 1
      /\ \A i \in 1 .. Len(t) : t[i] = q[s][i + 1]
  BY <1>2, HeadTailProperties, LenProperties, EmptySeq
<1>4. Head(q[s]) = q[s][1] /\ 1 \in 1 .. Len(q[s]) /\ q[s][1] \in Entry
  BY <1>2, <1>3, HeadTailProperties, ElementOfSeq
<1>5. Head(q[s]).pos \in Nat
  BY <1>4 DEF Entry
<1>6. s \notin d => Mine(run, vec, s, Head(q[s]).pos, Head(q[s]).number)
  BY <1>4 DEF QueueOK
<1> HIDE DEF t
<1>7. q2 \in [Positions -> Seq(Entry)]
  BY <1>1, <1>3
<1>8. ASSUME NEW r \in Positions, NEW i \in 1 .. Len(q2[r]), r \notin d
      PROVE  Mine(run, vec, r, q2[r][i].pos, q2[r][i].number)
  <2>1. CASE r = s
    <3>1. q2[r] = t
      BY <1>1, <2>1
    <3>2. i + 1 \in 1 .. Len(q[r]) /\ q2[r][i] = q[r][i + 1]
      BY <1>3, <2>1, <3>1
    <3> QED BY <1>8, <3>2 DEF QueueOK
  <2>2. CASE r # s
    <3>1. q2[r] = q[r]
      BY <1>1, <2>2
    <3> HIDE DEF q2
    <3> QED BY <1>8, <3>1 DEF QueueOK
  <2> QED BY <2>1, <2>2
<1>9. [q EXCEPT ![s] = Tail(@)] = q2
  BY DEF t
<1> HIDE DEF q2
<1> QED BY <1>5, <1>6, <1>7, <1>8, <1>9 DEF QueueOK

LEMMA WheelCancel ==
  ASSUME NEW run, NEW vec, NEW d, NEW w, WheelOK(w, run, vec, d), NEW tk
  PROVE  WheelOK(timer_cancel(w, tk), run, vec, d)
<1> DEFINE w2 == timer_cancel(w, tk)
<1>1. w \in [Tokens -> {Nothing} \cup Timer]
  BY DEF WheelOK
<1>2. /\ w2 \in [Tokens -> {Nothing} \cup Timer]
      /\ \A t \in Tokens : w2[t] = w[t] \/ w2[t] = Nothing
  BY <1>1 DEF timer_cancel
<1> HIDE DEF w2
<1>3. \A t \in Tokens : w2[t] # Nothing => OfRunner(w2[t], run, vec, d)
  BY <1>2, Zenon DEF WheelOK
<1> QED BY <1>2, <1>3, Zenon DEF WheelOK, w2

LEMMA WheelReg ==
  ASSUME NEW run, NEW vec, NEW d, NEW w, WheelOK(w, run, vec, d),
         NEW tk \in {Null} \cup Tokens, NEW s \in Positions, NEW p \in 0 .. MaxFibers - 1,
         NEW n \in Nat, s \notin d => Mine(run, vec, s, p, n)
  PROVE  WheelOK(timer_reg(w, tk, s, p, n), run, vec, d)
<1> DEFINE e == [id |-> fiber_id(s, p), number |-> n]
           w2 == timer_reg(w, tk, s, p, n)
<1>1. w \in [Tokens -> {Nothing} \cup Timer]
  BY DEF WheelOK
<1>2. fiber_id(s, p) \in Nat
  <2>1. s \in Nat /\ p \in Nat /\ RunnerUnit \in Nat
    BY Units DEF Positions
  <2>2. s * RunnerUnit \in Nat
    BY <2>1
  <2> QED BY <2>1, <2>2 DEF fiber_id
<1>3. e \in Timer /\ e.id = fiber_id(s, p) /\ e.number = n
  BY <1>2 DEF Timer
<1>4. w2 = IF tk = Null THEN w ELSE [w EXCEPT ![tk] = e]
  BY DEF timer_reg
<1> HIDE DEF w2, e
<1>5. /\ w2 \in [Tokens -> {Nothing} \cup Timer]
      /\ \A t \in Tokens : w2[t] = w[t] \/ w2[t] = e
  BY <1>1, <1>3, <1>4
<1>6. OfRunner(e, run, vec, d)
  BY <1>3, Zenon DEF OfRunner
<1>7. \A t \in Tokens : w2[t] # Nothing => OfRunner(w2[t], run, vec, d)
  BY <1>5, <1>6, Zenon DEF WheelOK
<1> QED BY <1>5, <1>7, Zenon DEF WheelOK, w2

\* A reference that is put, taken away or fetched.
LEMMA RefsPut ==
  ASSUME NEW run, NEW vec, NEW d, NEW x, RefsOK(x, run, vec, d), NEW k \in Places,
         NEW v \in {Nothing} \cup Ref,
         v # Nothing /\ v.runner \notin d => Mine(run, vec, v.runner, v.pos, v.number)
  PROVE  RefsOK([x EXCEPT ![k] = v], run, vec, d)
<1> DEFINE x2 == [x EXCEPT ![k] = v]
<1>1. x \in [Places -> {Nothing} \cup Ref]
  BY DEF RefsOK
<1>2. x2 \in [Places -> {Nothing} \cup Ref] /\ \A j \in Places : x2[j] = x[j] \/ x2[j] = v
  BY <1>1
<1> HIDE DEF x2
<1>3. ASSUME NEW j \in Places, x2[j] # Nothing, x2[j].runner \notin d
      PROVE  Mine(run, vec, x2[j].runner, x2[j].pos, x2[j].number)
  BY <1>2, <1>3, Zenon DEF RefsOK
<1> QED BY <1>2, <1>3, Zenon DEF RefsOK, x2

LEMMA VecUpdate ==
  ASSUME NEW vec, NEW free, VectorOK(vec, free), NEW s \in Positions, NEW p \in Nat,
         p < Len(vec[s]), NEW f \in Slot
  PROVE  /\ VectorOK([vec EXCEPT ![s][p + 1] = f], free)
         /\ Grown(vec, [vec EXCEPT ![s][p + 1] = f])
<1> DEFINE t == [vec[s] EXCEPT ![p + 1] = f]
           v == [vec EXCEPT ![s] = t]
<1>1. vec \in [Positions -> Seq(Slot)] /\ free \in [Positions -> Seq(Nat)]
  BY DEF VectorOK
<1>2. vec[s] \in Seq(Slot) /\ Len(vec[s]) \in Nat
  BY Lengths
<1>3. p + 1 \in 1 .. Len(vec[s])
  BY <1>2
<1>4. t \in Seq(Slot) /\ Len(t) = Len(vec[s])
  BY <1>2, <1>3, ExceptSeq
<1>5. [vec EXCEPT ![s][p + 1] = f] = v
  BY <1>1
<1> HIDE DEF t
<1>6. v \in [Positions -> Seq(Slot)] /\ \A r \in Positions : Len(v[r]) = Len(vec[r])
  BY <1>1, <1>4
<1> HIDE DEF v
<1>7. VectorOK(v, free)
  BY <1>1, <1>6 DEF VectorOK
<1>8. Grown(vec, v)
  <2> SUFFICES ASSUME NEW r \in Positions PROVE Len(vec[r]) <= Len(v[r])
    BY DEF Grown
  <2>1. Len(vec[r]) \in Nat
    BY Lengths
  <2> QED BY <1>6, <2>1
<1> QED BY <1>5, <1>7, <1>8

LEMMA VecFree ==
  ASSUME NEW vec, NEW free, VectorOK(vec, free), NEW s \in Positions, NEW p \in Nat,
         p < Len(vec[s])
  PROVE  VectorOK(vec, [free EXCEPT ![s] = Append(@, p)])
<1> DEFINE t == Append(free[s], p)
           g == [free EXCEPT ![s] = t]
<1>1. vec \in [Positions -> Seq(Slot)] /\ free \in [Positions -> Seq(Nat)]
  BY DEF VectorOK
<1>2. free[s] \in Seq(Nat) /\ Len(free[s]) \in Nat
  BY Lengths
<1>3. /\ t \in Seq(Nat) /\ Len(t) = Len(free[s]) + 1 /\ t[Len(free[s]) + 1] = p
      /\ \A i \in 1 .. Len(free[s]) : t[i] = free[s][i]
  BY <1>2, AppendProperties
<1>4. [free EXCEPT ![s] = Append(@, p)] = g
  OBVIOUS
<1> HIDE DEF t
<1>5. g \in [Positions -> Seq(Nat)]
  BY <1>1, <1>3
<1>6. ASSUME NEW r \in Positions, NEW i \in 1 .. Len(g[r])
      PROVE  g[r][i] < Len(vec[r])
  <2>1. CASE r = s
    <3>1. g[r] = t
      BY <1>1, <2>1
    <3>2. i = Len(free[s]) + 1 \/ i \in 1 .. Len(free[s])
      BY <1>2, <1>3, <3>1
    <3> QED BY <1>3, <2>1, <3>1, <3>2 DEF VectorOK
  <2>2. CASE r # s
    BY <1>1, <2>2 DEF VectorOK
  <2> QED BY <2>1, <2>2
<1> HIDE DEF g
<1>7. \A r \in Positions : Len(vec[r]) <= MaxFibers
  BY DEF VectorOK
<1> QED BY <1>1, <1>4, <1>5, <1>6, <1>7 DEF VectorOK

\* register() gives out a slot of the vector, which may be one longer then.
LEMMA Registers ==
  ASSUME VectorOK(fibers, free_fibers), NEW s \in Positions, NEW f \in Slot, register(s, f)
  PROVE  /\ VectorOK(fibers', free_fibers')
         /\ Grown(fibers, fibers')
         /\ NewSlot(s) \in 0 .. MaxFibers - 1
         /\ NewSlot(s) < Len(fibers'[s])
<1> DEFINE p == NewSlot(s)
           t == IF p = Len(fibers[s]) THEN Append(fibers[s], f)
                                      ELSE [fibers[s] EXCEPT ![p + 1] = f]
           u == IF free_fibers[s] # <<>> THEN Tail(free_fibers[s]) ELSE free_fibers[s]
<1>1. fibers \in [Positions -> Seq(Slot)] /\ free_fibers \in [Positions -> Seq(Nat)]
  BY DEF VectorOK
<1>2. /\ fibers[s] \in Seq(Slot) /\ Len(fibers[s]) \in Nat
      /\ free_fibers[s] \in Seq(Nat) /\ Len(free_fibers[s]) \in Nat
  BY Lengths
<1>3. /\ p < MaxFibers
      /\ fibers' = [fibers EXCEPT ![s] = t]
      /\ free_fibers' = [free_fibers EXCEPT ![s] = u]
  BY DEF register
<1>4. p \in Nat /\ p <= Len(fibers[s])
  <2>1. CASE free_fibers[s] = <<>>
    BY <1>2, <2>1 DEF NewSlot
  <2>2. CASE free_fibers[s] # <<>>
    <3>1. Len(free_fibers[s]) > 0
      BY <1>2, <2>2, EmptySeq
    <3>2. 1 \in 1 .. Len(free_fibers[s]) /\ p = free_fibers[s][1]
      BY <1>2, <2>2, <3>1, HeadTailProperties DEF NewSlot
    <3>3. p \in Nat /\ p < Len(fibers[s])
      BY <1>2, <3>2, ElementOfSeq DEF VectorOK
    <3> QED BY <1>2, <3>3
  <2> QED BY <2>1, <2>2
<1> HIDE DEF p
<1>5. /\ t \in Seq(Slot) /\ Len(t) \in Nat /\ Len(fibers[s]) <= Len(t) /\ p < Len(t)
      /\ Len(t) <= MaxFibers
  <2>1. CASE p = Len(fibers[s])
    <3>1. t = Append(fibers[s], f)
      BY <2>1
    <3>2. t \in Seq(Slot) /\ Len(t) = Len(fibers[s]) + 1
      BY <1>2, <3>1, AppendProperties
    <3> HIDE DEF t
    <3> QED BY <1>2, <1>3, <2>1, <3>2, Units
  <2>2. CASE p # Len(fibers[s])
    <3>1. t = [fibers[s] EXCEPT ![p + 1] = f] /\ p + 1 \in 1 .. Len(fibers[s])
      BY <1>2, <1>4, <2>2
    <3>2. t \in Seq(Slot) /\ Len(t) = Len(fibers[s])
      BY <1>2, <3>1, ExceptSeq
    <3>3. Len(fibers[s]) <= MaxFibers
      BY Lengths
    <3> HIDE DEF t
    <3> QED BY <1>2, <1>4, <2>2, <3>2, <3>3
  <2> QED BY <2>1, <2>2
<1>6. u \in Seq(Nat) /\ \A i \in 1 .. Len(u) : u[i] < Len(fibers[s]) /\ u[i] \in Nat
  <2>1. CASE free_fibers[s] = <<>>
    BY <1>2, <2>1, ElementOfSeq DEF VectorOK
  <2>2. CASE free_fibers[s] # <<>>
    <3>1. /\ u \in Seq(Nat) /\ Len(u) = Len(free_fibers[s]) - 1
          /\ \A i \in 1 .. Len(u) : u[i] = free_fibers[s][i + 1]
      BY <1>2, <2>2, HeadTailProperties
    <3> HIDE DEF u
    <3>2. \A i \in 1 .. Len(u) : i + 1 \in 1 .. Len(free_fibers[s])
      BY <1>2, <3>1
    <3> QED BY <1>2, <3>1, <3>2, ElementOfSeq DEF VectorOK
  <2> QED BY <2>1, <2>2
<1> HIDE DEF t, u
<1>7. /\ fibers' \in [Positions -> Seq(Slot)] /\ fibers'[s] = t
      /\ \A r \in Positions : r # s => fibers'[r] = fibers[r]
  BY <1>1, <1>3, <1>5
<1>8. /\ free_fibers' \in [Positions -> Seq(Nat)] /\ free_fibers'[s] = u
      /\ \A r \in Positions : r # s => free_fibers'[r] = free_fibers[r]
  BY <1>1, <1>3, <1>6
<1>9. ASSUME NEW r \in Positions
      PROVE  /\ Len(fibers[r]) <= Len(fibers'[r]) /\ Len(fibers'[r]) <= MaxFibers
             /\ \A i \in 1 .. Len(free_fibers'[r]) : free_fibers'[r][i] < Len(fibers'[r])
  <2>1. CASE r = s
    <3>1. \A i \in 1 .. Len(u) : u[i] < Len(t)
      BY <1>2, <1>5, <1>6
    <3> QED BY <1>5, <1>7, <1>8, <2>1, <3>1
  <2>2. CASE r # s
    <3>1. Len(fibers[r]) \in Nat
      BY Lengths
    <3> QED BY <1>7, <1>8, <2>2, <3>1 DEF VectorOK
  <2> QED BY <2>1, <2>2
<1>10. VectorOK(fibers', free_fibers')
  BY <1>7, <1>8, <1>9 DEF VectorOK
<1>11. Grown(fibers, fibers')
  BY <1>9 DEF Grown
<1>12. p \in 0 .. MaxFibers - 1 /\ p < Len(fibers'[s])
  BY <1>3, <1>4, <1>5, <1>7, Units
<1> QED BY <1>10, <1>11, <1>12 DEF p

\* What the slot of a fiber that goes on becomes.
LEMMA SlotTypes ==
  ASSUME NEW f \in Slot, NEW state \in States, NEW a \in BOOLEAN,
         NEW tk \in {Null} \cup Tokens, NEW n \in Allocations
  PROVE  [f EXCEPT !.state = state, !.param = a, !.wtoken = tk, !.seen = n] \in Slot
  BY DEF Slot

LEMMA SlotFields ==
  ASSUME NEW f \in Slot
  PROVE  /\ f.wtoken \in {Null} \cup Tokens /\ f.seen \in Allocations
         /\ f.sock \in BOOLEAN /\ f.connect_param \in BOOLEAN /\ f.param \in BOOLEAN
         /\ f.state \in States
  BY DEF Slot

\* A slot of the runner at s.
LEMMA SlotAt ==
  ASSUME IsolationInv, NEW s \in Positions, NEW p \in Nat, There(s, p)
  PROVE  fibers[s][p + 1] \in Slot /\ p \in 0 .. MaxFibers - 1
<1>1. /\ fibers[s] \in Seq(Slot) /\ Len(fibers[s]) \in Nat /\ Len(fibers[s]) <= MaxFibers
      /\ p < Len(fibers[s])
  BY Lengths DEF IsolationInv, There
<1>2. p + 1 \in 1 .. Len(fibers[s])
  BY <1>1
<1> QED BY <1>1, <1>2, Units, ElementOfSeq

LEMMA AllocationAt ==
  ASSUME IsolationInv, NEW s \in Positions
  PROVE  Allocation(s) \in Allocations
<1>1. Len(fibers[s]) \in Nat
  BY Lengths DEF IsolationInv
<1> QED BY <1>1, Zenon DEF Allocation, Allocations

\* timer_reg returns a token or none.
LEMMA ReservedTokens ==
  ASSUME NEW w
  PROVE  Reserved(w) \subseteq {Null} \cup Tokens
  BY DEF Reserved

-----------------------------------------------------------------------------
(* The steps that leave the runners as they are.                           *)

LEMMA Together ==
  ASSUME IsolationInv, UNCHANGED <<runners, dirty>>,
         VectorOK(fibers', free_fibers'),
         QueueOK(toexec', runner, fibers', dirty),
         QueueOK(timedout', runner, fibers', dirty),
         WheelOK(wheel', runner, fibers', dirty),
         RefsOK(refs', runner, fibers', dirty),
         LoopOK(loop', runner), CurOK(loop', cur', fibers'), FaultOK(fault', dirty)
  PROVE  IsolationInv'
<1>1. runner' = runner /\ dirty' = dirty
  BY DEF runners
<1>2. HandlesInv'
  BY HandlesKept DEF IsolationInv
<1> QED BY <1>1, <1>2, Zenon DEF IsolationInv

LEMMA NotFaulty ==
  ASSUME NEW f, NEW d, f \in {"none", "freed", "restart"}
  PROVE  FaultOK(f, d)
  BY DEF FaultOK

\* A handle leads to a runner.
LEMMA HandleAt ==
  ASSUME IsolationInv, NEW h \in handles
  PROVE  h.pos \in Positions /\ h.number \in Nat /\ h.number # Null /\ runner[h.pos] = h.number
  BY DEF IsolationInv, HandlesInv, HandlesValid

LEMMA LoopAt ==
  ASSUME IsolationInv, loop # Nothing
  PROVE  /\ loop.pos \in Positions /\ loop.number \in Nat /\ loop.number # Null
         /\ runner[loop.pos] = loop.number
  BY DEF IsolationInv, LoopOK

\* What has changed if a fiber was registered: the vector, and nothing that
\* refers to it.
LEMMA Created ==
  ASSUME IsolationInv, NEW h \in handles, NEW f \in Slot, register(h.pos, f)
  PROVE  /\ VectorOK(fibers', free_fibers')
         /\ QueueOK(toexec, runner, fibers', dirty)
         /\ QueueOK(timedout, runner, fibers', dirty)
         /\ WheelOK(wheel, runner, fibers', dirty)
         /\ RefsOK(refs, runner, fibers', dirty)
         /\ CurOK(loop, cur, fibers')
         /\ FaultOK(fault', dirty)
         /\ NewSlot(h.pos) \in 0 .. MaxFibers - 1 /\ NewSlot(h.pos) \in Nat
         /\ Mine(runner, fibers', h.pos, NewSlot(h.pos), h.number)
<1>1. h.pos \in Positions /\ h.number # Null /\ runner[h.pos] = h.number
  BY HandleAt
<1>2. /\ VectorOK(fibers', free_fibers') /\ Grown(fibers, fibers')
      /\ NewSlot(h.pos) \in 0 .. MaxFibers - 1 /\ NewSlot(h.pos) < Len(fibers'[h.pos])
  BY <1>1, Registers DEF IsolationInv
<1>3. FaultOK(fault', dirty)
  <2>1. fault' \in {"none", "freed", "restart"}
    BY DEF register
  <2> QED BY <2>1, NotFaulty
<1>4. NewSlot(h.pos) \in Nat
  BY <1>2, Units
<1>5. Mine(runner, fibers', h.pos, NewSlot(h.pos), h.number)
  BY <1>1, <1>2 DEF Mine
<1> QED BY <1>2, <1>3, <1>4, <1>5, AllGrow

LEMMA NewFiberStep ==
  ASSUME IsolationInv, NEW h \in handles, NewFiber(h)
  PROVE  IsolationInv'
<1> DEFINE f == NewInt("unstacked", TRUE, TRUE, FALSE, Null)
<1>1. f \in Slot
  BY DEF NewInt, Slot, States, Allocations
<1> HIDE DEF f
<1>2. /\ register(h.pos, f) /\ toexec' = Pushed(toexec, h.pos, NewSlot(h.pos), h.number)
      /\ UNCHANGED <<runners, dirty>> /\ UNCHANGED <<refs, timedout, wheel, loop, cur>>
  BY Zenon DEF NewFiber, f, running
<1>3. QueueOK(toexec', runner, fibers', dirty)
  BY <1>1, <1>2, Created, HandleAt, QueuePush
<1>4. LoopOK(loop', runner)
  BY <1>2 DEF IsolationInv
<1> QED BY <1>1, <1>2, <1>3, <1>4, Created, Together

LEMMA NewLookupStep ==
  ASSUME IsolationInv, NEW h \in handles, NewLookup(h)
  PROVE  IsolationInv'
<1>1. PICK tk \in Reserved(wheel) :
        /\ register(h.pos, NewInt("unstacked", TRUE, TRUE, TRUE, tk))
        /\ wheel' = timer_reg(wheel, tk, h.pos, NewSlot(h.pos), h.number)
  BY Zenon DEF NewLookup
<1> DEFINE f == NewInt("unstacked", TRUE, TRUE, TRUE, tk)
<1>2. tk \in {Null} \cup Tokens
  BY ReservedTokens
<1>3. f \in Slot
  BY <1>2 DEF NewInt, Slot, States, Allocations
<1>4. register(h.pos, f)
  BY <1>1
<1> HIDE DEF f
<1>5. UNCHANGED <<runners, dirty>> /\ UNCHANGED <<refs, toexec, timedout, loop, cur>>
  BY Zenon DEF NewLookup, running
<1>6. WheelOK(wheel', runner, fibers', dirty)
  BY <1>1, <1>2, <1>3, <1>4, Created, HandleAt, WheelReg
<1>7. LoopOK(loop', runner)
  BY <1>5 DEF IsolationInv
<1> QED BY <1>3, <1>4, <1>5, <1>6, <1>7, Created, Together

LEMMA NewTimerStep ==
  ASSUME IsolationInv, NEW h \in handles, NEW func \in BOOLEAN, NewTimer(h, func)
  PROVE  IsolationInv'
<1> DEFINE f(tk) == NewInt(IF func THEN "unstacked" ELSE "timer", func, FALSE, FALSE, tk)
           v == [kind |-> "timer", runner |-> h.pos, pos |-> NewSlot(h.pos),
                 number |-> h.number, held |-> TRUE]
<1>1. PICK tk \in Reserved(wheel), k \in Places :
        /\ register(h.pos, f(tk))
        /\ wheel' = timer_reg(wheel, tk, h.pos, NewSlot(h.pos), h.number)
        /\ refs' = IF tk = Null THEN refs ELSE [refs EXCEPT ![k] = v]
  BY Zenon DEF NewTimer
<1>2. tk \in {Null} \cup Tokens
  BY ReservedTokens
<1>3. f(tk) \in Slot
  BY <1>2 DEF NewInt, Slot, States, Allocations
<1>4. UNCHANGED <<runners, dirty>> /\ UNCHANGED <<toexec, timedout, loop, cur>>
  BY Zenon DEF NewTimer, running
<1> HIDE DEF f
<1>5. WheelOK(wheel', runner, fibers', dirty)
  BY <1>1, <1>2, <1>3, Created, HandleAt, WheelReg
<1>6. NewSlot(h.pos) \in Nat /\ Mine(runner, fibers', h.pos, NewSlot(h.pos), h.number)
  BY <1>1, <1>3, Created
<1>7. /\ v \in Ref /\ v.runner = h.pos /\ v.pos = NewSlot(h.pos) /\ v.number = h.number
  BY <1>6, HandleAt DEF Ref, Kinds
<1>8. RefsOK(refs, runner, fibers', dirty)
  BY <1>1, <1>3, Created
<1> HIDE DEF v
<1>9. RefsOK(refs', runner, fibers', dirty)
  <2>1. CASE tk = Null
    BY <1>1, <1>8, <2>1
  <2>2. CASE tk # Null
    <3>1. RefsOK([refs EXCEPT ![k] = v], runner, fibers', dirty)
      BY <1>6, <1>7, <1>8, RefsPut
    <3> QED BY <1>1, <2>2, <3>1
  <2> QED BY <2>1, <2>2
<1>10. LoopOK(loop', runner)
  BY <1>4 DEF IsolationInv
<1>11. /\ VectorOK(fibers', free_fibers')
       /\ QueueOK(toexec, runner, fibers', dirty) /\ QueueOK(timedout, runner, fibers', dirty)
       /\ CurOK(loop, cur, fibers') /\ FaultOK(fault', dirty)
  BY <1>1, <1>3, Created
<1> QED BY <1>4, <1>5, <1>9, <1>10, <1>11, Together

\* A step that leaves the vectors alone.
LEMMA SlotsKept ==
  ASSUME IsolationInv, UNCHANGED slots
  PROVE  /\ fibers' = fibers
         /\ VectorOK(fibers', free_fibers')
  BY Zenon DEF IsolationInv, slots

LEMMA PollEventStep ==
  ASSUME IsolationInv, NEW h \in handles, PollEvent(h)
  PROVE  IsolationInv'
<1>1. PICK p \in 0 .. Len(fibers[h.pos]) - 1 :
        toexec' = Pushed(toexec, split_id(fiber_id(h.pos, p))[1],
                         split_id(fiber_id(h.pos, p))[2], h.number)
  BY Zenon DEF PollEvent
<1>2. /\ h.pos \in Positions /\ h.number \in Nat /\ h.number # Null
      /\ runner[h.pos] = h.number
  BY HandleAt
<1>3. Len(fibers[h.pos]) \in Nat /\ Len(fibers[h.pos]) <= MaxFibers
  BY <1>2, Lengths DEF IsolationInv
<1>4. p \in Nat /\ p < Len(fibers[h.pos]) /\ p \in 0 .. MaxFibers - 1
  BY <1>3, Units
<1>5. split_id(fiber_id(h.pos, p)) = <<h.pos, p>>
  BY <1>2, <1>4, SplitId
<1>6. toexec' = Pushed(toexec, h.pos, p, h.number)
  BY <1>1, <1>5
<1>7. Mine(runner, fibers, h.pos, p, h.number)
  BY <1>2, <1>4 DEF Mine
<1>8. QueueOK(toexec', runner, fibers, dirty)
  BY <1>2, <1>4, <1>6, <1>7, QueuePush DEF IsolationInv
<1>9. /\ UNCHANGED slots /\ UNCHANGED <<runners, dirty>>
      /\ UNCHANGED <<refs, timedout, wheel, loop, cur, fault>>
  BY Zenon DEF PollEvent, running
<1> QED BY <1>8, <1>9, SlotsKept, Together DEF IsolationInv

LEMMA PollTimerStep ==
  ASSUME IsolationInv, NEW tk \in Tokens, PollTimer(tk)
  PROVE  IsolationInv'
<1>1. /\ wheel[tk] # Nothing /\ wheel' = timer_cancel(wheel, tk)
      /\ timedout' = Pushed(timedout, split_id(wheel[tk].id)[1], split_id(wheel[tk].id)[2],
                            wheel[tk].number)
  BY Zenon DEF PollTimer
<1>2. wheel[tk] \in Timer /\ OfRunner(wheel[tk], runner, fibers, dirty)
  BY <1>1 DEF IsolationInv, WheelOK
<1>3. PICK r \in Positions, p \in 0 .. MaxFibers - 1 :
        /\ wheel[tk].id = fiber_id(r, p)
        /\ r \notin dirty => Mine(runner, fibers, r, p, wheel[tk].number)
  BY <1>2, Zenon DEF OfRunner
<1>4. split_id(wheel[tk].id) = <<r, p>>
  BY <1>3, SplitId
<1>5. timedout' = Pushed(timedout, r, p, wheel[tk].number)
  BY <1>1, <1>4
<1>6. p \in Nat /\ wheel[tk].number \in Nat
  BY <1>2, Units DEF Timer
<1>7. QueueOK(timedout', runner, fibers, dirty)
  BY <1>3, <1>5, <1>6, QueuePush DEF IsolationInv
<1>8. WheelOK(wheel', runner, fibers, dirty)
  BY <1>1, WheelCancel DEF IsolationInv
<1>9. /\ UNCHANGED slots /\ UNCHANGED <<runners, dirty>>
      /\ UNCHANGED <<refs, toexec, loop, cur, fault>>
  BY Zenon DEF PollTimer, running
<1> QED BY <1>7, <1>8, <1>9, SlotsKept, Together DEF IsolationInv

LEMMA LoopSteps ==
  ASSUME IsolationInv, EndLoop \/ \E h \in handles : BeginRun(h)
  PROVE  IsolationInv'
<1>1. /\ UNCHANGED slots /\ UNCHANGED <<runners, dirty>>
      /\ UNCHANGED <<refs, toexec, timedout, wheel, cur, fault>>
  BY Zenon DEF EndLoop, BeginRun, queues
<1>2. cur = NoFiber
  <2>1. CASE EndLoop
    BY <2>1 DEF EndLoop
  <2>2. CASE \E h \in handles : BeginRun(h)
    BY <2>2 DEF BeginRun, OnMain, IsolationInv, CurOK
  <2> QED BY <2>1, <2>2
<1>3. CurOK(loop', cur', fibers')
  BY <1>1, <1>2 DEF CurOK
<1>4. LoopOK(loop', runner)
  <2>1. CASE EndLoop
    BY <2>1 DEF EndLoop, IsolationInv, LoopOK
  <2>2. CASE \E h \in handles : BeginRun(h)
    <3>1. PICK h \in handles :
            loop' = [pos |-> h.pos, number |-> h.number, queue |-> "toexec"]
      BY <2>2 DEF BeginRun
    <3> QED BY <3>1, HandleAt DEF LoopOK
  <2> QED BY <2>1, <2>2
<1> QED BY <1>1, <1>3, <1>4, SlotsKept, Together DEF IsolationInv

-----------------------------------------------------------------------------
(* run().                                                                  *)

\* The slot that run() takes off a queue is there unless the position is dirty.
LEMMA Popped ==
  ASSUME IsolationInv, NEW p, Pops(p) \/ Expires(p)
  PROVE  /\ loop # Nothing /\ loop' = loop /\ cur = NoFiber /\ fault = "none" /\ p \in Nat
         /\ QueueOK(toexec', runner, fibers, dirty)
         /\ QueueOK(timedout', runner, fibers, dirty)
         /\ loop.pos \notin dirty => There(loop.pos, p)
<1>1. loop # Nothing /\ loop' = loop /\ cur = NoFiber /\ fault = "none"
  BY DEF Pops, Expires
<1>2. loop.pos \in Positions
  BY <1>1, LoopAt
<1>3. CASE Pops(p)
  <2>1. /\ toexec[loop.pos] # <<>> /\ p = Head(toexec[loop.pos]).pos
        /\ toexec' = [toexec EXCEPT ![loop.pos] = Tail(@)] /\ timedout' = timedout
    BY <1>3 DEF Pops
  <2>2. QueueOK(toexec, runner, fibers, dirty) /\ QueueOK(timedout, runner, fibers, dirty)
    BY DEF IsolationInv
  <2>3. /\ QueueOK(toexec', runner, fibers, dirty) /\ p \in Nat
        /\ loop.pos \notin dirty =>
             Mine(runner, fibers, loop.pos, p, Head(toexec[loop.pos]).number)
    BY <1>2, <2>1, <2>2, QueuePop
  <2> QED BY <1>1, <2>1, <2>2, <2>3 DEF Mine, There
<1>4. CASE Expires(p)
  <2>1. /\ timedout[loop.pos] # <<>> /\ p = Head(timedout[loop.pos]).pos
        /\ timedout' = [timedout EXCEPT ![loop.pos] = Tail(@)] /\ toexec' = toexec
    BY <1>4 DEF Expires
  <2>2. QueueOK(toexec, runner, fibers, dirty) /\ QueueOK(timedout, runner, fibers, dirty)
    BY DEF IsolationInv
  <2>3. /\ QueueOK(timedout', runner, fibers, dirty) /\ p \in Nat
        /\ loop.pos \notin dirty =>
             Mine(runner, fibers, loop.pos, p, Head(timedout[loop.pos]).number)
    BY <1>2, <2>1, <2>2, QueuePop
  <2> QED BY <1>1, <2>1, <2>2, <2>3 DEF Mine, There
<1> QED BY <1>3, <1>4

\* What is left of a step of run() once the queue is dealt with.
LEMMA RunTogether ==
  ASSUME IsolationInv, NEW p, Pops(p) \/ Expires(p), UNCHANGED <<runners, dirty>>,
         VectorOK(fibers', free_fibers'), Grown(fibers, fibers'), refs' = refs,
         WheelOK(wheel', runner, fibers, dirty),
         CurOK(loop, cur', fibers'), FaultOK(fault', dirty)
  PROVE  IsolationInv'
<1>1. /\ loop' = loop /\ QueueOK(toexec', runner, fibers, dirty)
      /\ QueueOK(timedout', runner, fibers, dirty)
  BY Popped
<1>2. VectorOK(fibers, free_fibers)
  BY DEF IsolationInv
<1>3. QueueOK(toexec', runner, fibers', dirty) /\ QueueOK(timedout', runner, fibers', dirty)
  BY <1>1, <1>2, QueueGrows
<1>4. WheelOK(wheel', runner, fibers', dirty)
  BY <1>2, WheelGrows
<1>5. RefsOK(refs', runner, fibers', dirty)
  BY AllGrow
<1>6. LoopOK(loop', runner) /\ CurOK(loop', cur', fibers')
  BY <1>1 DEF IsolationInv
<1> QED BY <1>3, <1>4, <1>5, <1>6, Together

LEMMA GrownSame ==
  ASSUME IsolationInv, UNCHANGED slots
  PROVE  VectorOK(fibers', free_fibers') /\ Grown(fibers, fibers')
<1>1. fibers' = fibers /\ VectorOK(fibers', free_fibers')
  BY SlotsKept
<1>2. \A r \in Positions : Len(fibers[r]) <= Len(fibers'[r])
  <2> TAKE r \in Positions
  <2>1. Len(fibers[r]) \in Nat
    BY Lengths DEF IsolationInv
  <2> QED BY <1>1, <2>1
<1> QED BY <1>1, <1>2 DEF Grown

\* step_into a slot that is there.
LEMMA StepsInto ==
  ASSUME IsolationInv, NEW p, Pops(p) \/ Expires(p), There(loop.pos, p),
         NEW f \in Slot, NEW w, WheelOK(w, runner, fibers, dirty), StepInto(p, f, w)
  PROVE  IsolationInv'
<1>1. loop # Nothing /\ loop' = loop /\ cur = NoFiber /\ fault = "none" /\ p \in Nat
  BY Popped
<1>2. loop.pos \in Positions
  BY <1>1, LoopAt
<1>3. p < Len(fibers[loop.pos]) /\ VectorOK(fibers, free_fibers)
  BY DEF There, IsolationInv
<1>4. UNCHANGED <<runners, dirty>> /\ refs' = refs
  BY DEF StepInto
<1>5. WheelOK(wheel', runner, fibers, dirty)
  <2>1. wheel' = w \/ wheel' = timer_cancel(w, f.wtoken)
    BY Zenon DEF StepInto
  <2> QED BY <2>1, WheelCancel
<1>6. CASE ClosesTimer(p, f)
  <2>1. /\ fibers' = [fibers EXCEPT ![loop.pos][p + 1] = f]
        /\ free_fibers' = [free_fibers EXCEPT ![loop.pos] = Append(@, p)]
        /\ cur' = cur /\ fault' = fault
    BY <1>6 DEF ClosesTimer, Update, Frees
  <2>2. VectorOK(fibers', free_fibers) /\ Grown(fibers, fibers')
    BY <1>1, <1>2, <1>3, <2>1, VecUpdate
  <2>3. p < Len(fibers'[loop.pos])
    <3>1. Len(fibers[loop.pos]) \in Nat /\ Len(fibers'[loop.pos]) \in Nat
      BY <1>2, <1>3, <2>2, Lengths
    <3> QED BY <1>1, <1>2, <1>3, <2>2, <3>1 DEF Grown
  <2>4. VectorOK(fibers', free_fibers')
    BY <1>1, <1>2, <2>1, <2>2, <2>3, VecFree
  <2>5. CurOK(loop, cur', fibers') /\ FaultOK(fault', dirty)
    BY <1>1, <2>1 DEF CurOK, FaultOK
  <2> QED BY <1>4, <1>5, <2>2, <2>4, <2>5, RunTogether
<1>7. CASE Restarts(p, f)
  <2>1. UNCHANGED slots /\ cur' = cur /\ fault' = "restart"
    BY <1>7 DEF Restarts
  <2>2. CurOK(loop, cur', fibers') /\ FaultOK(fault', dirty)
    BY <1>1, <2>1 DEF CurOK, FaultOK
  <2> QED BY <1>4, <1>5, <2>1, <2>2, GrownSame, RunTogether
<1>8. CASE Enters(p, f)
  <2> DEFINE tk == IF f.state = "timed" THEN Null ELSE f.wtoken
             n == IF f.state = "unstacked" THEN Allocation(loop.pos) ELSE f.seen
             g == [f EXCEPT !.state = "stacked", !.param = FALSE, !.wtoken = tk, !.seen = n]
  <2>1. /\ fibers' = [fibers EXCEPT ![loop.pos][p + 1] = g]
        /\ free_fibers' = free_fibers /\ cur' = p /\ fault' = fault
    BY <1>8, Zenon DEF Enters, Update
  <2>2. tk \in {Null} \cup Tokens /\ n \in Allocations
    BY <1>2, SlotFields, AllocationAt
  <2> HIDE DEF tk, n
  <2>3. g \in Slot
    BY <2>2, SlotTypes DEF States
  <2> HIDE DEF g
  <2>4. VectorOK(fibers', free_fibers') /\ Grown(fibers, fibers')
    BY <1>1, <1>2, <1>3, <2>1, <2>3, VecUpdate
  <2>5. p < Len(fibers'[loop.pos])
    <3>1. Len(fibers[loop.pos]) \in Nat /\ Len(fibers'[loop.pos]) \in Nat
      BY <1>2, <1>3, <2>4, Lengths
    <3> QED BY <1>1, <1>2, <1>3, <2>4, <3>1 DEF Grown
  <2>6. CurOK(loop, cur', fibers') /\ FaultOK(fault', dirty)
    BY <1>1, <2>1, <2>5 DEF CurOK, FaultOK
  <2> QED BY <1>4, <1>5, <2>4, <2>6, RunTogether
<1> QED BY <1>6, <1>7, <1>8 DEF StepInto

LEMMA RunStep ==
  ASSUME IsolationInv, NEW p, Run(p)
  PROVE  IsolationInv'
<1> DEFINE f == fibers[loop.pos][p + 1]
<1>1. Pops(p) \/ Expires(p)
  BY Zenon DEF Run, IndexPanics, Execute, NoAddress, HasAddress, StaleTimer, LookupTick,
     TimerWakes
<1>2. loop # Nothing /\ cur = NoFiber /\ fault = "none" /\ p \in Nat /\ loop.pos \in Positions
  BY <1>1, Popped, LoopAt
<1>3. WheelOK(wheel, runner, fibers, dirty) /\ VectorOK(fibers, free_fibers)
  BY DEF IsolationInv
<1>4. There(loop.pos, p) => f \in Slot /\ p \in 0 .. MaxFibers - 1
  BY <1>2, SlotAt
<1>5. CASE IndexPanics(p)
  <2>1. /\ ~There(loop.pos, p) /\ UNCHANGED <<runners, dirty>> /\ UNCHANGED slots
        /\ refs' = refs /\ wheel' = wheel /\ cur' = cur /\ fault' = "index"
    BY <1>5, Zenon DEF IndexPanics
  <2>2. loop.pos \in dirty
    BY <1>1, <2>1, Popped
  <2>3. FaultOK(fault', dirty) /\ CurOK(loop, cur', fibers')
    BY <1>2, <2>1, <2>2 DEF FaultOK, CurOK
  <2> QED BY <1>1, <1>3, <2>1, <2>3, GrownSame, RunTogether
<1>6. CASE Execute(p)
  <2>1. There(loop.pos, p) /\ StepInto(p, f, wheel)
    BY <1>6 DEF Execute
  <2> QED BY <1>1, <1>3, <1>4, <2>1, StepsInto
<1>7. CASE NoAddress(p) \/ StaleTimer(p)
  <2>1. /\ UNCHANGED <<runners, dirty>> /\ UNCHANGED slots
        /\ refs' = refs /\ wheel' = wheel /\ cur' = cur /\ fault' = fault
    BY <1>7, Zenon DEF NoAddress, StaleTimer
  <2>2. FaultOK(fault', dirty) /\ CurOK(loop, cur', fibers')
    BY <1>2, <2>1 DEF FaultOK, CurOK
  <2> QED BY <1>1, <1>3, <2>1, <2>2, GrownSame, RunTogether
<1>8. CASE HasAddress(p)
  <2> DEFINE w == timer_cancel(wheel, f.wtoken)
             g(sock) == [f EXCEPT !.wtoken = Null, !.connect_param = FALSE, !.sock = sock]
  <2>1. /\ There(loop.pos, p)
        /\ \/ /\ Update(loop.pos, p, g(TRUE)) /\ wheel' = w
              /\ UNCHANGED <<poller, runners, free_fibers, refs, cur, fault, dirty>>
           \/ \E sock \in BOOLEAN : StepInto(p, g(sock), w)
    BY <1>8, Zenon DEF HasAddress
  <2>2. \A sock \in BOOLEAN : g(sock) \in Slot
    BY <1>4, <2>1 DEF Slot
  <2>3. WheelOK(w, runner, fibers, dirty)
    BY <1>3, WheelCancel
  <2> HIDE DEF w, g
  <2>4. CASE \E sock \in BOOLEAN : StepInto(p, g(sock), w)
    BY <1>1, <2>1, <2>2, <2>3, <2>4, StepsInto
  <2>5. CASE /\ Update(loop.pos, p, g(TRUE)) /\ wheel' = w
             /\ UNCHANGED <<poller, runners, free_fibers, refs, cur, fault, dirty>>
    <3>1. VectorOK(fibers', free_fibers') /\ Grown(fibers, fibers')
      BY <1>2, <1>3, <2>1, <2>2, <2>5, VecUpdate DEF Update, There
    <3>2. FaultOK(fault', dirty) /\ CurOK(loop, cur', fibers')
      BY <1>2, <2>5 DEF FaultOK, CurOK
    <3> QED BY <1>1, <2>3, <2>5, <3>1, <3>2, RunTogether
  <2> QED BY <2>1, <2>4, <2>5
<1>9. CASE LookupTick(p)
  <2>1. /\ There(loop.pos, p)
        /\ UNCHANGED <<poller, runners, free_fibers, refs, cur, fault, dirty>>
    BY <1>9, Zenon DEF LookupTick
  <2>2. PICK tk \in Reserved(wheel) :
          /\ Update(loop.pos, p, [f EXCEPT !.wtoken = tk])
          /\ wheel' = timer_reg(wheel, tk, loop.pos, p, loop.number)
    BY <1>9, Zenon DEF LookupTick
  <2>3. tk \in {Null} \cup Tokens
    BY ReservedTokens
  <2>4. [f EXCEPT !.wtoken = tk] \in Slot
    BY <1>4, <2>1, <2>3 DEF Slot
  <2>5. VectorOK(fibers', free_fibers') /\ Grown(fibers, fibers')
    BY <1>2, <1>3, <2>1, <2>2, <2>4, VecUpdate DEF Update, There
  <2>6. Mine(runner, fibers, loop.pos, p, loop.number)
    BY <1>2, <2>1, LoopAt DEF Mine, There
  <2>7. WheelOK(wheel', runner, fibers, dirty)
    BY <1>2, <1>3, <1>4, <2>1, <2>2, <2>3, <2>6, LoopAt, WheelReg
  <2>8. FaultOK(fault', dirty) /\ CurOK(loop, cur', fibers')
    BY <1>2, <2>1 DEF FaultOK, CurOK
  <2> QED BY <1>1, <2>1, <2>5, <2>7, <2>8, RunTogether
<1>10. CASE TimerWakes(p)
  <2> DEFINE g == [f EXCEPT !.wtoken = Null, !.sock = f.sock /\ ~f.connect_param]
  <2>1. There(loop.pos, p) /\ StepInto(p, g, wheel)
    BY <1>10, Zenon DEF TimerWakes
  <2>2. g \in Slot
    BY <1>4, <2>1 DEF Slot
  <2> HIDE DEF g
  <2> QED BY <1>1, <1>3, <2>1, <2>2, StepsInto
<1> QED BY <1>5, <1>6, <1>7, <1>8, <1>9, <1>10 DEF Run

-----------------------------------------------------------------------------
(* The running fiber, and the references on the main stack.                *)

LEMMA MeAt ==
  ASSUME IsolationInv, cur # NoFiber
  PROVE  /\ loop # Nothing /\ loop.pos \in Positions /\ loop.number \in Nat
         /\ cur \in Nat /\ cur \in 0 .. MaxFibers - 1 /\ cur < Len(fibers[loop.pos])
         /\ Me \in Slot /\ Mine(runner, fibers, loop.pos, cur, loop.number)
<1>1. loop # Nothing /\ cur \in Nat /\ cur < Len(fibers[loop.pos])
  BY DEF IsolationInv, CurOK
<1>2. /\ loop.pos \in Positions /\ loop.number \in Nat /\ loop.number # Null
      /\ runner[loop.pos] = loop.number
  BY <1>1, LoopAt
<1>3. Me \in Slot /\ cur \in 0 .. MaxFibers - 1
  BY <1>1, <1>2, SlotAt DEF There, Me
<1>4. Mine(runner, fibers, loop.pos, cur, loop.number)
  BY <1>1, <1>2 DEF Mine
<1> QED BY <1>1, <1>2, <1>3, <1>4

LEMMA CallSteps ==
  ASSUME IsolationInv, Blocks \/ Waits \/ Chunks \/ Joins \/ Returns
  PROVE  IsolationInv'
<1>1. /\ fault = "none" /\ cur # NoFiber /\ cur' = NoFiber
      /\ UNCHANGED <<runners, dirty>> /\ loop' = loop
  BY Zenon DEF Blocks, Waits, Chunks, Joins, Returns, StepsOut
<1>2. /\ loop # Nothing /\ loop.pos \in Positions /\ loop.number \in Nat
      /\ cur \in Nat /\ cur \in 0 .. MaxFibers - 1 /\ cur < Len(fibers[loop.pos])
      /\ Me \in Slot /\ Mine(runner, fibers, loop.pos, cur, loop.number)
  BY <1>1, MeAt
<1>3. /\ VectorOK(fibers, free_fibers) /\ QueueOK(toexec, runner, fibers, dirty)
      /\ QueueOK(timedout, runner, fibers, dirty) /\ WheelOK(wheel, runner, fibers, dirty)
      /\ RefsOK(refs, runner, fibers, dirty) /\ FaultOK(fault, dirty)
  BY DEF IsolationInv
<1>4. LoopOK(loop', runner) /\ CurOK(loop', cur', fibers')
  BY <1>1 DEF IsolationInv, CurOK
<1>5. CASE Blocks
  <2>1. UNCHANGED <<free_fibers, refs, toexec, timedout, fault>>
    BY <1>5, Zenon DEF Blocks
  <2>2. PICK tk \in Reserved(wheel) \cup {Null} :
          /\ Update(loop.pos, cur, [Me EXCEPT !.state = "timed",
                                              !.wtoken = IF tk = Null THEN @ ELSE tk])
          /\ wheel' = timer_reg(wheel, tk, loop.pos, cur, loop.number)
    BY <1>5, Zenon DEF Blocks
  <2> DEFINE u == IF tk = Null THEN Me.wtoken ELSE tk
             g == [Me EXCEPT !.state = "timed", !.wtoken = u]
  <2>3. tk \in {Null} \cup Tokens
    BY ReservedTokens
  <2>4. u \in {Null} \cup Tokens
    BY <1>2, <2>3, SlotFields
  <2>5. fibers' = [fibers EXCEPT ![loop.pos][cur + 1] = g]
    BY <2>2, Zenon DEF Update
  <2> HIDE DEF u
  <2>6. g \in Slot
    BY <1>2, <2>4 DEF Slot, States
  <2> HIDE DEF g
  <2>7. VectorOK(fibers', free_fibers') /\ Grown(fibers, fibers')
    BY <1>2, <1>3, <2>1, <2>5, <2>6, VecUpdate
  <2>8. WheelOK(wheel', runner, fibers, dirty)
    BY <1>2, <1>3, <2>2, <2>3, WheelReg
  <2>9. WheelOK(wheel', runner, fibers', dirty)
    BY <1>3, <2>7, <2>8, WheelGrows
  <2> QED BY <1>1, <1>3, <1>4, <2>1, <2>7, <2>9, AllGrow, Together
<1>6. CASE Waits
  <2>1. UNCHANGED slots /\ UNCHANGED <<refs, toexec, timedout, wheel, fault>>
    BY <1>6, Zenon DEF Waits, queues
  <2> QED BY <1>1, <1>3, <1>4, <2>1, SlotsKept, Together
<1>7. CASE Chunks
  <2>1. /\ UNCHANGED slots /\ UNCHANGED <<refs, timedout, wheel, fault>>
        /\ toexec' = Pushed(toexec, loop.pos, cur, loop.number)
    BY <1>7, Zenon DEF Chunks
  <2>2. QueueOK(toexec', runner, fibers, dirty)
    BY <1>2, <1>3, <2>1, QueuePush
  <2> QED BY <1>1, <1>3, <1>4, <2>1, <2>2, SlotsKept, Together
<1>8. CASE Joins
  <2> DEFINE v == [kind |-> "fiber", runner |-> loop.pos, pos |-> cur,
                   number |-> loop.number, held |-> FALSE]
  <2>1. UNCHANGED slots /\ UNCHANGED <<toexec, timedout, wheel, fault>>
    BY <1>8, Zenon DEF Joins, queues
  <2>2. PICK k \in Places : refs' = [refs EXCEPT ![k] = v]
    BY <1>8, Zenon DEF Joins
  <2>3. v \in Ref /\ v.runner = loop.pos /\ v.pos = cur /\ v.number = loop.number
    BY <1>2 DEF Ref, Kinds
  <2> HIDE DEF v
  <2>4. RefsOK([refs EXCEPT ![k] = v], runner, fibers, dirty)
    BY <1>2, <1>3, <2>3, RefsPut
  <2> QED BY <1>1, <1>3, <1>4, <2>1, <2>2, <2>4, SlotsKept, Together
<1>9. CASE Returns
  <2> DEFINE g == [Me EXCEPT !.state = "unstacked", !.sock = FALSE, !.seen = 0]
  <2>1. /\ fibers' = [fibers EXCEPT ![loop.pos][cur + 1] = g]
        /\ free_fibers' = [free_fibers EXCEPT ![loop.pos] = Append(@, cur)]
        /\ UNCHANGED <<refs, toexec, timedout, wheel>>
    BY <1>9, Zenon DEF Returns, Update, Frees, queues
  <2>2. g \in Slot
    BY <1>2 DEF Slot, States, Allocations
  <2> HIDE DEF g
  <2>3. VectorOK(fibers', free_fibers) /\ Grown(fibers, fibers')
    BY <1>2, <1>3, <2>1, <2>2, VecUpdate
  <2>4. cur < Len(fibers'[loop.pos])
    <3>1. Len(fibers[loop.pos]) \in Nat /\ Len(fibers'[loop.pos]) \in Nat
      BY <1>2, <1>3, <2>3, Lengths
    <3> QED BY <1>2, <2>3, <3>1 DEF Grown
  <2>5. VectorOK(fibers', free_fibers')
    BY <1>2, <2>1, <2>3, <2>4, VecFree
  <2>6. fault' \in {"none", "freed", "restart"}
    BY <1>9 DEF Returns
  <2>7. FaultOK(fault', dirty)
    BY <2>6, NotFaulty
  <2> QED BY <1>1, <1>4, <2>1, <2>3, <2>5, <2>7, AllGrow, Together
<1> QED BY <1>5, <1>6, <1>7, <1>8, <1>9

\* A reference that is used up at a position that is not dirty leads to a slot.
LEMMA RefAt ==
  ASSUME IsolationInv, NEW k \in Places, refs[k] # Nothing
  PROVE  /\ refs[k] \in Ref /\ refs[k].runner \in Positions
         /\ refs[k].pos \in Nat /\ refs[k].number \in Nat
         /\ refs[k].runner \notin dirty =>
              /\ Mine(runner, fibers, refs[k].runner, refs[k].pos, refs[k].number)
              /\ There(refs[k].runner, refs[k].pos)
<1>1. refs[k] \in Ref
  BY DEF IsolationInv, RefsOK
<1>2. /\ refs[k].runner \in Positions /\ refs[k].pos \in Nat /\ refs[k].number \in Nat
  BY <1>1 DEF Ref
<1>3. refs[k].runner \notin dirty =>
        Mine(runner, fibers, refs[k].runner, refs[k].pos, refs[k].number)
  BY DEF IsolationInv, RefsOK
<1> QED BY <1>1, <1>2, <1>3 DEF Mine, There

LEMMA RefSteps ==
  ASSUME IsolationInv, NEW k \in Places,
         \/ GetFiber(k) \/ ResumeFiber(k) \/ DropTimerRef(k)
         \/ \E kind \in Kinds : Dangles(k, kind)
  PROVE  IsolationInv'
<1>1. /\ refs[k] # Nothing /\ UNCHANGED <<runners, dirty>>
      /\ UNCHANGED <<timedout, loop, cur>>
  BY Zenon DEF GetFiber, Unfetched, ResumeFiber, DropTimerRef, Dangles, Uses, running, queues
<1> DEFINE s == refs[k].runner
           p == refs[k].pos
<1>2. /\ refs[k] \in Ref /\ s \in Positions /\ p \in Nat /\ refs[k].number \in Nat
      /\ s \notin dirty => Mine(runner, fibers, s, p, refs[k].number) /\ There(s, p)
  BY <1>1, RefAt
<1>3. /\ VectorOK(fibers, free_fibers) /\ QueueOK(toexec, runner, fibers, dirty)
      /\ QueueOK(timedout, runner, fibers, dirty) /\ WheelOK(wheel, runner, fibers, dirty)
      /\ RefsOK(refs, runner, fibers, dirty) /\ FaultOK(fault, dirty)
      /\ LoopOK(loop, runner) /\ CurOK(loop, cur, fibers)
  BY DEF IsolationInv
<1>4. refs' = [refs EXCEPT ![k] = Nothing] => RefsOK(refs', runner, fibers, dirty)
  <2>1. Nothing \in {Nothing} \cup Ref
    OBVIOUS
  <2>2. RefsOK([refs EXCEPT ![k] = Nothing], runner, fibers, dirty)
    BY <1>3, <2>1, RefsPut, Zenon
  <2> QED BY <2>2
<1>5. CASE GetFiber(k)
  <2> DEFINE v == [refs[k] EXCEPT !.held = TRUE]
  <2>1. /\ refs' = [refs EXCEPT ![k].held = TRUE]
        /\ UNCHANGED slots /\ UNCHANGED <<toexec, wheel, fault>>
    BY <1>5, Zenon DEF GetFiber, queues
  <2>2. refs \in [Places -> {Nothing} \cup Ref]
    BY <1>3 DEF RefsOK
  <2>3. [refs EXCEPT ![k].held = TRUE] = [refs EXCEPT ![k] = v]
    BY <2>2
  <2>4. v \in Ref /\ v.runner = s /\ v.pos = p /\ v.number = refs[k].number
    BY <1>2 DEF Ref
  <2> HIDE DEF v
  <2>5. RefsOK(refs', runner, fibers, dirty)
    BY <1>2, <1>3, <2>1, <2>3, <2>4, RefsPut
  <2> QED BY <1>1, <1>3, <2>1, <2>5, SlotsKept, Together
<1>6. CASE ResumeFiber(k)
  <2>1. /\ refs' = [refs EXCEPT ![k] = Nothing]
        /\ toexec' = Pushed(toexec, s, p, refs[k].number)
        /\ UNCHANGED slots /\ UNCHANGED <<wheel, fault>>
    BY <1>6, Zenon DEF ResumeFiber, Uses
  <2>2. QueueOK(toexec', runner, fibers, dirty)
    BY <1>2, <1>3, <2>1, QueuePush
  <2> QED BY <1>1, <1>3, <1>4, <2>1, <2>2, SlotsKept, Together
<1>7. CASE \E kind \in Kinds : Dangles(k, kind)
  <2>1. /\ refs' = [refs EXCEPT ![k] = Nothing] /\ ~There(s, p)
        /\ UNCHANGED slots /\ UNCHANGED <<toexec, wheel>>
    BY <1>7, Zenon DEF Dangles, Uses
  <2>2. s \in dirty
    BY <1>2, <2>1
  <2>3. FaultOK(fault', dirty)
    BY <2>2 DEF FaultOK
  <2> QED BY <1>1, <1>3, <1>4, <2>1, <2>3, SlotsKept, Together
<1>8. CASE DropTimerRef(k)
  <2> DEFINE f == fibers[s][p + 1]
             g == [f EXCEPT !.wtoken = Null, !.param = FALSE]
  <2>1. /\ refs' = [refs EXCEPT ![k] = Nothing] /\ There(s, p)
        /\ UNCHANGED <<toexec, fault>>
        /\ \/ /\ wheel' = timer_cancel(wheel, f.wtoken)
              /\ fibers' = [fibers EXCEPT ![s][p + 1] = g]
              /\ free_fibers' = [free_fibers EXCEPT ![s] = Append(@, p)]
           \/ wheel' = wheel /\ UNCHANGED slots
    BY <1>8, Zenon DEF DropTimerRef, Uses, Update, Frees
  <2>2. CASE wheel' = wheel /\ UNCHANGED slots
    BY <1>1, <1>3, <1>4, <2>1, <2>2, SlotsKept, Together
  <2>3. CASE /\ wheel' = timer_cancel(wheel, f.wtoken)
             /\ fibers' = [fibers EXCEPT ![s][p + 1] = g]
             /\ free_fibers' = [free_fibers EXCEPT ![s] = Append(@, p)]
    <3>1. f \in Slot
      BY <1>2, <2>1, SlotAt
    <3>2. g \in Slot
      BY <3>1 DEF Slot
    <3>3. p < Len(fibers[s])
      BY <2>1 DEF There
    <3>4. WheelOK(wheel', runner, fibers, dirty)
      BY <1>3, <2>3, WheelCancel
    <3> HIDE DEF g, f
    <3>5. VectorOK(fibers', free_fibers) /\ Grown(fibers, fibers')
      BY <1>2, <1>3, <2>3, <3>2, <3>3, VecUpdate
    <3>6. p < Len(fibers'[s])
      <4>1. Len(fibers[s]) \in Nat /\ Len(fibers'[s]) \in Nat
        BY <1>2, <1>3, <3>5, Lengths
      <4>2. Len(fibers[s]) <= Len(fibers'[s])
        BY <1>2, <3>5 DEF Grown
      <4> HIDE DEF s, p
      <4> QED BY <1>2, <3>3, <4>1, <4>2
    <3>7. VectorOK(fibers', free_fibers')
      BY <1>2, <2>3, <3>5, <3>6, VecFree
    <3>8. WheelOK(wheel', runner, fibers', dirty)
      BY <1>3, <3>4, <3>5, WheelGrows
    <3>9. RefsOK(refs', runner, fibers', dirty)
      BY <1>3, <1>4, <2>1, <3>5, RefsGrow
    <3>10. /\ QueueOK(toexec, runner, fibers', dirty)
           /\ QueueOK(timedout, runner, fibers', dirty) /\ CurOK(loop, cur, fibers')
      BY <3>5, AllGrow
    <3> QED BY <1>1, <1>3, <2>1, <3>7, <3>8, <3>9, <3>10, Together
  <2> QED BY <2>1, <2>2, <2>3
<1> QED BY <1>5, <1>6, <1>7, <1>8

-----------------------------------------------------------------------------
(* Pollers and runners.                                                    *)

LEMMA NewPollerStep ==
  ASSUME IsolationInv, NewPoller
  PROVE  IsolationInv'
<1>1. /\ UNCHANGED slots /\ UNCHANGED <<runners, dirty>>
      /\ UNCHANGED <<refs, toexec, timedout, wheel, loop, cur, fault>>
  BY Zenon DEF NewPoller, queues, running
<1> QED BY <1>1, SlotsKept, Together DEF IsolationInv

\* With the queues gone, a position is dirty only for its references.
LEMMA DropPollerStep ==
  ASSUME IsolationInv, DropPoller
  PROVE  IsolationInv'
<1>1. /\ fault = "none" /\ UNCHANGED runners /\ UNCHANGED slots
      /\ UNCHANGED <<refs, loop, cur, fault>>
      /\ toexec' = NoQueue /\ timedout' = NoQueue /\ wheel' = NoTimers
      /\ dirty' = {r \in dirty : \E k \in Places : refs[k] # Nothing /\ refs[k].runner = r}
  BY Zenon DEF DropPoller, running, OnMain
<1>2. runner' = runner /\ fibers' = fibers /\ VectorOK(fibers', free_fibers')
  BY <1>1, SlotsKept DEF runners
<1>3. QueueOK(NoQueue, runner, fibers, dirty')
  <2>1. \A r \in Positions : NoQueue[r] = <<>>
    BY DEF NoQueue
  <2>2. NoQueue \in [Positions -> Seq(Entry)]
    BY DEF NoQueue
  <2> QED BY <2>1, <2>2 DEF QueueOK
<1>4. WheelOK(NoTimers, runner, fibers, dirty')
  BY DEF NoTimers, WheelOK
<1>5. RefsOK(refs, runner, fibers, dirty')
  <2>1. RefsOK(refs, runner, fibers, dirty)
    BY DEF IsolationInv
  <2> SUFFICES ASSUME NEW k \in Places, refs[k] # Nothing, refs[k].runner \notin dirty'
               PROVE  Mine(runner, fibers, refs[k].runner, refs[k].pos, refs[k].number)
    BY <2>1, Zenon DEF RefsOK
  <2>2. refs[k].runner \notin dirty
    BY <1>1
  <2> QED BY <2>1, <2>2, Zenon DEF RefsOK
<1>6. HandlesInv'
  BY <1>1, HandlesKept DEF IsolationInv
<1>7. LoopOK(loop, runner) /\ CurOK(loop, cur, fibers) /\ FaultOK(fault, dirty')
  BY <1>1 DEF IsolationInv, FaultOK
<1> QED BY <1>1, <1>2, <1>3, <1>4, <1>5, <1>6, <1>7, Zenon DEF IsolationInv

\* What is of a runner at a position that is taken is so after another comes.
LEMMA NewRunnerStep ==
  ASSUME IsolationInv, NewRunner
  PROVE  IsolationInv'
<1> DEFINE e == find_empty
<1>1. e \in Positions /\ runner[e] = Null
  BY FindEmpty DEF NewRunner
<1>2. /\ runner' = [runner EXCEPT ![e] = made + 1] /\ UNCHANGED slots
      /\ UNCHANGED <<refs, toexec, timedout, wheel, loop, cur, fault, dirty>>
  BY Zenon DEF NewRunner, queues, running
<1>3. HandlesInv'
  BY NewRunnerHandles DEF IsolationInv
<1>4. fibers' = fibers /\ VectorOK(fibers', free_fibers')
  BY <1>2, SlotsKept
<1> HIDE DEF e
<1>5. \A r \in Positions : runner[r] # Null => runner'[r] = runner[r]
  BY <1>1, <1>2 DEF IsolationInv, HandlesInv
<1>6. \A r \in Positions : \A p, n :
        Mine(runner, fibers, r, p, n) => Mine(runner', fibers, r, p, n)
  BY <1>5 DEF Mine
<1>7. ASSUME NEW q, QueueOK(q, runner, fibers, dirty)
      PROVE  QueueOK(q, runner', fibers, dirty)
  BY <1>6, <1>7, Zenon DEF QueueOK
<1>8. WheelOK(wheel, runner', fibers, dirty)
  <2>1. WheelOK(wheel, runner, fibers, dirty)
    BY DEF IsolationInv
  <2>2. \A t : OfRunner(t, runner, fibers, dirty) => OfRunner(t, runner', fibers, dirty)
    BY <1>6, Zenon DEF OfRunner
  <2> QED BY <2>1, <2>2, Zenon DEF WheelOK
<1>9. RefsOK(refs, runner', fibers, dirty)
  <2>1. RefsOK(refs, runner, fibers, dirty)
    BY DEF IsolationInv
  <2> SUFFICES ASSUME NEW k \in Places, refs[k] # Nothing, refs[k].runner \notin dirty
               PROVE  Mine(runner', fibers, refs[k].runner, refs[k].pos, refs[k].number)
    BY <2>1, Zenon DEF RefsOK
  <2> QED BY <1>6, RefAt
<1>10. LoopOK(loop, runner')
  BY <1>5 DEF IsolationInv, LoopOK
<1>11. QueueOK(toexec, runner', fibers, dirty) /\ QueueOK(timedout, runner', fibers, dirty)
  BY <1>7 DEF IsolationInv
<1>12. CurOK(loop, cur, fibers) /\ FaultOK(fault, dirty)
  BY DEF IsolationInv
<1> QED BY <1>2, <1>3, <1>4, <1>8, <1>9, <1>10, <1>11, <1>12, Zenon DEF IsolationInv

\* A runner goes with its vector; its position is dirty unless nothing is left.
LEMMA DropRunnerStep ==
  ASSUME IsolationInv, NEW h \in handles, DropRunner(h)
  PROVE  IsolationInv'
<1> DEFINE s == h.pos
<1>1. s \in Positions /\ runner[s] = h.number
  BY HandleAt
<1>2. /\ runner' = [runner EXCEPT ![s] = Null]
      /\ fibers' = [fibers EXCEPT ![s] = <<>>]
      /\ free_fibers' = [free_fibers EXCEPT ![s] = <<>>]
      /\ UNCHANGED <<refs, toexec, timedout, wheel, loop, cur>>
      /\ dirty' = IF Left(s) THEN dirty \cup {s} ELSE dirty
      /\ loop = Nothing /\ fault' \in {"none", "freed", "restart"}
  BY DEF DropRunner, queues, running, OnMain
<1>3. HandlesInv'
  BY DropRunnerHandles DEF IsolationInv
<1> HIDE DEF s
<1>4. /\ fibers \in [Positions -> Seq(Slot)] /\ free_fibers \in [Positions -> Seq(Nat)]
      /\ runner \in [Positions -> Nat]
  BY DEF IsolationInv, VectorOK, HandlesInv
<1>5. \A r \in Positions : r # s =>
        fibers'[r] = fibers[r] /\ free_fibers'[r] = free_fibers[r] /\ runner'[r] = runner[r]
  BY <1>1, <1>2, <1>4
<1>6. VectorOK(fibers', free_fibers')
  <2>1. fibers' \in [Positions -> Seq(Slot)] /\ free_fibers' \in [Positions -> Seq(Nat)]
    BY <1>1, <1>2, <1>4
  <2>2. ASSUME NEW r \in Positions
        PROVE  /\ Len(fibers'[r]) <= MaxFibers
               /\ \A i \in 1 .. Len(free_fibers'[r]) : free_fibers'[r][i] < Len(fibers'[r])
    <3>1. CASE r = s
      <4>1. fibers'[r] = <<>> /\ free_fibers'[r] = <<>>
        BY <1>1, <1>2, <1>4, <3>1
      <4> QED BY <4>1, Units
    <3>2. CASE r # s
      BY <1>5, <3>2 DEF IsolationInv, VectorOK
    <3> QED BY <3>1, <3>2
  <2> QED BY <2>1, <2>2 DEF VectorOK
<1>7. \A r \in Positions : \A p, n :
        r # s /\ Mine(runner, fibers, r, p, n) => Mine(runner', fibers', r, p, n)
  BY <1>5, Zenon DEF Mine
<1>8. \A r \in Positions : r \notin dirty' => r \notin dirty /\ (r = s => ~Left(s))
  BY <1>2
<1>9. QueueOK(toexec, runner', fibers', dirty') /\ QueueOK(timedout, runner', fibers', dirty')
  <2>1. ASSUME NEW q, QueueOK(q, runner, fibers, dirty), ~Left(s) => q[s] = <<>>
        PROVE  QueueOK(q, runner', fibers', dirty')
    <3>1. q \in [Positions -> Seq(Entry)]
      BY <2>1 DEF QueueOK
    <3>2. ASSUME NEW r \in Positions, NEW i \in 1 .. Len(q[r]), r \notin dirty'
          PROVE  Mine(runner', fibers', r, q[r][i].pos, q[r][i].number)
      <4>1. r # s
        <5> SUFFICES ASSUME r = s PROVE FALSE
          OBVIOUS
        <5>1. q[r] = <<>>
          BY <1>8, <2>1, <3>2
        <5> QED BY <5>1, <3>2
      <4>2. Mine(runner, fibers, r, q[r][i].pos, q[r][i].number)
        BY <1>8, <2>1, <3>2 DEF QueueOK
      <4> QED BY <1>7, <4>1, <4>2
    <3> QED BY <3>1, <3>2 DEF QueueOK
  <2>2. ~Left(s) => toexec[s] = <<>> /\ timedout[s] = <<>>
    BY DEF Left
  <2> QED BY <2>1, <2>2 DEF IsolationInv
<1>10. WheelOK(wheel, runner', fibers', dirty')
  <2>1. WheelOK(wheel, runner, fibers, dirty)
    BY DEF IsolationInv
  <2> SUFFICES ASSUME NEW tk \in Tokens, wheel[tk] # Nothing
               PROVE  OfRunner(wheel[tk], runner', fibers', dirty')
    BY <2>1, Zenon DEF WheelOK
  <2>2. PICK r \in Positions, p \in 0 .. MaxFibers - 1 :
          /\ wheel[tk].id = fiber_id(r, p)
          /\ r \notin dirty => Mine(runner, fibers, r, p, wheel[tk].number)
    BY <2>1, Zenon DEF WheelOK, OfRunner
  <2>3. split_id(wheel[tk].id)[1] = r
    BY <2>2, SplitId
  <2>4. r \notin dirty' => Mine(runner', fibers', r, p, wheel[tk].number)
    <3> SUFFICES ASSUME r \notin dirty'
                 PROVE  Mine(runner', fibers', r, p, wheel[tk].number)
      OBVIOUS
    <3>1. r # s
      BY <1>8, <2>3 DEF Left, TimerOf
    <3> QED BY <1>7, <1>8, <2>2, <3>1
  <2> QED BY <2>2, <2>4, Zenon DEF OfRunner
<1>11. RefsOK(refs, runner', fibers', dirty')
  <2>1. RefsOK(refs, runner, fibers, dirty)
    BY DEF IsolationInv
  <2> SUFFICES ASSUME NEW k \in Places, refs[k] # Nothing, refs[k].runner \notin dirty'
               PROVE  Mine(runner', fibers', refs[k].runner, refs[k].pos, refs[k].number)
    BY <2>1, Zenon DEF RefsOK
  <2>2. refs[k].runner \in Positions
    BY RefAt
  <2>3. refs[k].runner # s
    BY <1>8, <2>2 DEF Left
  <2> QED BY <1>7, <1>8, <2>2, <2>3, RefAt
<1>12. LoopOK(loop', runner') /\ CurOK(loop', cur', fibers')
  BY <1>2 DEF LoopOK, CurOK, IsolationInv
<1>13. FaultOK(fault', dirty')
  BY <1>2, NotFaulty
<1> QED BY <1>2, <1>3, <1>6, <1>9, <1>10, <1>11, <1>12, <1>13, Zenon DEF IsolationInv

-----------------------------------------------------------------------------
(* The theorems.                                                           *)

LEMMA IsolationInit == GInit => IsolationInv
<1> SUFFICES ASSUME GInit PROVE IsolationInv
  OBVIOUS
<1>1. HandlesInv
  BY HandlesInit
<1>2. /\ fibers = NoQueue /\ free_fibers = NoQueue /\ toexec = NoQueue /\ timedout = NoQueue
      /\ refs = [k \in Places |-> Nothing] /\ wheel = NoTimers
      /\ loop = Nothing /\ cur = NoFiber /\ fault = "none" /\ dirty = {}
  BY DEF GInit
<1>3. \A S : NoQueue \in [Positions -> Seq(S)]
  BY DEF NoQueue
<1>4. \A r \in Positions : NoQueue[r] = <<>> /\ Len(NoQueue[r]) = 0
  BY DEF NoQueue
<1>5. VectorOK(fibers, free_fibers)
  BY <1>2, <1>3, <1>4, Units DEF VectorOK
<1>6. QueueOK(toexec, runner, fibers, dirty) /\ QueueOK(timedout, runner, fibers, dirty)
  BY <1>2, <1>3, <1>4 DEF QueueOK
<1>7. WheelOK(wheel, runner, fibers, dirty)
  BY <1>2 DEF WheelOK, NoTimers
<1>8. RefsOK(refs, runner, fibers, dirty)
  BY <1>2 DEF RefsOK
<1>9. LoopOK(loop, runner) /\ CurOK(loop, cur, fibers) /\ FaultOK(fault, dirty)
  BY <1>2 DEF LoopOK, CurOK, FaultOK
<1> QED BY <1>1, <1>5, <1>6, <1>7, <1>8, <1>9 DEF IsolationInv

LEMMA IsolationStep == IsolationInv /\ [GNext]_gvars => IsolationInv'
<1> SUFFICES ASSUME IsolationInv, [GNext]_gvars PROVE IsolationInv'
  OBVIOUS
<1>1. CASE NewPoller \/ DropPoller \/ NewRunner
  BY <1>1, NewPollerStep, DropPollerStep, NewRunnerStep
<1>2. ASSUME NEW h \in handles,
             \/ DropRunner(h) \/ NewFiber(h) \/ NewLookup(h)
             \/ \E func \in BOOLEAN : NewTimer(h, func)
             \/ PollEvent(h) \/ BeginRun(h)
      PROVE  IsolationInv'
  BY <1>2, DropRunnerStep, NewFiberStep, NewLookupStep, NewTimerStep, PollEventStep, LoopSteps
<1>3. ASSUME NEW tk \in Tokens, PollTimer(tk) PROVE IsolationInv'
  BY <1>3, PollTimerStep
<1>4. ASSUME NEW p, Run(p) PROVE IsolationInv'
  BY <1>4, RunStep
<1>5. CASE EndLoop
  BY <1>5, LoopSteps
<1>6. CASE Blocks \/ Waits \/ Chunks \/ Joins \/ Returns
  BY <1>6, CallSteps
<1>7. ASSUME NEW k \in Places,
             \/ GetFiber(k) \/ ResumeFiber(k) \/ DropTimerRef(k)
             \/ \E kind \in Kinds : Dangles(k, kind)
      PROVE  IsolationInv'
  BY <1>7, RefSteps
<1>8. CASE UNCHANGED gvars
  <2>1. /\ UNCHANGED slots /\ UNCHANGED <<runners, dirty>>
        /\ UNCHANGED <<refs, toexec, timedout, wheel, loop, cur, fault>>
    BY <1>8, Zenon DEF gvars, queues, running
  <2> QED BY <2>1, SlotsKept, Together DEF IsolationInv
<1> QED BY <1>1, <1>2, <1>3, <1>4, <1>5, <1>6, <1>7, <1>8, Zenon DEF GNext

LEMMA InvIsolates == IsolationInv => Isolated
<1> SUFFICES ASSUME IsolationInv, NEW h \in handles, h.pos \notin dirty
             PROVE  /\ \A e \in Range(toexec[h.pos]) \cup Range(timedout[h.pos]) :
                         e.number = h.number /\ There(h.pos, e.pos)
                    /\ \A tk \in Tokens : TimerOf(h.pos, tk) =>
                         /\ wheel[tk].number = h.number
                         /\ There(h.pos, split_id(wheel[tk].id)[2])
                    /\ \A k \in Places : refs[k] # Nothing /\ refs[k].runner = h.pos =>
                         refs[k].number = h.number /\ There(h.pos, refs[k].pos)
  BY DEF Isolated
<1>1. h.pos \in Positions /\ runner[h.pos] = h.number
  BY HandleAt
<1>2. ASSUME NEW q, QueueOK(q, runner, fibers, dirty), NEW e \in Range(q[h.pos])
      PROVE  e.number = h.number /\ There(h.pos, e.pos)
  <2>1. q[h.pos] \in Seq(Entry)
    BY <1>1, <1>2 DEF QueueOK
  <2>2. PICK i \in 1 .. Len(q[h.pos]) : e = q[h.pos][i]
    BY <1>2, <2>1 DEF Range
  <2>3. Mine(runner, fibers, h.pos, e.pos, e.number)
    BY <1>1, <1>2, <2>2 DEF QueueOK
  <2> QED BY <1>1, <2>3 DEF Mine, There
<1>3. ASSUME NEW tk \in Tokens, TimerOf(h.pos, tk)
      PROVE  wheel[tk].number = h.number /\ There(h.pos, split_id(wheel[tk].id)[2])
  <2>1. PICK r \in Positions, p \in 0 .. MaxFibers - 1 :
          /\ wheel[tk].id = fiber_id(r, p)
          /\ r \notin dirty => Mine(runner, fibers, r, p, wheel[tk].number)
    BY <1>3, Zenon DEF IsolationInv, WheelOK, OfRunner, TimerOf
  <2>2. split_id(wheel[tk].id) = <<r, p>>
    BY <2>1, SplitId
  <2>3. r = h.pos /\ split_id(wheel[tk].id)[2] = p
    BY <1>3, <2>2 DEF TimerOf
  <2> QED BY <1>1, <2>1, <2>3 DEF Mine, There
<1>4. ASSUME NEW k \in Places, refs[k] # Nothing, refs[k].runner = h.pos
      PROVE  refs[k].number = h.number /\ There(h.pos, refs[k].pos)
  BY <1>1, <1>4, RefAt DEF Mine
<1>5. QueueOK(toexec, runner, fibers, dirty) /\ QueueOK(timedout, runner, fibers, dirty)
  BY DEF IsolationInv
<1>6. \A e \in Range(toexec[h.pos]) \cup Range(timedout[h.pos]) :
        e.number = h.number /\ There(h.pos, e.pos)
  BY <1>2, <1>5
<1> QED BY <1>3, <1>4, <1>6

\* For any number of runners, slots, timers and references and any packing of
\* ids: whatever reaches a runner through the poller, the wheel or a reference
\* was made by it and names a slot it has, unless a Runner was dropped before
\* at its position with something left.  Events and expiries may come at any
\* time and any number of times, and other Runners may be dropped busy.
THEOREM RunnersIsolated == GSpec => []Isolated
BY IsolationInit, IsolationStep, InvIsolates, PTL DEF GSpec

\* For the same values: run() indexes past the fibers vector, and a FiberRef or
\* TimerRef is used without its runner or its slot, only after some Runner was
\* dropped with something queued, a timer or a reference left.
THEOREM ReferencesLand == GSpec => []RefsLand
<1>1. IsolationInv => RefsLand
  BY DEF IsolationInv, FaultOK, RefsLand
<1> QED BY <1>1, IsolationInit, IsolationStep, PTL DEF GSpec

=============================================================================
