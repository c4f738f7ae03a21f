---------------------------- MODULE UsageProofs ----------------------------
(***************************************************************************)
(* What holds of the runner for classes of programs, for every value of    *)
(* the other constants: programs without sockets, programs whose fibers    *)
(* have sockets but no children, and programs with families of fibers.  A  *)
(* class is a bound on Usage, and a hypothesis of its theorems.  Outside   *)
(* of the classes there are counterexamples (README, section 4).           *)
(***************************************************************************)
EXTENDS RunnerProofs

-----------------------------------------------------------------------------
(***************************************************************************)
(* Programs of processing fibers and timers, which have no sockets and no  *)
(* children: nothing leads into a fiber but the one thing it waits for,    *)
(* for any number of fibers, timers and references.  With sockets there    *)
(* are counterexamples (README, section 4).                                *)
(***************************************************************************)

NoSockets ==
    Usage \subseteq {"new_processor", "new_timer", "new_fiber_timer", "resp_chunk", "join_main",
                     "return_some", "return_early", "drop_timer", "time", "run_unprompted"}

-----------------------------------------------------------------------------
(* The inductive invariant.  Every slot is in one place: w tells which.    *)

Wheres == {"fresh", "free", "queued", "tomain", "held", "armed", "due", "running", "lost"}

\* The slots of a list are those that are there, each once.
Sits(seq, where, w) ==
    /\ \A i \in DOMAIN seq : w[seq[i]] = where
    /\ \A i, j \in DOMAIN seq : seq[i] = seq[j] => i = j

QueueOK(w) == Sits(toexec, "queued", w)
TomainOK(w) == Sits(tomain_fibers, "tomain", w)
DueOK(w) == Sits(timedout, "due", w)
FreeOK(w) == Sits(free_fibers, "free", w)
FreshSlots(w) == \A p \in Slots : p > nfibers => w[p] = "fresh"
HeldOK(w) == \A p \in Slots : fiber_refs[p] > 0 => w[p] = "held" /\ fiber_refs[p] = 1

\* A token that is taken is the one its fiber counts on; the others are in the
\* slab's free list, once.
ArmedOK(w) ==
    /\ \A tk \in Tokens :
         slab[tk] # None => w[slab[tk]] = "armed" /\ fibers[slab[tk]].wtoken = tk
    /\ \A i \in DOMAIN vacant : slab[vacant[i]] = None
    /\ \A i, j \in DOMAIN vacant : vacant[i] = vacant[j] => i = j

\* A fiber that can be stepped into: before its first instruction, or in a call
\* that is over.
Ready(f) ==
    /\ f.func
    /\ \/ f.op = "start" /\ f.param /\ f.result = "none"
       \/ f.op = "resp_chunk" /\ f.state = "Stacked" /\ f.result = "none"
       \/ f.op = "join_main" /\ f.state = "Stacked" /\ f.result # "chunk"

Joined(f) == f.func /\ f.op = "join_main" /\ f.state = "Stacked" /\ f.result = "none"
PlainTimer(f) == ~f.func /\ f.op = "start" /\ f.result # "reply"
AtWork(f) == f.func /\ f.op = "user" /\ f.state = "Stacked" /\ f.result = "none"
Streams(f) == f.func /\ f.op = "resp_chunk" /\ f.state = "Stacked" /\ f.result = "chunk"
Done(f) == f.state = "Closed" /\ f.result # "reply"

Alone(f) == f.parent = None /\ f.children = <<>> /\ f.sock = "Empty" /\ ~f.connect_param

FiberOK(f, where) ==
    /\ Alone(f)
    /\ where = "queued" => Ready(f)
    /\ where \in {"tomain", "held"} => Joined(f)
    /\ where \in {"armed", "due"} => (Ready(f) /\ f.op = "start") \/ PlainTimer(f)
    /\ (where \in {"armed", "due"}) <=> (f.wtoken # None)

FibersOK(w) == \A p \in Slots : FiberOK(fibers[p], w[p])

\* What the places mean the other way round.
TimersOK(w) ==
    \A p \in Slots :
      /\ w[p] = "armed" => slab[fibers[p].wtoken] = p
      /\ w[p] = "due" => p \in Range(timedout)

\* The fiber that control is in.
CurOK(w) ==
    /\ at = "step_into" => w[cur] = "running" /\ (Ready(Me) \/ PlainTimer(Me))
    /\ at = "resumed" => w[cur] = "running" /\ Ready(Me)
    /\ at = "fiber" => w[cur] = "running" /\ AtWork(Me)
    /\ at = "stepped_out" => \/ w[cur] = "running" /\ (Streams(Me) \/ Done(Me))
                             \/ w[cur] = "tomain"
    /\ at # "panic"

\* Timers that fired are dealt with before the next poll, and before a TimerRef
\* is dropped.
FiredOK == timedout # <<>> => at # "events" /\ (at \in {"main", "timers"} => smth)

Located(w) ==
    /\ w \in [Slots -> Wheres]
    /\ QueueOK(w) /\ TomainOK(w) /\ DueOK(w) /\ FreeOK(w) /\ FreshSlots(w) /\ HeldOK(w)
    /\ ArmedOK(w) /\ FibersOK(w) /\ TimersOK(w) /\ CurOK(w)

OneWaker == (\E w \in [Slots -> Wheres] : Located(w)) /\ FiredOK /\ edge = {} /\ NoEcho


-----------------------------------------------------------------------------
(* Slots that move from one place to another.                              *)

LEMMA NoneApart == None \notin Slots /\ None \notin Tokens
  BY DEF None, Slots, Tokens

LEMMA ListStays ==
  ASSUME NEW seq \in Seq(Slots), NEW w \in [Slots -> Wheres], NEW p \in Slots, NEW b, NEW where,
         Sits(seq, where, w), w[p] # where
  PROVE  Sits(seq, where, [w EXCEPT ![p] = b])
  BY DEF Sits

LEMMA ListGrows ==
  ASSUME NEW seq \in Seq(Slots), NEW w \in [Slots -> Wheres], NEW p \in Slots, NEW where,
         Sits(seq, where, w), w[p] # where
  PROVE  Sits(Append(seq, p), where, [w EXCEPT ![p] = where])
<1>1. /\ DOMAIN Append(seq, p) = 1 .. Len(seq) + 1 /\ Append(seq, p)[Len(seq) + 1] = p
      /\ DOMAIN seq = 1 .. Len(seq) /\ Len(seq) \in Nat
      /\ \A i \in DOMAIN seq : Append(seq, p)[i] = seq[i] /\ seq[i] \in Slots
  OBVIOUS
<1>2. \A i \in DOMAIN Append(seq, p) : i \in DOMAIN seq \/ i = Len(seq) + 1
  BY <1>1
<1>3. \A i \in DOMAIN seq : seq[i] # p /\ w[seq[i]] = where
  BY DEF Sits
<1> QED BY <1>1, <1>2, <1>3 DEF Sits

LEMMA ListShrinks ==
  ASSUME NEW seq \in Seq(Slots), NEW w \in [Slots -> Wheres], NEW p \in Slots, NEW b, NEW where,
         Sits(seq, where, w), seq # <<>>, p = Head(seq)
  PROVE  Sits(Tail(seq), where, [w EXCEPT ![p] = b])
<1>1. /\ 1 \in DOMAIN seq /\ seq[1] = p
      /\ \A i \in DOMAIN Tail(seq) : /\ i + 1 \in DOMAIN seq /\ i + 1 # 1
                                     /\ Tail(seq)[i] = seq[i + 1] /\ seq[i + 1] \in Slots
  OBVIOUS
<1>2. \A i, j \in DOMAIN Tail(seq) : i + 1 = j + 1 => i = j
  OBVIOUS
<1>3. \A i \in DOMAIN Tail(seq) : Tail(seq)[i] # p /\ w[Tail(seq)[i]] = where
  BY <1>1 DEF Sits
<1>4. \A i, j \in DOMAIN Tail(seq) : Tail(seq)[i] = Tail(seq)[j] => i = j
  BY <1>1, <1>2 DEF Sits
<1> QED BY <1>1, <1>3, <1>4 DEF Sits

\* Slot p goes from place a to place b.
Moves(w, p, a, b, v) ==
    /\ w \in [Slots -> Wheres] /\ p \in Slots /\ w[p] = a /\ b \in Wheres
    /\ v = [w EXCEPT ![p] = b]

\* The lists that p was not in and does not get into.
LEMMA Elsewhere ==
  ASSUME TypeOK, NEW w, Located(w), NEW p, NEW a, NEW b, NEW v, Moves(w, p, a, b, v)
  PROVE  /\ UNCHANGED toexec /\ a # "queued" => QueueOK(v)'
         /\ UNCHANGED tomain_fibers /\ a # "tomain" => TomainOK(v)'
         /\ UNCHANGED timedout /\ a # "due" => DueOK(v)'
         /\ UNCHANGED free_fibers /\ a # "free" => FreeOK(v)'
         /\ UNCHANGED nfibers /\ a # "fresh" => FreshSlots(v)'
         /\ UNCHANGED fiber_refs /\ a # "held" => HeldOK(v)'
<1>0. w \in [Slots -> Wheres] /\ p \in Slots /\ w[p] = a /\ v = [w EXCEPT ![p] = b]
  BY DEF Moves
<1>1. ASSUME UNCHANGED toexec, a # "queued" PROVE QueueOK(v)'
  <2>1. Sits(toexec, "queued", v)
    BY <1>0, <1>1, ListStays DEF Located, QueueOK, TypeOK
  <2> QED BY <1>1, <2>1 DEF QueueOK, Sits
<1>2. ASSUME UNCHANGED tomain_fibers, a # "tomain" PROVE TomainOK(v)'
  <2>1. Sits(tomain_fibers, "tomain", v)
    BY <1>0, <1>2, ListStays DEF Located, TomainOK, TypeOK
  <2> QED BY <1>2, <2>1 DEF TomainOK, Sits
<1>3. ASSUME UNCHANGED timedout, a # "due" PROVE DueOK(v)'
  <2>1. Sits(timedout, "due", v)
    BY <1>0, <1>3, ListStays DEF Located, DueOK, TypeOK
  <2> QED BY <1>3, <2>1 DEF DueOK, Sits
<1>4. ASSUME UNCHANGED free_fibers, a # "free" PROVE FreeOK(v)'
  <2>1. Sits(free_fibers, "free", v)
    BY <1>0, <1>4, ListStays DEF Located, FreeOK, TypeOK
  <2> QED BY <1>4, <2>1 DEF FreeOK, Sits
<1>5. ASSUME UNCHANGED nfibers, a # "fresh" PROVE FreshSlots(v)'
  BY <1>0, <1>5 DEF Located, FreshSlots
<1>6. ASSUME UNCHANGED fiber_refs, a # "held" PROVE HeldOK(v)'
  BY <1>0, <1>6 DEF Located, HeldOK
<1> QED BY <1>1, <1>2, <1>3, <1>4, <1>5, <1>6

\* The fibers, and the timers if p has none before and after.
LEMMA OthersKept ==
  ASSUME TypeOK, NEW w, Located(w), NEW p, NEW a, NEW b, NEW v, Moves(w, p, a, b, v),
         NEW f, Update(p, f), FiberOK(f, b)
  PROVE  /\ FibersOK(v)'
         /\ UNCHANGED <<slab, vacant>> /\ a # "armed" => ArmedOK(v)'
         /\ UNCHANGED <<slab, timedout>> /\ b \notin {"armed", "due"} => TimersOK(v)'
<1>0. w \in [Slots -> Wheres] /\ p \in Slots /\ w[p] = a /\ v = [w EXCEPT ![p] = b]
  BY DEF Moves
<1>1. /\ v[p] = b /\ \A q \in Slots : q # p => v[q] = w[q]
      /\ fibers'[p] = f /\ \A q \in Slots : q # p => fibers'[q] = fibers[q]
  BY <1>0 DEF Update, TypeOK
<1>2. FibersOK(v)'
  <2>1. ASSUME NEW q \in Slots PROVE FiberOK(fibers'[q], v[q])
    BY <1>1 DEF Located, FibersOK
  <2> QED BY <2>1 DEF FibersOK, FiberOK, Alone, Ready, Joined, PlainTimer
<1>3. ASSUME UNCHANGED <<slab, vacant>>, a # "armed" PROVE ArmedOK(v)'
  <2>1. ArmedOK(w)
    BY DEF Located
  <2>2. \A tk \in Tokens : slab[tk] # None => slab[tk] \in Slots /\ slab[tk] # p
    BY <1>0, <1>3, <2>1 DEF ArmedOK, TypeOK
  <2> QED BY <1>1, <1>3, <2>1, <2>2 DEF ArmedOK
<1>4. ASSUME UNCHANGED <<slab, timedout>>, b \notin {"armed", "due"} PROVE TimersOK(v)'
  <2>1. TimersOK(w)
    BY DEF Located
  <2> QED BY <1>1, <1>4, <2>1 DEF TimersOK, Range
<1> QED BY <1>2, <1>3, <1>4

\* Nothing moves.
LEMMA AllStay ==
  ASSUME NEW w, Located(w), CurOK(w)',
         UNCHANGED <<toexec, tomain_fibers, timedout, free_fibers, nfibers, fiber_refs, slab, vacant,
                     fibers>>
  PROVE  Located(w)'
<1>1. QueueOK(w)' /\ TomainOK(w)' /\ DueOK(w)' /\ FreeOK(w)'
  BY DEF Located, QueueOK, TomainOK, DueOK, FreeOK, Sits
<1>2. FreshSlots(w)' /\ HeldOK(w)' /\ ArmedOK(w)'
  BY DEF Located, FreshSlots, HeldOK, ArmedOK
<1>3. FibersOK(w)' /\ TimersOK(w)'
  BY DEF Located, FibersOK, FiberOK, Alone, Ready, Joined, PlainTimer, TimersOK, Range
<1> QED BY <1>1, <1>2, <1>3 DEF Located


-----------------------------------------------------------------------------
(* The steps such a program can take.                                      *)

Possible ==
    \/ New("Empty", "new_processor") \/ NewTimer(TRUE) \/ NewTimer(FALSE)
    \/ RespChunk \/ JoinMain \/ Return
    \/ StepInto \/ Start \/ ResumeJoinMain \/ Resume \/ ClosedOrphan \/ ChunkToMain \/ Waits
    \/ BeginRun \/ ToexecDone \/ TimedoutDone
    \/ (\E p \in Slots : Execute(p) \/ TimerWakes(p))
    \/ BeginPoll \/ EventsDone \/ PollReturns \/ (\E tk \in Tokens : PollTimer(tk))
    \/ Main

\* What the invariant says of one fiber.
LEMMA OneFiber ==
  ASSUME TypeOK, NEW w, Located(w), NEW p \in Slots
  PROVE  FiberOK(fibers[p], w[p]) /\ Alone(fibers[p]) /\ fibers[p] \in Fiber /\ w[p] \in Wheres
  BY DEF Located, FibersOK, FiberOK, TypeOK

LEMMA OnlyPossible ==
  ASSUME NoSockets, TypeOK, NEW w, Located(w), edge = {}, Next
  PROVE  Possible
<1>0. /\ {"new_tcp", "new_udp", "new_listener", "join_tcp", "join_udp", "new_resolve", "join_resolve",
          "socket_timeout", "read", "write", "accept", "handshake", "get_child", "hibernate"}
             \cap Usage = {}
      /\ cur \in Slots /\ Me = fibers[cur]
  BY DEF NoSockets, TypeOK, Me
<1>1. /\ Alone(Me) /\ (at = "fiber" => Me.op = "user")
      /\ (at = "resumed" => Me.op \in {"start", "resp_chunk", "join_main"})
  BY <1>0, OneFiber DEF Located, CurOK, AtWork, Ready
<1>2. CASE Creates
  BY <1>0, <1>2 DEF Creates, New, Join, NewResolve, JoinResolve, ResolveFails, ListenerFails, OnMain, InFiber,
                     Possible
<1>3. CASE Calls
  <2>1. ASSUME NEW call \in {"read", "write", "accept", "handshake", "get_child"} PROVE ~InLoop(call)
    BY <1>0, <1>1, <2>1 DEF InLoop, InFiber
  <2>2. ~InFiber("socket_timeout") /\ ~InFiber("hibernate")
    BY <1>0 DEF InFiber
  <2>3. ~SocketTimeout /\ ~HibernateForRead /\ ~HibernateJoinMain
    BY <2>2 DEF SocketTimeout, HibernateForRead, HibernateJoinMain
  <2>4. ASSUME NEW call \in {"read", "write", "accept"}, NEW dir
        PROVE  ~IoReturns(call, dir) /\ ~IoBlocks(call, dir) /\ ~IoUnregistered(call, dir)
    BY <2>1, <2>4 DEF IoReturns, IoBlocks, IoUnregistered, WouldBlock
  <2>5. ~HandshakeFails /\ ~HandshakeDone /\ ~HandshakeBlocks /\ ~NoChildren /\ ~ChildBlocks
        /\ \A i : ~TakeChild(i)
    BY <2>1 DEF HandshakeFails, HandshakeDone, HandshakeBlocks, NoChildren, ChildBlocks, TakeChild
  <2> QED BY <1>3, <2>3, <2>4, <2>5 DEF Calls, Possible
<1>4. CASE Switches
  BY <1>1, <1>4 DEF Switches, ResumeIo, ClosedChild, ChunkToParent, Alone, Possible
<1>5. CASE Run
  <2>1. ASSUME NEW p \in Slots, NoAddress(p) \/ MalformedAnswer(p) \/ Connects(p) \/ ConnectFails(p)
                 \/ LookupTick(p) \/ LookupExpires(p) \/ LookupUnderflow(p)
        PROVE  FALSE
    BY <2>1, OneFiber DEF NoAddress, MalformedAnswer, Connects, ConnectFails, LookupTick,
                          LookupExpires, LookupUnderflow, Alone
  <2>2. ASSUME NEW p \in Slots, StaleTimer(p) PROVE FALSE
    <3>1. fibers[p].wtoken = None /\ timedout \in Seq(Slots) /\ timedout # <<>> /\ p = Head(timedout)
      BY <2>2 DEF StaleTimer, Expires, TypeOK
    <3>2. 1 \in DOMAIN timedout /\ p = timedout[1]
      BY <3>1
    <3>3. w[p] = "due"
      BY <3>2 DEF Located, DueOK, Sits
    <3> QED BY <3>1, <3>3, OneFiber DEF FiberOK
  <2> QED BY <1>5, <2>1, <2>2 DEF Run, Possible
<1>6. CASE Poll
  BY <1>6 DEF Poll, PollEvent, Possible
<1>7. CASE Main
  BY <1>7 DEF Possible
<1>8. CASE Environment
  BY <1>8, OneFiber DEF Environment, SocketReady, Alone
<1> QED BY <1>2, <1>3, <1>4, <1>5, <1>6, <1>7, <1>8 DEF Next


-----------------------------------------------------------------------------
(* Creating fibers.                                                        *)

\* The slot that is taken was free or beyond the vector.
LEMMA Taken ==
  ASSUME TypeOK, NEW w, Located(w), TakeSlot, free_fibers' = FreeLeft, NEW n, n = NewSlot,
         NEW b, NEW v, Moves(w, n, w[n], b, v)
  PROVE  w[n] \in {"free", "fresh"} /\ FreeOK(v)' /\ FreshSlots(v)'
<1>0. /\ w \in [Slots -> Wheres] /\ n \in Slots /\ v = [w EXCEPT ![n] = b]
      /\ free_fibers \in Seq(Slots) /\ nfibers \in 0 .. NumSlots
      /\ FreeOK(w) /\ FreshSlots(w)
  BY DEF Moves, TypeOK, Located
<1>1. CASE free_fibers # <<>>
  <2>1. /\ n = Head(free_fibers) /\ nfibers' = nfibers /\ free_fibers' = Tail(free_fibers)
    BY <1>1 DEF NewSlot, TakeSlot, FreeLeft
  <2>2. 1 \in DOMAIN free_fibers /\ n = free_fibers[1]
    BY <1>0, <1>1, <2>1
  <2>3. w[n] = "free"
    BY <1>0, <2>2 DEF FreeOK, Sits
  <2>4. Sits(Tail(free_fibers), "free", v)
    BY <1>0, <1>1, <2>1, ListShrinks DEF FreeOK
  <2>5. FreeOK(v)'
    BY <2>1, <2>4 DEF FreeOK, Sits
  <2>6. FreshSlots(v)'
    BY <2>1, <2>3, Elsewhere
  <2> QED BY <2>3, <2>5, <2>6
<1>2. CASE free_fibers = <<>>
  <2>1. /\ n = nfibers + 1 /\ nfibers' = nfibers + 1 /\ free_fibers' = <<>>
    BY <1>2 DEF NewSlot, TakeSlot, FreeLeft
  <2>2. n > nfibers
    BY <1>0, <2>1
  <2>3. w[n] = "fresh"
    BY <1>0, <2>2 DEF FreshSlots
  <2>4. FreeOK(v)'
    BY <2>1 DEF FreeOK, Sits
  <2>5. \A q \in Slots : q > nfibers + 1 => q # n /\ q > nfibers
    BY <1>0, <2>1 DEF Slots
  <2>6. FreshSlots(v)'
    BY <1>0, <2>1, <2>5 DEF FreshSlots
  <2> QED BY <2>3, <2>4, <2>6
<1> QED BY <1>1, <1>2

\* register() of a fiber without a parent.
LEMMA RegisteredAlone ==
  ASSUME TypeOK, NEW f, NEW schedule, register(f, schedule), f.parent = None, NEW n, n = NewSlot
  PROVE  /\ n \in Slots /\ Update(n, f) /\ TakeSlot /\ free_fibers' = FreeLeft
         /\ IF schedule THEN toexec' = Append(toexec, n) ELSE UNCHANGED toexec
         /\ edge' = edge \ {n}
  BY DEF register, WithParent, Update, TakeSlot, SlotLeft, push_toexec, SocketDropped

\* The lists are as before, but for the one that n gets into.
LEMMA NewKeeps ==
  ASSUME TypeOK, OneWaker, New("Empty", "new_processor")
  PROVE  OneWaker'
<1>0. PICK w \in [Slots -> Wheres] : Located(w)
  BY DEF OneWaker
<1>1. PICK n, f : n = NewSlot /\ f = NewFiber(TRUE, "Empty", TRUE, None)
  OBVIOUS
<1>2. /\ f.parent = None /\ Ready(f) /\ Alone(f) /\ f.wtoken = None
  BY <1>1 DEF NewFiber, Ready, Alone
<1>3. /\ n \in Slots /\ Update(n, f) /\ TakeSlot /\ free_fibers' = FreeLeft
      /\ toexec' = Append(toexec, n) /\ edge' = edge \ {n}
      /\ at \in {"main", "fiber"}
      /\ UNCHANGED <<timedout, slab, vacant, tomain_fibers, results, fiber_refs, smth>>
  <2>1. register(f, TRUE) /\ at \in {"main", "fiber"}
        /\ UNCHANGED <<timedout, slab, vacant, tomain_fibers, results, fiber_refs, smth>>
    BY <1>1 DEF New, OnMain, InFiber, timerVars, outVars, mainVars
  <2> QED BY <1>1, <1>2, <2>1, RegisteredAlone
<1>4. PICK v : v = [w EXCEPT ![n] = "queued"]
  OBVIOUS
<1>5. Moves(w, n, w[n], "queued", v) /\ v \in [Slots -> Wheres]
  BY <1>3, <1>4 DEF Moves, Wheres
<1>6. w[n] \in {"free", "fresh"} /\ FreeOK(v)' /\ FreshSlots(v)'
  BY <1>0, <1>1, <1>3, <1>5, Taken
<1>7. TomainOK(v)' /\ DueOK(v)' /\ HeldOK(v)'
  BY <1>0, <1>3, <1>5, <1>6, Elsewhere
<1>8. FiberOK(f, "queued")
  BY <1>2 DEF FiberOK
<1>9. FibersOK(v)' /\ ArmedOK(v)' /\ TimersOK(v)'
  BY <1>0, <1>3, <1>5, <1>6, <1>8, OthersKept
<1>10. QueueOK(v)'
  <2>1. Sits(Append(toexec, n), "queued", v)
    BY <1>0, <1>3, <1>4, <1>6, ListGrows DEF Located, QueueOK, TypeOK
  <2> QED BY <1>3, <2>1 DEF QueueOK, Sits
<1>11. at = "fiber" => w[cur] = "running" /\ AtWork(Me) /\ n # cur
  BY <1>0, <1>6 DEF Located, CurOK
<1>12. at' = at /\ cur' = cur
  BY <1>1, <1>3, <1>11 DEF TakeSlot, Goto
<1>13. CurOK(v)'
  <2>1. CASE at = "main"
    BY <1>12, <2>1 DEF CurOK
  <2>2. CASE at = "fiber"
    <3>1. cur \in Slots /\ v[cur] = "running" /\ fibers'[cur] = Me
      BY <1>0, <1>3, <1>4, <1>11, <2>2 DEF TypeOK, Update, Me
    <3> QED BY <1>11, <1>12, <2>2, <3>1 DEF CurOK, Me, AtWork
  <2> QED BY <1>3, <2>1, <2>2
<1>14. Located(v)'
  BY <1>5, <1>6, <1>7, <1>9, <1>10, <1>13 DEF Located
<1>15. FiredOK' /\ edge' = {} /\ NoEcho'
  BY <1>3, <1>12 DEF OneWaker, FiredOK, NoEcho, Range
<1> QED BY <1>5, <1>14, <1>15 DEF OneWaker

\* A timer is set for n, which had none.
LEMMA Arms ==
  ASSUME TypeOK, NEW w, Located(w), NEW n, NEW v, NEW f, NEW tk, Update(n, f), f.wtoken = tk,
         Moves(w, n, w[n], "armed", v), w[n] # "armed", vacant # <<>>, tk = Head(vacant),
         slab' = [slab EXCEPT ![tk] = n], vacant' = Tail(vacant), UNCHANGED timedout
  PROVE  ArmedOK(v)' /\ TimersOK(v)'
<1>0. /\ w \in [Slots -> Wheres] /\ n \in Slots /\ v = [w EXCEPT ![n] = "armed"]
      /\ ArmedOK(w) /\ TimersOK(w) /\ vacant \in Seq(Tokens) /\ slab \in [Tokens -> Slots \cup {None}]
      /\ fibers \in [Slots -> Fiber]
  BY DEF Moves, Located, TypeOK
<1>1. /\ 1 \in DOMAIN vacant /\ tk = vacant[1] /\ tk \in Tokens
      /\ \A i \in DOMAIN vacant' : /\ i + 1 \in DOMAIN vacant /\ i + 1 # 1
                                   /\ vacant'[i] = vacant[i + 1] /\ vacant[i + 1] \in Tokens
      /\ \A i, j \in DOMAIN vacant' : i + 1 = j + 1 => i = j
  BY <1>0
<1>2. slab[tk] = None /\ slab'[tk] = n /\ \A t \in Tokens : t # tk => slab'[t] = slab[t]
  BY <1>0, <1>1 DEF ArmedOK
<1>3. /\ v[n] = "armed" /\ \A q \in Slots : q # n => v[q] = w[q]
      /\ fibers'[n] = f /\ \A q \in Slots : q # n => fibers'[q] = fibers[q]
  BY <1>0 DEF Update
<1>4. ASSUME NEW t \in Tokens, slab'[t] # None
      PROVE  v[slab'[t]] = "armed" /\ fibers'[slab'[t]].wtoken = t
  <2>1. CASE t = tk
    BY <1>2, <1>3, <2>1
  <2>2. CASE t # tk
    <3>1. slab'[t] = slab[t] /\ slab[t] \in Slots /\ w[slab[t]] = "armed" /\ fibers[slab[t]].wtoken = t
      BY <1>0, <1>2, <1>4, <2>2 DEF ArmedOK
    <3>2. slab[t] # n
      BY <3>1
    <3> QED BY <1>3, <3>1, <3>2
  <2> QED BY <2>1, <2>2
<1>5. \A i \in DOMAIN vacant' : slab'[vacant'[i]] = None
  <2> TAKE i \in DOMAIN vacant'
  <2>1. vacant'[i] = vacant[i + 1] /\ vacant[i + 1] # tk /\ slab[vacant[i + 1]] = None
    BY <1>0, <1>1 DEF ArmedOK
  <2> QED BY <1>1, <1>2, <2>1
<1>6. \A i, j \in DOMAIN vacant' : vacant'[i] = vacant'[j] => i = j
  BY <1>0, <1>1 DEF ArmedOK
<1>7. ArmedOK(v)'
  BY <1>4, <1>5, <1>6 DEF ArmedOK
<1>8. ASSUME NEW q \in Slots, v[q] = "armed" PROVE slab'[fibers'[q].wtoken] = q
  <2>1. CASE q = n
    BY <1>2, <1>3, <2>1
  <2>2. CASE q # n
    <3>1. fibers'[q] = fibers[q] /\ slab[fibers[q].wtoken] = q /\ w[q] = "armed"
      BY <1>0, <1>3, <1>8, <2>2 DEF TimersOK
    <3>2. fibers[q].wtoken \in Tokens
      BY <1>0, <3>1, OneFiber DEF FiberOK, Fiber
    <3>3. q # None
      BY NoneApart
    <3> QED BY <1>2, <3>1, <3>2, <3>3
  <2> QED BY <2>1, <2>2
<1>9. \A q \in Slots : v[q] = "due" => q \in Range(timedout)
  BY <1>0, <1>3 DEF TimersOK
<1>10. TimersOK(v)'
  BY <1>8, <1>9 DEF TimersOK, Range
<1> QED BY <1>7, <1>10

LEMMA NewTimerKeeps ==
  ASSUME TypeOK, OneWaker, NEW func \in BOOLEAN, NewTimer(func)
  PROVE  OneWaker'
<1>0. PICK w \in [Slots -> Wheres] : Located(w)
  BY DEF OneWaker
<1>1. PICK n, tk : n = NewSlot /\ tk = NextToken
  OBVIOUS
<1>2. PICK r : r = IF func THEN "none" ELSE "chunk"
  OBVIOUS
<1>3. PICK f : f = [NewFiber(func, "Empty", func, None) EXCEPT !.result = r, !.wtoken = tk]
  OBVIOUS
<1>4. /\ f.parent = None /\ Alone(f) /\ f.wtoken = tk
      /\ f.func = func /\ f.op = "start" /\ f.param = func /\ f.result = r
  BY <1>3 DEF NewFiber, Alone
<1>5. (Ready(f) /\ f.op = "start") \/ PlainTimer(f)
  BY <1>2, <1>4 DEF Ready, PlainTimer
<1>6. /\ at = "main" /\ timer_reg(n) /\ register(f, FALSE)
      /\ UNCHANGED <<timedout, tomain_fibers, results, fiber_refs, smth>>
  BY <1>1, <1>2, <1>3 DEF NewTimer, OnMain, outVars
<1>7. /\ n \in Slots /\ Update(n, f) /\ TakeSlot /\ free_fibers' = FreeLeft
      /\ UNCHANGED toexec /\ edge' = edge \ {n}
  BY <1>1, <1>4, <1>6, RegisteredAlone
<1>8. at' = "main" /\ cur' = cur
  BY <1>6, <1>7 DEF TakeSlot, Goto
<1>9. PICK b : b = IF vacant = <<>> THEN "lost" ELSE "armed"
  OBVIOUS
<1>10. PICK v : v = [w EXCEPT ![n] = b]
  OBVIOUS
<1>11. Moves(w, n, w[n], b, v) /\ v \in [Slots -> Wheres]
  BY <1>7, <1>9, <1>10 DEF Moves, Wheres
<1>12. w[n] \in {"free", "fresh"} /\ FreeOK(v)' /\ FreshSlots(v)'
  BY <1>0, <1>1, <1>7, <1>11, Taken
<1>13. QueueOK(v)' /\ TomainOK(v)' /\ DueOK(v)' /\ HeldOK(v)'
  BY <1>0, <1>6, <1>7, <1>11, <1>12, Elsewhere
<1>14. FiberOK(f, b)
  <2>1. vacant = <<>> => tk = None
    BY <1>1 DEF NextToken
  <2>2. vacant # <<>> => tk \in Tokens
    BY <1>1 DEF NextToken, TypeOK
  <2> QED BY <1>4, <1>5, <1>9, <2>1, <2>2, NoneApart DEF FiberOK
<1>15. FibersOK(v)'
  BY <1>0, <1>7, <1>11, <1>14, OthersKept
<1>16. ArmedOK(v)' /\ TimersOK(v)'
  <2>1. CASE vacant = <<>>
    <3>1. UNCHANGED <<slab, vacant, timedout>>
      BY <1>6, <2>1 DEF timer_reg
    <3> QED BY <1>0, <1>7, <1>9, <1>11, <1>12, <1>14, <2>1, <3>1, OthersKept
  <2>2. CASE vacant # <<>>
    <3>1. /\ tk = Head(vacant) /\ slab' = [slab EXCEPT ![tk] = n] /\ vacant' = Tail(vacant)
          /\ UNCHANGED timedout /\ b = "armed"
      BY <1>1, <1>6, <1>9, <2>2 DEF timer_reg, NextToken
    <3> QED BY <1>0, <1>4, <1>7, <1>11, <1>12, <2>2, <3>1, Arms
  <2> QED BY <2>1, <2>2
<1>17. CurOK(v)'
  BY <1>8 DEF CurOK
<1>18. Located(v)'
  BY <1>11, <1>12, <1>13, <1>15, <1>16, <1>17 DEF Located
<1>19. FiredOK' /\ edge' = {} /\ NoEcho'
  BY <1>6, <1>7, <1>8 DEF OneWaker, FiredOK, NoEcho, Range
<1> QED BY <1>11, <1>18, <1>19 DEF OneWaker


-----------------------------------------------------------------------------
(* The running fiber.                                                      *)

\* The running fiber goes on, or steps out closed or with a chunk.
LEMMA StillRunning ==
  ASSUME TypeOK, OneWaker, NEW w, Located(w), NEW p, p = cur, w[p] = "running",
         NEW f, Update(p, f), Alone(f), f.wtoken = None, cur' = cur,
         UNCHANGED <<toexec, tomain_fibers, timedout, free_fibers, nfibers, fiber_refs, slab, vacant,
                     edge, results>>,
         at' \in {"resumed", "fiber", "stepped_out"},
         at' = "resumed" => Ready(f), at' = "fiber" => AtWork(f),
         at' = "stepped_out" => Streams(f) \/ Done(f)
  PROVE  OneWaker'
<1>1. w \in [Slots -> Wheres] /\ p \in Slots /\ w = [w EXCEPT ![p] = "running"]
  BY DEF Located, TypeOK
<1>2. Moves(w, p, "running", "running", w)
  BY <1>1 DEF Moves, Wheres
<1>3. QueueOK(w)' /\ TomainOK(w)' /\ DueOK(w)' /\ FreeOK(w)' /\ FreshSlots(w)' /\ HeldOK(w)'
  BY <1>2, Elsewhere
<1>4. FiberOK(f, "running")
  BY DEF FiberOK
<1>5. FibersOK(w)' /\ ArmedOK(w)' /\ TimersOK(w)'
  BY <1>2, <1>4, OthersKept
<1>6. fibers'[p] = f
  BY <1>1 DEF Update, TypeOK
<1>7. CurOK(w)'
  BY <1>6 DEF CurOK, Me, Ready, AtWork, Streams, Done
<1>8. Located(w)'
  BY <1>1, <1>3, <1>5, <1>7 DEF Located
<1>9. FiredOK' /\ edge' = {} /\ NoEcho'
  BY DEF OneWaker, FiredOK, NoEcho, Range
<1> QED BY <1>1, <1>8, <1>9 DEF OneWaker

\* What the invariant says of the fiber that control is in.
LEMMA InCur ==
  ASSUME TypeOK, NEW w, Located(w), NEW p, p = cur
  PROVE  /\ p \in Slots /\ Me = fibers[p] /\ Me \in Fiber /\ Alone(Me)
         /\ (w[p] = "running" => Me.wtoken = None) /\ (w[p] = "tomain" => Joined(Me))
         /\ (at \in {"step_into", "resumed", "fiber"} => w[p] = "running")
<1>1. p \in Slots /\ Me = fibers[p]
  BY DEF TypeOK, Me
<1>2. FiberOK(fibers[p], w[p]) /\ Alone(fibers[p]) /\ fibers[p] \in Fiber
  BY <1>1, OneFiber
<1> QED BY <1>1, <1>2 DEF FiberOK, Located, CurOK

LEMMA RunningKeeps ==
  ASSUME TypeOK, OneWaker, RespChunk \/ Return \/ StepInto \/ Start \/ ResumeJoinMain \/ Resume
  PROVE  OneWaker'
<1> USE DEF OnlyFibers, pollerVars, timerVars, slotVars, outVars, mainVars, sockVars
<1>0. PICK w \in [Slots -> Wheres] : Located(w)
  BY DEF OneWaker
<1>1. PICK p : p = cur
  OBVIOUS
<1>2. /\ p \in Slots /\ Me = fibers[p] /\ Me \in Fiber /\ Alone(Me)
      /\ w[p] = "running" /\ Me.wtoken = None
  <2>1. at \in {"step_into", "resumed", "fiber"}
    BY DEF RespChunk, Return, StepInto, Start, ResumeJoinMain, Resume, InFiber
  <2> QED BY <1>0, <1>1, <2>1, InCur
<1>3. /\ (at = "step_into" => Ready(Me) \/ PlainTimer(Me)) /\ (at = "resumed" => Ready(Me))
      /\ (at = "fiber" => AtWork(Me))
  BY <1>0 DEF Located, CurOK
<1>4. /\ cur' = cur
      /\ UNCHANGED <<toexec, tomain_fibers, timedout, free_fibers, nfibers, fiber_refs, slab, vacant,
                     edge, results>>
  BY DEF RespChunk, Return, StepInto, Start, ResumeJoinMain, Resume, Goto
<1>5. \E f : /\ Update(p, f) /\ Alone(f) /\ f.wtoken = None
             /\ at' \in {"resumed", "fiber", "stepped_out"}
             /\ (at' = "resumed" => Ready(f)) /\ (at' = "fiber" => AtWork(f))
             /\ (at' = "stepped_out" => Streams(f) \/ Done(f))
  <2>1. CASE RespChunk
    <3>1. PICK f : f = [Me EXCEPT !.result = "chunk", !.op = "resp_chunk"]
      OBVIOUS
    <3>2. Update(p, f) /\ at' = "stepped_out" /\ at = "fiber"
      BY <1>1, <2>1, <3>1 DEF RespChunk, Goto, InFiber
    <3>3. Alone(f) /\ f.wtoken = None /\ Streams(f)
      BY <1>2, <1>3, <3>1, <3>2 DEF Fiber, Alone, AtWork, Streams
    <3> QED BY <3>2, <3>3
  <2>2. CASE Return
    <3>1. PICK r \in {"none", "chunk"} : Update(p, [Me EXCEPT !.result = r, !.state = "Closed"])
      BY <1>1, <2>2 DEF Return
    <3>2. PICK f : f = [Me EXCEPT !.result = r, !.state = "Closed"]
      OBVIOUS
    <3>3. Update(p, f) /\ at' = "stepped_out"
      BY <2>2, <3>1, <3>2 DEF Return, Goto
    <3>4. Alone(f) /\ f.wtoken = None /\ Done(f)
      BY <1>2, <3>1, <3>2 DEF Fiber, Alone, Done
    <3> QED BY <3>3, <3>4
  <2>3. CASE StepInto /\ ~Me.func
    <3>1. PICK f : f = [Me EXCEPT !.state = "Closed"]
      OBVIOUS
    <3>2. Update(p, f) /\ at' = "stepped_out" /\ at = "step_into"
      BY <1>1, <2>3, <3>1 DEF StepInto, Goto
    <3>3. Me.result # "reply"
      BY <1>3, <2>3, <3>2 DEF Ready, PlainTimer
    <3>4. Alone(f) /\ f.wtoken = None /\ Done(f)
      BY <1>2, <3>1, <3>3 DEF Fiber, Alone, Done
    <3> QED BY <3>2, <3>4
  <2>4. CASE StepInto /\ Me.func /\ Me.stack = None
    <3>1. PICK f : f = [Me EXCEPT !.stack = PoppedStack(StacksInUse)]
      OBVIOUS
    <3>2. Update(p, f) /\ at' = "resumed" /\ at = "step_into"
      BY <1>1, <2>4, <3>1 DEF StepInto, Goto
    <3>3. Ready(Me)
      BY <1>3, <2>4, <3>2 DEF PlainTimer
    <3>4. Alone(f) /\ f.wtoken = None /\ Ready(f)
      BY <1>2, <3>1, <3>3 DEF Fiber, Alone, Ready
    <3> QED BY <3>2, <3>4
  <2>5. CASE StepInto /\ Me.func /\ Me.stack # None
    <3>1. UNCHANGED fibers /\ at' = "resumed" /\ at = "step_into"
      BY <2>5 DEF StepInto, Goto
    <3>2. Ready(Me)
      BY <1>3, <2>5, <3>1 DEF PlainTimer
    <3>3. Update(p, Me)
      BY <1>2, <3>1 DEF Update, TypeOK
    <3> QED BY <1>2, <3>1, <3>2, <3>3
  <2>6. CASE Start
    <3>1. PICK f : f = [Me EXCEPT !.state = "Stacked", !.param = FALSE, !.op = "user"]
      OBVIOUS
    <3>2. Update(p, f) /\ at' = (IF Me.param THEN "fiber" ELSE "panic") /\ at = "resumed"
          /\ Me.op = "start"
      BY <1>1, <2>6, <3>1 DEF Start, Goto
    <3>3. Me.param /\ Me.func /\ Me.result = "none"
      BY <1>3, <3>2 DEF Ready
    <3>4. Alone(f) /\ f.wtoken = None /\ AtWork(f)
      BY <1>2, <3>1, <3>3 DEF Fiber, Alone, AtWork
    <3> QED BY <3>2, <3>3, <3>4
  <2>7. CASE ResumeJoinMain
    <3>1. PICK f : f = [Me EXCEPT !.result = "none", !.op = "user"]
      OBVIOUS
    <3>2. Update(p, f) /\ at' = "fiber" /\ at = "resumed" /\ Me.op = "join_main"
      BY <1>1, <2>7, <3>1 DEF ResumeJoinMain, Goto
    <3>3. Alone(f) /\ f.wtoken = None /\ AtWork(f)
      BY <1>2, <1>3, <3>1, <3>2 DEF Fiber, Alone, AtWork, Ready
    <3> QED BY <3>2, <3>3
  <2>8. CASE Resume
    <3>1. PICK f : f = [Me EXCEPT !.op = IF Me.op = "resp_chunk" THEN "user" ELSE Me.op]
      OBVIOUS
    <3>2. Update(p, f) /\ at' = "fiber" /\ at = "resumed" /\ Me.op \in {"resp_chunk", "accept", "get_child"}
      BY <1>1, <2>8, <3>1 DEF Resume, Goto
    <3>3. Me.op = "resp_chunk" /\ Me.func /\ Me.state = "Stacked" /\ Me.result = "none"
      BY <1>3, <3>2 DEF Ready
    <3>4. Alone(f) /\ f.wtoken = None /\ AtWork(f)
      BY <1>2, <3>1, <3>3 DEF Fiber, Alone, AtWork
    <3> QED BY <3>2, <3>4
  <2> QED BY <2>1, <2>2, <2>3, <2>4, <2>5, <2>6, <2>7, <2>8
<1> HIDE DEF OnlyFibers, pollerVars, timerVars, slotVars, outVars, mainVars, sockVars
<1> QED BY <1>0, <1>1, <1>2, <1>4, <1>5, StillRunning


LEMMA JoinMainKeeps ==
  ASSUME TypeOK, OneWaker, JoinMain
  PROVE  OneWaker'
<1>0. PICK w \in [Slots -> Wheres] : Located(w)
  BY DEF OneWaker
<1>1. PICK p : p = cur
  OBVIOUS
<1>2. PICK f : f = [Me EXCEPT !.op = "join_main"]
  OBVIOUS
<1>3. /\ at = "fiber" /\ at' = "stepped_out" /\ cur' = cur /\ Update(p, f)
      /\ tomain_fibers' = Append(tomain_fibers, p)
      /\ UNCHANGED <<toexec, timedout, free_fibers, nfibers, fiber_refs, slab, vacant, edge, results>>
  BY <1>1, <1>2 DEF JoinMain, InFiber, Goto, pollerVars, timerVars, slotVars, mainVars, sockVars
<1>4. /\ p \in Slots /\ Me = fibers[p] /\ Me \in Fiber /\ Alone(Me)
      /\ w[p] = "running" /\ Me.wtoken = None /\ AtWork(Me)
  BY <1>0, <1>1, <1>3, InCur DEF Located, CurOK
<1>5. Alone(f) /\ f.wtoken = None /\ Joined(f)
  BY <1>2, <1>4 DEF Fiber, Alone, AtWork, Joined
<1>6. PICK v : v = [w EXCEPT ![p] = "tomain"]
  OBVIOUS
<1>7. Moves(w, p, "running", "tomain", v) /\ v \in [Slots -> Wheres] /\ v[p] = "tomain"
  BY <1>4, <1>6 DEF Moves, Wheres
<1>8. QueueOK(v)' /\ DueOK(v)' /\ FreeOK(v)' /\ FreshSlots(v)' /\ HeldOK(v)'
  BY <1>0, <1>3, <1>7, Elsewhere
<1>9. FiberOK(f, "tomain")
  BY <1>5 DEF FiberOK
<1>10. FibersOK(v)' /\ ArmedOK(v)' /\ TimersOK(v)'
  BY <1>0, <1>3, <1>7, <1>9, OthersKept
<1>11. TomainOK(v)'
  <2>1. Sits(Append(tomain_fibers, p), "tomain", v)
    BY <1>0, <1>4, <1>6, ListGrows DEF Located, TomainOK, TypeOK
  <2> QED BY <1>3, <2>1 DEF TomainOK, Sits
<1>12. CurOK(v)'
  BY <1>1, <1>3, <1>7 DEF CurOK
<1>13. Located(v)'
  BY <1>7, <1>8, <1>10, <1>11, <1>12 DEF Located
<1>14. FiredOK' /\ edge' = {} /\ NoEcho'
  BY <1>3 DEF OneWaker, FiredOK, NoEcho, Range
<1> QED BY <1>7, <1>13, <1>14 DEF OneWaker

\* take_result: what the main stack gets is not what it gave.
LEMMA ResultTaken ==
  ASSUME TypeOK, NoEcho, NEW p \in Slots, take_result(p), fibers[p].result # "reply"
  PROVE  NoEcho'
<1>1. results \in Seq(Results)
  BY DEF TypeOK
<1>2. CASE results' = results
  BY <1>2 DEF NoEcho, Range
<1>3. CASE results' = Append(results, fibers[p].result)
  <2>1. \A i \in DOMAIN results' : results'[i] = fibers[p].result \/ (i \in DOMAIN results /\ results'[i] = results[i])
    BY <1>1, <1>3
  <2>2. \A i \in DOMAIN results : results[i] # "reply"
    BY DEF NoEcho, Range
  <2>3. \A i \in DOMAIN results' : results'[i] # "reply"
    BY <2>1, <2>2
  <2> QED BY <2>3 DEF NoEcho, Range
<1> QED BY <1>2, <1>3 DEF take_result

\* unstack leaves what matters alone, and a fiber with a live stack altogether.
LEMMA UnstackedAlone ==
  ASSUME TypeOK, NEW p \in Slots, Alone(fibers[p])
  PROVE  /\ (fibers[p].state = "Stacked" => Unstacked(p) = fibers[p])
         /\ Unstacked(p) \in Fiber /\ Alone(Unstacked(p)) /\ Unstacked(p).wtoken = fibers[p].wtoken
<1>1. fibers[p] \in Fiber
  BY DEF TypeOK
<1>2. PICK f, g : f = fibers[p] /\ g = [f EXCEPT !.stack = None, !.op = "start"]
  OBVIOUS
<1>3. g \in Fiber /\ Alone(g) /\ g.wtoken = f.wtoken
  BY <1>1, <1>2 DEF Fiber, Ops, Alone
<1>4. Unstacked(p) \in {f, g} /\ (f.state = "Stacked" => Unstacked(p) = f)
  BY <1>2 DEF Unstacked, Unstacks
<1> QED BY <1>1, <1>2, <1>3, <1>4

LEMMA SteppedOutKeeps ==
  ASSUME TypeOK, OneWaker, ClosedOrphan \/ ChunkToMain \/ Waits
  PROVE  OneWaker'
<1> USE DEF timerVars, slotVars, outVars, mainVars, sockVars
<1>0. PICK w \in [Slots -> Wheres] : Located(w)
  BY DEF OneWaker
<1>1. PICK p : p = cur
  OBVIOUS
<1>2. /\ p \in Slots /\ Me = fibers[p] /\ Me \in Fiber /\ Alone(Me)
      /\ (w[p] = "running" => Me.wtoken = None) /\ (w[p] = "tomain" => Joined(Me))
  BY <1>0, <1>1, InCur
<1>3. at = "stepped_out" /\ at' = loop /\ cur' = cur /\ loop \in {"toexec", "timedout"}
  BY DEF ClosedOrphan, ChunkToMain, Waits, Goto, TypeOK
<1>4. \/ w[p] = "running" /\ (Streams(Me) \/ Done(Me))
      \/ w[p] = "tomain" /\ Joined(Me)
  BY <1>0, <1>1, <1>2, <1>3 DEF Located, CurOK
<1>5. \A v : CurOK(v)'
  BY <1>3 DEF CurOK
<1>6. CASE ClosedOrphan
  <2>1. PICK f : f = [Unstacked(p) EXCEPT !.sock = "Empty", !.result = "none"]
    OBVIOUS
  <2>2. /\ Me.state = "Closed" /\ Update(p, f) /\ take_result(p) /\ edge' = edge \ {p}
        /\ free_fibers' = Append(free_fibers, p)
        /\ UNCHANGED <<toexec, tomain_fibers, timedout, nfibers, fiber_refs, slab, vacant>>
    BY <1>1, <1>2, <1>6, <2>1 DEF ClosedOrphan, Live, SocketDropped
  <2>3. w[p] = "running" /\ Me.wtoken = None /\ Me.result # "reply"
    BY <1>2, <1>4, <2>2 DEF Streams, Joined, Done
  <2>4. Alone(f) /\ f.wtoken = None
    <3>1. Unstacked(p) \in Fiber /\ Alone(Unstacked(p)) /\ Unstacked(p).wtoken = None
      BY <1>2, <2>3, UnstackedAlone
    <3> QED BY <2>1, <3>1 DEF Fiber, Alone
  <2>5. PICK v : v = [w EXCEPT ![p] = "free"]
    OBVIOUS
  <2>6. Moves(w, p, "running", "free", v) /\ v \in [Slots -> Wheres]
    BY <1>2, <2>3, <2>5 DEF Moves, Wheres
  <2>7. QueueOK(v)' /\ TomainOK(v)' /\ DueOK(v)' /\ FreshSlots(v)' /\ HeldOK(v)'
    BY <1>0, <2>2, <2>6, Elsewhere
  <2>8. FiberOK(f, "free")
    BY <2>4 DEF FiberOK
  <2>9. FibersOK(v)' /\ ArmedOK(v)' /\ TimersOK(v)'
    BY <1>0, <2>2, <2>6, <2>8, OthersKept
  <2>10. FreeOK(v)'
    <3>1. Sits(Append(free_fibers, p), "free", v)
      BY <1>0, <1>2, <2>3, <2>5, ListGrows DEF Located, FreeOK, TypeOK
    <3> QED BY <2>2, <3>1 DEF FreeOK, Sits
  <2>11. Located(v)'
    BY <1>5, <2>6, <2>7, <2>9, <2>10 DEF Located
  <2>12. FiredOK' /\ edge' = {}
    BY <1>3, <2>2 DEF OneWaker, FiredOK
  <2>13. NoEcho'
    BY <1>2, <2>2, <2>3, ResultTaken DEF OneWaker
  <2> QED BY <2>6, <2>11, <2>12, <2>13 DEF OneWaker
<1>7. CASE ChunkToMain
  <2>1. PICK f : f = [Unstacked(p) EXCEPT !.result = "none"]
    OBVIOUS
  <2>2. /\ Me.state # "Closed" /\ Me.result # "none" /\ Update(p, f) /\ take_result(p)
        /\ toexec' = Append(toexec, p)
        /\ UNCHANGED <<edge, free_fibers, tomain_fibers, timedout, nfibers, fiber_refs, slab, vacant>>
    BY <1>1, <1>2, <1>7, <2>1 DEF ChunkToMain, Live, HasResult, push_toexec
  <2>3. w[p] = "running" /\ Me.wtoken = None /\ Streams(Me)
    BY <1>2, <1>4, <2>2 DEF Joined, Done
  <2>4. Alone(f) /\ f.wtoken = None /\ Ready(f)
    <3>1. Unstacked(p) = Me
      BY <1>2, <2>3, UnstackedAlone DEF Streams
    <3> QED BY <1>2, <2>1, <2>3, <3>1 DEF Fiber, Alone, Streams, Ready
  <2>5. PICK v : v = [w EXCEPT ![p] = "queued"]
    OBVIOUS
  <2>6. Moves(w, p, "running", "queued", v) /\ v \in [Slots -> Wheres]
    BY <1>2, <2>3, <2>5 DEF Moves, Wheres
  <2>7. TomainOK(v)' /\ DueOK(v)' /\ FreeOK(v)' /\ FreshSlots(v)' /\ HeldOK(v)'
    BY <1>0, <2>2, <2>6, Elsewhere
  <2>8. FiberOK(f, "queued")
    BY <2>4 DEF FiberOK
  <2>9. FibersOK(v)' /\ ArmedOK(v)' /\ TimersOK(v)'
    BY <1>0, <2>2, <2>6, <2>8, OthersKept
  <2>10. QueueOK(v)'
    <3>1. Sits(Append(toexec, p), "queued", v)
      BY <1>0, <1>2, <2>3, <2>5, ListGrows DEF Located, QueueOK, TypeOK
    <3> QED BY <2>2, <3>1 DEF QueueOK, Sits
  <2>11. Located(v)'
    BY <1>5, <2>6, <2>7, <2>9, <2>10 DEF Located
  <2>12. FiredOK' /\ edge' = {}
    BY <1>3, <2>2 DEF OneWaker, FiredOK
  <2>13. NoEcho'
    BY <1>2, <2>2, <2>3, ResultTaken DEF OneWaker, Streams
  <2> QED BY <2>6, <2>11, <2>12, <2>13 DEF OneWaker
<1>8. CASE Waits
  <2>1. /\ Me.state # "Closed" /\ Me.result = "none" /\ Update(p, Unstacked(p))
        /\ UNCHANGED <<edge, toexec, free_fibers, tomain_fibers, timedout, nfibers, fiber_refs, slab,
                       vacant, results>>
    BY <1>1, <1>2, <1>8 DEF Waits, Live, HasResult
  <2>2. Joined(Me)
    BY <1>4, <2>1 DEF Streams, Done
  <2>3. Unstacked(p) = fibers[p]
    BY <1>2, <2>2, UnstackedAlone DEF Joined
  <2>4. UNCHANGED fibers
    BY <1>2, <2>1, <2>3 DEF Update, TypeOK
  <2>5. Located(w)'
    BY <1>0, <1>5, <2>1, <2>4, AllStay
  <2>6. FiredOK' /\ edge' = {} /\ NoEcho'
    BY <1>3, <2>1 DEF OneWaker, FiredOK, NoEcho, Range
  <2> QED BY <2>5, <2>6 DEF OneWaker
<1> QED BY <1>6, <1>7, <1>8

-----------------------------------------------------------------------------
(* run() and poll().                                                       *)

LEMMA LoopKeeps ==
  ASSUME TypeOK, OneWaker,
         BeginRun \/ ToexecDone \/ TimedoutDone \/ BeginPoll \/ EventsDone \/ PollReturns \/ GetResponse,
         NoSockets
  PROVE  OneWaker'
<1> USE DEF pollerVars, runnerVars, timerVars, slotVars, outVars, mainVars, sockVars, control
<1>0. PICK w \in [Slots -> Wheres] : Located(w)
  BY DEF OneWaker
<1>1. /\ at' \in {"main", "events", "timers", "toexec", "timedout"}
      /\ UNCHANGED <<toexec, tomain_fibers, timedout, free_fibers, nfibers, fiber_refs, slab, vacant,
                     fibers, edge>>
  BY DEF BeginRun, ToexecDone, TimedoutDone, BeginPoll, EventsDone, PollReturns, GetResponse, Goto
<1>2. CurOK(w)'
  BY <1>1 DEF CurOK
<1>3. Located(w)'
  BY <1>0, <1>1, <1>2, AllStay
<1>4. FiredOK'
  BY <1>1 DEF BeginRun, ToexecDone, TimedoutDone, BeginPoll, EventsDone, PollReturns, GetResponse, Goto,
              OneWaker, FiredOK, NoSockets
<1>5. NoEcho'
  <2>1. CASE GetResponse
    <3>1. results \in Seq(Results) /\ results # <<>> /\ results' = Tail(results)
      BY <2>1 DEF GetResponse, TypeOK
    <3>2. \A i \in DOMAIN results' : i + 1 \in DOMAIN results /\ results'[i] = results[i + 1]
      BY <3>1
    <3> QED BY <3>2 DEF OneWaker, NoEcho, Range
  <2>2. CASE ~GetResponse
    <3>1. UNCHANGED results
      BY <2>2 DEF BeginRun, ToexecDone, TimedoutDone, BeginPoll, EventsDone, PollReturns
    <3> QED BY <3>1 DEF OneWaker, NoEcho, Range
  <2> QED BY <2>1, <2>2
<1> QED BY <1>0, <1>1, <1>3, <1>4, <1>5 DEF OneWaker

LEMMA ExecuteKeeps ==
  ASSUME TypeOK, OneWaker, NEW p \in Slots, Execute(p)
  PROVE  OneWaker'
<1>0. PICK w \in [Slots -> Wheres] : Located(w)
  BY DEF OneWaker
<1>1. /\ at = "toexec" /\ at' = "step_into" /\ cur' = p
      /\ toexec # <<>> /\ p = Head(toexec) /\ toexec' = Tail(toexec) /\ toexec \in Seq(Slots)
      /\ UNCHANGED <<fibers, tomain_fibers, timedout, free_fibers, nfibers, fiber_refs, slab, vacant,
                     edge, results>>
  BY DEF Execute, Pops, EnterFiber, timerVars, sockVars, runnerVars, slotVars, outVars, mainVars, TypeOK
<1>2. 1 \in DOMAIN toexec /\ p = toexec[1]
  BY <1>1
<1>3. w[p] = "queued" /\ FiberOK(fibers[p], "queued")
  BY <1>0, <1>2, OneFiber DEF Located, QueueOK, Sits
<1>4. FiberOK(fibers[p], "running") /\ Ready(fibers[p])
  BY <1>3 DEF FiberOK
<1>5. Update(p, fibers[p])
  BY <1>1 DEF Update, TypeOK
<1>6. PICK v : v = [w EXCEPT ![p] = "running"]
  OBVIOUS
<1>7. Moves(w, p, "queued", "running", v) /\ v \in [Slots -> Wheres] /\ v[p] = "running"
  BY <1>3, <1>6 DEF Moves, Wheres
<1>8. TomainOK(v)' /\ DueOK(v)' /\ FreeOK(v)' /\ FreshSlots(v)' /\ HeldOK(v)'
  BY <1>0, <1>1, <1>7, Elsewhere
<1>9. FibersOK(v)' /\ ArmedOK(v)' /\ TimersOK(v)'
  BY <1>0, <1>1, <1>4, <1>5, <1>7, OthersKept
<1>10. QueueOK(v)'
  <2>1. Sits(Tail(toexec), "queued", v)
    BY <1>0, <1>1, <1>6, ListShrinks DEF Located, QueueOK
  <2> QED BY <1>1, <2>1 DEF QueueOK, Sits
<1>11. CurOK(v)'
  BY <1>1, <1>4, <1>7 DEF CurOK, Me, Ready
<1>12. Located(v)'
  BY <1>7, <1>8, <1>9, <1>10, <1>11 DEF Located
<1>13. FiredOK' /\ edge' = {} /\ NoEcho'
  BY <1>1 DEF OneWaker, FiredOK, NoEcho, Range
<1> QED BY <1>7, <1>12, <1>13 DEF OneWaker

LEMMA TimerWakesKeeps ==
  ASSUME TypeOK, OneWaker, NEW p \in Slots, TimerWakes(p)
  PROVE  OneWaker'
<1>0. PICK w \in [Slots -> Wheres] : Located(w)
  BY DEF OneWaker
<1>1. PICK f : f = [fibers[p] EXCEPT !.wtoken = None, !.timed_out = 1]
  OBVIOUS
<1>2. /\ at = "timedout" /\ at' = "step_into" /\ cur' = p /\ Update(p, f)
      /\ timedout # <<>> /\ p = Head(timedout) /\ timedout' = Tail(timedout) /\ timedout \in Seq(Slots)
      /\ UNCHANGED <<toexec, tomain_fibers, free_fibers, nfibers, fiber_refs, slab, vacant,
                     edge, results>>
  BY <1>1 DEF TimerWakes, Expires, EnterFiber, sockVars, slotVars, outVars, mainVars, TypeOK
<1>3. 1 \in DOMAIN timedout /\ p = timedout[1]
  BY <1>2
<1>4. w[p] = "due" /\ FiberOK(fibers[p], "due") /\ fibers[p] \in Fiber
  BY <1>0, <1>3, OneFiber DEF Located, DueOK, Sits
<1>5. Alone(f) /\ f.wtoken = None /\ (Ready(f) \/ PlainTimer(f))
  BY <1>1, <1>4 DEF FiberOK, Fiber, Alone, Ready, PlainTimer
<1>6. PICK v : v = [w EXCEPT ![p] = "running"]
  OBVIOUS
<1>7. /\ Moves(w, p, "due", "running", v) /\ v \in [Slots -> Wheres] /\ v[p] = "running"
      /\ \A q \in Slots : q # p => v[q] = w[q]
  BY <1>4, <1>6 DEF Moves, Wheres
<1>8. QueueOK(v)' /\ TomainOK(v)' /\ FreeOK(v)' /\ FreshSlots(v)' /\ HeldOK(v)'
  BY <1>0, <1>2, <1>7, Elsewhere
<1>9. FiberOK(f, "running")
  BY <1>5 DEF FiberOK
<1>10. FibersOK(v)' /\ ArmedOK(v)'
  BY <1>0, <1>2, <1>7, <1>9, OthersKept
<1>11. DueOK(v)'
  <2>1. Sits(Tail(timedout), "due", v)
    BY <1>0, <1>2, <1>6, ListShrinks DEF Located, DueOK
  <2> QED BY <1>2, <2>1 DEF DueOK, Sits
<1>12. TimersOK(v)'
  <2>1. \A q \in Slots : q # p => fibers'[q] = fibers[q]
    BY <1>2 DEF Update, TypeOK
  <2>2. \A i \in DOMAIN timedout : i # 1 => i - 1 \in DOMAIN timedout' /\ timedout'[i - 1] = timedout[i]
    BY <1>2
  <2>3. ASSUME NEW q \in Slots, q # p, q \in Range(timedout) PROVE q \in Range(timedout')
    <3>1. PICK i \in DOMAIN timedout : timedout[i] = q
      BY <2>3 DEF Range
    <3>2. i - 1 \in DOMAIN timedout' /\ timedout'[i - 1] = q
      BY <1>3, <2>2, <2>3, <3>1
    <3> QED BY <3>2 DEF Range
  <2>4. ASSUME NEW q \in Slots
        PROVE  /\ v[q] = "armed" => slab'[fibers'[q].wtoken] = q
               /\ v[q] = "due" => q \in Range(timedout')
    BY <1>0, <1>2, <1>7, <2>1, <2>3 DEF Located, TimersOK
  <2> QED BY <2>4 DEF TimersOK, Range
<1>13. CurOK(v)'
  <2>1. fibers'[p] = f
    BY <1>2 DEF Update, TypeOK
  <2> QED BY <1>2, <1>5, <1>7, <2>1 DEF CurOK, Me, Ready, PlainTimer
<1>14. Located(v)'
  BY <1>7, <1>8, <1>10, <1>11, <1>12, <1>13 DEF Located
<1>15. FiredOK' /\ edge' = {} /\ NoEcho'
  BY <1>2 DEF OneWaker, FiredOK, NoEcho, Range
<1> QED BY <1>7, <1>14, <1>15 DEF OneWaker


\* The timer of p fires or is cancelled: its token is free again.
TokenFreed(tk, p) ==
    /\ tk \in Tokens /\ slab[tk] = p
    /\ slab' = [slab EXCEPT ![tk] = None] /\ vacant' = <<tk>> \o vacant

LEMMA Disarms ==
  ASSUME TypeOK, NEW w, Located(w), NEW p, NEW b \in {"due", "free"}, NEW v,
         Moves(w, p, "armed", b, v), NEW f, Update(p, f), NEW tk, TokenFreed(tk, p)
  PROVE  /\ ArmedOK(v)'
         /\ \A q \in Slots : v[q] = "armed" => slab'[fibers'[q].wtoken] = q
<1>0. /\ w \in [Slots -> Wheres] /\ p \in Slots /\ v = [w EXCEPT ![p] = b]
      /\ ArmedOK(w) /\ TimersOK(w) /\ vacant \in Seq(Tokens) /\ slab \in [Tokens -> Slots \cup {None}]
      /\ fibers \in [Slots -> Fiber]
      /\ tk \in Tokens /\ slab[tk] = p
      /\ slab' = [slab EXCEPT ![tk] = None] /\ vacant' = <<tk>> \o vacant
  BY DEF Moves, Located, TypeOK, TokenFreed
<1>1. /\ slab'[tk] = None /\ \A t \in Tokens : t # tk => slab'[t] = slab[t]
      /\ v[p] = b /\ \A q \in Slots : q # p => v[q] = w[q]
      /\ \A q \in Slots : q # p => fibers'[q] = fibers[q]
  BY <1>0 DEF Update
<1>2. p # None /\ fibers[p].wtoken = tk
  BY <1>0, NoneApart DEF ArmedOK
<1>3. ASSUME NEW t \in Tokens, slab'[t] # None
      PROVE  v[slab'[t]] = "armed" /\ fibers'[slab'[t]].wtoken = t
  <2>1. t # tk /\ slab'[t] = slab[t] /\ slab[t] \in Slots
    BY <1>0, <1>1, <1>3
  <2>2. w[slab[t]] = "armed" /\ fibers[slab[t]].wtoken = t
    BY <1>0, <1>3, <2>1 DEF ArmedOK
  <2>3. slab[t] # p
    BY <1>2, <2>1, <2>2
  <2> QED BY <1>1, <2>1, <2>2, <2>3
<1>4. /\ 1 \in DOMAIN vacant' /\ vacant'[1] = tk
      /\ \A i \in DOMAIN vacant' : i # 1 => /\ i - 1 \in DOMAIN vacant
                                            /\ vacant'[i] = vacant[i - 1] /\ vacant[i - 1] \in Tokens
      /\ \A i, j \in DOMAIN vacant' : i - 1 = j - 1 => i = j
  BY <1>0
<1>5. \A i \in DOMAIN vacant' : i # 1 => vacant'[i] # tk /\ vacant'[i] \in Tokens /\ slab[vacant'[i]] = None
  BY <1>0, <1>2, <1>4 DEF ArmedOK
<1>6. \A i \in DOMAIN vacant' : slab'[vacant'[i]] = None
  BY <1>1, <1>4, <1>5
<1>7. \A i, j \in DOMAIN vacant' : vacant'[i] = vacant'[j] => i = j
  <2> TAKE i, j \in DOMAIN vacant'
  <2>1. CASE i = 1 \/ j = 1
    BY <1>4, <1>5, <2>1
  <2>2. CASE i # 1 /\ j # 1
    BY <1>0, <1>4, <2>2 DEF ArmedOK
  <2> QED BY <2>1, <2>2
<1>8. ArmedOK(v)'
  BY <1>3, <1>6, <1>7 DEF ArmedOK
<1>9. ASSUME NEW q \in Slots, v[q] = "armed" PROVE slab'[fibers'[q].wtoken] = q
  <2>1. q # p /\ w[q] = "armed" /\ fibers'[q] = fibers[q]
    BY <1>1, <1>9
  <2>2. slab[fibers[q].wtoken] = q /\ fibers[q].wtoken \in Tokens
    BY <1>0, <2>1, OneFiber DEF TimersOK, FiberOK, Fiber
  <2>3. fibers[q].wtoken # tk
    BY <1>0, <2>1, <2>2
  <2> QED BY <1>1, <2>1, <2>2, <2>3
<1> QED BY <1>8, <1>9

LEMMA PollTimerKeeps ==
  ASSUME TypeOK, OneWaker, NEW tk \in Tokens, PollTimer(tk)
  PROVE  OneWaker'
<1>0. PICK w \in [Slots -> Wheres] : Located(w)
  BY DEF OneWaker
<1>1. PICK p : p = slab[tk]
  OBVIOUS
<1>2. /\ at = "timers" /\ at' = at /\ smth' = TRUE /\ p # None
      /\ timedout' = Append(timedout, p)
      /\ slab' = [slab EXCEPT ![tk] = None] /\ vacant' = <<tk>> \o vacant
      /\ UNCHANGED <<fibers, toexec, tomain_fibers, free_fibers, nfibers, fiber_refs, edge, results>>
  BY <1>1 DEF PollTimer, TimerFires, sockVars, runnerVars, slotVars, outVars, control
<1>3. p \in Slots /\ timedout \in Seq(Slots) /\ w[p] = "armed" /\ FiberOK(fibers[p], "armed")
  <2>1. p \in Slots /\ timedout \in Seq(Slots)
    BY <1>1, <1>2 DEF TypeOK
  <2>2. w[p] = "armed"
    BY <1>0, <1>1, <1>2 DEF Located, ArmedOK
  <2> QED BY <1>0, <2>1, <2>2, OneFiber
<1>4. FiberOK(fibers[p], "due") /\ Update(p, fibers[p])
  BY <1>2, <1>3 DEF FiberOK, Update, TypeOK
<1>5. PICK v : v = [w EXCEPT ![p] = "due"]
  OBVIOUS
<1>6. Moves(w, p, "armed", "due", v) /\ v \in [Slots -> Wheres] /\ \A q \in Slots : q # p => v[q] = w[q]
  BY <1>3, <1>5 DEF Moves, Wheres
<1>7. QueueOK(v)' /\ TomainOK(v)' /\ FreeOK(v)' /\ FreshSlots(v)' /\ HeldOK(v)'
  BY <1>0, <1>2, <1>6, Elsewhere
<1>8. FibersOK(v)'
  BY <1>0, <1>4, <1>6, OthersKept
<1>9. ArmedOK(v)' /\ \A q \in Slots : v[q] = "armed" => slab'[fibers'[q].wtoken] = q
  <2>1. TokenFreed(tk, p)
    BY <1>1, <1>2 DEF TokenFreed
  <2> QED BY <1>0, <1>4, <1>6, <2>1, Disarms
<1>10. DueOK(v)'
  <2>1. Sits(Append(timedout, p), "due", v)
    BY <1>0, <1>3, <1>5, ListGrows DEF Located, DueOK
  <2> QED BY <1>2, <2>1 DEF DueOK, Sits
<1>11. \A q \in Slots : v[q] = "due" => q \in Range(timedout')
  <2>1. /\ Len(timedout) + 1 \in DOMAIN timedout' /\ timedout'[Len(timedout) + 1] = p
        /\ \A i \in DOMAIN timedout : i \in DOMAIN timedout' /\ timedout'[i] = timedout[i]
    BY <1>2, <1>3
  <2>2. \A q \in Slots : v[q] = "due" => q = p \/ q \in Range(timedout)
    BY <1>0, <1>6 DEF Located, TimersOK
  <2> QED BY <2>1, <2>2 DEF Range
<1>12. TimersOK(v)'
  BY <1>9, <1>11 DEF TimersOK, Range
<1>13. CurOK(v)'
  BY <1>2 DEF CurOK
<1>14. Located(v)'
  BY <1>6, <1>7, <1>8, <1>9, <1>10, <1>12, <1>13 DEF Located
<1>15. FiredOK' /\ edge' = {} /\ NoEcho'
  BY <1>2 DEF OneWaker, FiredOK, NoEcho, Range
<1> QED BY <1>6, <1>14, <1>15 DEF OneWaker

-----------------------------------------------------------------------------
(* The main stack.                                                         *)

LEMMA GetFiberKeeps ==
  ASSUME TypeOK, OneWaker, GetFiber
  PROVE  OneWaker'
<1>0. PICK w \in [Slots -> Wheres] : Located(w)
  BY DEF OneWaker
<1>1. PICK p : p = Head(tomain_fibers)
  OBVIOUS
<1>2. /\ at = "main" /\ at' = at /\ tomain_fibers # <<>> /\ tomain_fibers' = Tail(tomain_fibers)
      /\ fiber_refs' = [fiber_refs EXCEPT ![p] = @ + 1] /\ tomain_fibers \in Seq(Slots)
      /\ UNCHANGED <<fibers, toexec, timedout, slab, vacant, free_fibers, nfibers, edge, results, smth>>
  BY <1>1 DEF GetFiber, pollerVars, timerVars, sockVars, slotVars, control, TypeOK
<1>3. 1 \in DOMAIN tomain_fibers /\ p = tomain_fibers[1] /\ p \in Slots
  BY <1>1, <1>2
<1>4. w[p] = "tomain" /\ FiberOK(fibers[p], "tomain")
  BY <1>0, <1>3, OneFiber DEF Located, TomainOK, Sits
<1>5. FiberOK(fibers[p], "held") /\ Update(p, fibers[p])
  BY <1>2, <1>4 DEF FiberOK, Update, TypeOK
<1>6. PICK v : v = [w EXCEPT ![p] = "held"]
  OBVIOUS
<1>7. /\ Moves(w, p, "tomain", "held", v) /\ v \in [Slots -> Wheres]
      /\ v[p] = "held" /\ \A q \in Slots : q # p => v[q] = w[q]
  BY <1>3, <1>4, <1>6 DEF Moves, Wheres
<1>8. QueueOK(v)' /\ DueOK(v)' /\ FreeOK(v)' /\ FreshSlots(v)'
  BY <1>0, <1>2, <1>7, Elsewhere
<1>9. FibersOK(v)' /\ ArmedOK(v)' /\ TimersOK(v)'
  BY <1>0, <1>2, <1>5, <1>7, OthersKept
<1>10. TomainOK(v)'
  <2>1. Sits(Tail(tomain_fibers), "tomain", v)
    BY <1>0, <1>1, <1>2, <1>3, <1>6, ListShrinks DEF Located, TomainOK
  <2> QED BY <1>2, <2>1 DEF TomainOK, Sits
<1>11. HeldOK(v)'
  <2>1. HeldOK(w) /\ fiber_refs \in [Slots -> Nat]
    BY <1>0 DEF Located, TypeOK
  <2>2. fiber_refs[p] = 0
    BY <1>3, <1>4, <2>1 DEF HeldOK
  <2>3. fiber_refs'[p] = 1 /\ \A q \in Slots : q # p => fiber_refs'[q] = fiber_refs[q]
    BY <1>2, <1>3, <2>1, <2>2
  <2> QED BY <1>7, <2>1, <2>3 DEF HeldOK
<1>12. CurOK(v)'
  BY <1>2 DEF CurOK
<1>13. Located(v)'
  BY <1>7, <1>8, <1>9, <1>10, <1>11, <1>12 DEF Located
<1>14. FiredOK' /\ edge' = {} /\ NoEcho'
  BY <1>2 DEF OneWaker, FiredOK, NoEcho, Range
<1> QED BY <1>7, <1>13, <1>14 DEF OneWaker

LEMMA ResumeFiberKeeps ==
  ASSUME TypeOK, OneWaker, NEW p \in Slots, ResumeFiber(p)
  PROVE  OneWaker'
<1>0. PICK w \in [Slots -> Wheres] : Located(w)
  BY DEF OneWaker
<1>1. PICK r \in {"none", "reply"} : Update(p, [fibers[p] EXCEPT !.result = r])
  BY DEF ResumeFiber
<1>2. PICK f : f = [fibers[p] EXCEPT !.result = r]
  OBVIOUS
<1>3. /\ at = "main" /\ at' = at /\ fiber_refs[p] > 0 /\ toexec' = Append(toexec, p)
      /\ fiber_refs' = [fiber_refs EXCEPT ![p] = @ - 1] /\ toexec \in Seq(Slots)
      /\ UNCHANGED <<timedout, slab, vacant, tomain_fibers, free_fibers, nfibers, edge, results, smth>>
  BY DEF ResumeFiber, push_toexec, timerVars, sockVars, slotVars, outVars, control, TypeOK
<1>4. w[p] = "held" /\ fiber_refs[p] = 1
  BY <1>0, <1>3 DEF Located, HeldOK
<1>5. FiberOK(fibers[p], "held") /\ fibers[p] \in Fiber
  BY <1>0, <1>4, OneFiber
<1>6. Alone(f) /\ Ready(f) /\ f.wtoken = None
  BY <1>1, <1>2, <1>5 DEF FiberOK, Fiber, Alone, Joined, Ready
<1>7. FiberOK(f, "queued") /\ Update(p, f)
  BY <1>1, <1>2, <1>6 DEF FiberOK
<1>8. PICK v : v = [w EXCEPT ![p] = "queued"]
  OBVIOUS
<1>9. /\ Moves(w, p, "held", "queued", v) /\ v \in [Slots -> Wheres]
      /\ \A q \in Slots : q # p => v[q] = w[q]
  BY <1>4, <1>8 DEF Moves, Wheres
<1>10. TomainOK(v)' /\ DueOK(v)' /\ FreeOK(v)' /\ FreshSlots(v)'
  BY <1>0, <1>3, <1>9, Elsewhere
<1>11. FibersOK(v)' /\ ArmedOK(v)' /\ TimersOK(v)'
  BY <1>0, <1>3, <1>7, <1>9, OthersKept
<1>12. QueueOK(v)'
  <2>1. Sits(Append(toexec, p), "queued", v)
    BY <1>0, <1>3, <1>4, <1>8, ListGrows DEF Located, QueueOK
  <2> QED BY <1>3, <2>1 DEF QueueOK, Sits
<1>13. HeldOK(v)'
  <2>1. HeldOK(w) /\ fiber_refs \in [Slots -> Nat]
    BY <1>0 DEF Located, TypeOK
  <2>2. fiber_refs'[p] = 0 /\ \A q \in Slots : q # p => fiber_refs'[q] = fiber_refs[q]
    BY <1>3, <1>4, <2>1
  <2> QED BY <1>9, <2>1, <2>2 DEF HeldOK
<1>14. CurOK(v)'
  BY <1>3 DEF CurOK
<1>15. Located(v)'
  BY <1>9, <1>10, <1>11, <1>12, <1>13, <1>14 DEF Located
<1>16. FiredOK' /\ edge' = {} /\ NoEcho'
  BY <1>3 DEF OneWaker, FiredOK, NoEcho, Range
<1> QED BY <1>9, <1>15, <1>16 DEF OneWaker

LEMMA DropTimerRefKeeps ==
  ASSUME NoSockets, TypeOK, OneWaker, NEW p \in Slots, DropTimerRef(p)
  PROVE  OneWaker'
<1>0. PICK w \in [Slots -> Wheres] : Located(w)
  BY DEF OneWaker
<1>1. /\ at = "main" /\ at' = at /\ ~smth
      /\ UNCHANGED <<toexec, timedout, tomain_fibers, nfibers, fiber_refs, edge, results, smth>>
  BY DEF DropTimerRef, OnMain, NoSockets, sockVars, outVars, control
<1>2. \A v : CurOK(v)'
  BY <1>1 DEF CurOK
<1>3. FiredOK' /\ edge' = {} /\ NoEcho'
  BY <1>1 DEF OneWaker, FiredOK, NoEcho, Range
<1>4. CASE fibers[p].wtoken = None
  <2>1. UNCHANGED <<slab, vacant, fibers, free_fibers>>
    BY <1>4 DEF DropTimerRef
  <2>2. Located(w)'
    BY <1>0, <1>1, <1>2, <2>1, AllStay
  <2> QED BY <1>3, <2>2 DEF OneWaker
<1>5. CASE fibers[p].wtoken # None
  <2>1. PICK f, tk : /\ f = [fibers[p] EXCEPT !.wtoken = None, !.result = "none", !.param = FALSE]
                     /\ tk = fibers[p].wtoken
    OBVIOUS
  <2>2. timer_cancel(tk) /\ Update(p, f) /\ free_fibers' = Append(free_fibers, p)
    BY <1>5, <2>1 DEF DropTimerRef
  <2>3. timedout = <<>>
    BY <1>1 DEF OneWaker, FiredOK
  <2>4. FiberOK(fibers[p], w[p]) /\ fibers[p] \in Fiber
    BY <1>0, OneFiber
  <2>5. w[p] = "armed"
    <3>1. w[p] \in {"armed", "due"}
      BY <1>5, <2>4 DEF FiberOK
    <3>2. Range(timedout) = {}
      BY <2>3 DEF Range
    <3> QED BY <1>0, <3>1, <3>2 DEF Located, TimersOK
  <2>6. tk \in Tokens /\ slab[tk] = p
    BY <1>0, <1>5, <2>1, <2>4, <2>5 DEF Located, TimersOK, Fiber
  <2>7. slab' = [slab EXCEPT ![tk] = None] /\ vacant' = <<tk>> \o vacant
    BY <2>2, <2>6, NoneApart DEF timer_cancel
  <2>8. FiberOK(f, "free")
    <3>1. Alone(f) /\ f.wtoken = None
      BY <2>1, <2>4 DEF FiberOK, Alone, Fiber
    <3> QED BY <3>1 DEF FiberOK
  <2>9. PICK v : v = [w EXCEPT ![p] = "free"]
    OBVIOUS
  <2>10. Moves(w, p, "armed", "free", v) /\ v \in [Slots -> Wheres] /\ v[p] = "free"
         /\ \A q \in Slots : q # p => v[q] = w[q]
    BY <2>5, <2>9 DEF Moves, Wheres
  <2>11. QueueOK(v)' /\ TomainOK(v)' /\ DueOK(v)' /\ FreshSlots(v)' /\ HeldOK(v)'
    BY <1>0, <1>1, <2>10, Elsewhere
  <2>12. FibersOK(v)'
    BY <1>0, <2>2, <2>8, <2>10, OthersKept
  <2>13. ArmedOK(v)' /\ \A q \in Slots : v[q] = "armed" => slab'[fibers'[q].wtoken] = q
    <3>1. TokenFreed(tk, p)
      BY <2>6, <2>7 DEF TokenFreed
    <3> QED BY <1>0, <2>2, <2>10, <3>1, Disarms
  <2>14. FreeOK(v)'
    <3>1. Sits(Append(free_fibers, p), "free", v)
      BY <1>0, <2>5, <2>9, ListGrows DEF Located, FreeOK, TypeOK
    <3> QED BY <2>2, <3>1 DEF FreeOK, Sits
  <2>15. \A q \in Slots : v[q] = "due" => q \in Range(timedout)
    BY <1>0, <2>10 DEF Located, TimersOK
  <2>16. TimersOK(v)'
    BY <1>1, <2>13, <2>15 DEF TimersOK, Range
  <2>17. Located(v)'
    BY <1>2, <2>10, <2>11, <2>12, <2>13, <2>14, <2>16 DEF Located
  <2> QED BY <1>3, <2>10, <2>17 DEF OneWaker
<1> QED BY <1>4, <1>5

-----------------------------------------------------------------------------
LEMMA InitOneWaker == Init => OneWaker
<1> SUFFICES ASSUME Init PROVE OneWaker
  OBVIOUS
<1>1. PICK w : w = [p \in Slots |-> "fresh"]
  OBVIOUS
<1>2. w \in [Slots -> Wheres] /\ \A p \in Slots : w[p] = "fresh"
  BY <1>1 DEF Wheres
<1>3. QueueOK(w) /\ TomainOK(w) /\ DueOK(w) /\ FreeOK(w)
  BY DEF Init, PollerInit, QueueOK, TomainOK, DueOK, FreeOK, Sits
<1>4. FreshSlots(w) /\ HeldOK(w)
  BY <1>2 DEF Init, FreshSlots, HeldOK
<1>5. ArmedOK(w)
  <2>1. slab = [tk \in Tokens |-> None] /\ vacant = [tk \in Tokens |-> tk]
    BY DEF Init, PollerInit
  <2> QED BY <2>1 DEF ArmedOK
<1>6. FibersOK(w)
  <2>1. Alone(Unallocated) /\ Unallocated.wtoken = None
    BY DEF Unallocated, NewFiber, Alone
  <2>2. FiberOK(Unallocated, "fresh")
    BY <2>1 DEF FiberOK
  <2>3. \A p \in Slots : fibers[p] = Unallocated
    BY DEF Init
  <2> QED BY <1>2, <2>2, <2>3 DEF FibersOK
<1>7. TimersOK(w) /\ CurOK(w)
  BY <1>2 DEF Init, TimersOK, CurOK
<1>8. Located(w)
  BY <1>2, <1>3, <1>4, <1>5, <1>6, <1>7 DEF Located
<1>9. FiredOK /\ edge = {} /\ NoEcho
  BY DEF Init, PollerInit, FiredOK, NoEcho, Range
<1> QED BY <1>2, <1>8, <1>9 DEF OneWaker

LEMMA NextOneWaker ==
  ASSUME NoSockets, TypeOK, OneWaker, [Next]_vars
  PROVE  OneWaker'
<1>0. PICK w \in [Slots -> Wheres] : Located(w)
  BY DEF OneWaker
<1>1. CASE Next
  <2>1. Possible
    BY <1>0, <1>1, OnlyPossible DEF OneWaker
  <2>2. ASSUME Main PROVE OneWaker'
    BY <2>2, LoopKeeps, GetFiberKeeps, ResumeFiberKeeps, DropTimerRefKeeps DEF Main
  <2> QED BY <2>1, <2>2, NewKeeps, NewTimerKeeps, RunningKeeps, JoinMainKeeps, SteppedOutKeeps,
             LoopKeeps, ExecuteKeeps, TimerWakesKeeps, PollTimerKeeps DEF Possible
<1>2. CASE UNCHANGED vars
  <2>1. UNCHANGED <<toexec, tomain_fibers, timedout, free_fibers, nfibers, fiber_refs, slab, vacant,
                    fibers, edge, results, smth, at, cur>>
    BY <1>2 DEF vars, pollerVars, timerVars, sockVars, runnerVars, slotVars, outVars, mainVars, control
  <2>2. CurOK(w)'
    BY <1>0, <2>1 DEF Located, CurOK, Me, Ready, PlainTimer, AtWork, Streams, Done
  <2>3. Located(w)'
    BY <1>0, <2>1, <2>2, AllStay
  <2>4. FiredOK' /\ edge' = {} /\ NoEcho'
    BY <2>1 DEF OneWaker, FiredOK, NoEcho, Range
  <2> QED BY <2>3, <2>4 DEF OneWaker
<1> QED BY <1>1, <1>2

LEMMA AlwaysOneWaker == ASSUME NoSockets PROVE Spec => [](TypeOK /\ OneWaker)
<1>1. TypeOK /\ OneWaker /\ [Next]_vars => OneWaker'
  BY NextOneWaker
<1> QED BY <1>1, InitOneWaker, TypeCorrect, PTL DEF Spec

\* A fiber that counts on a timer has it in the wheel or is queued for it:
\* dropping TimerRefs, reusing tokens and reusing slots cancel no one else's.
THEOREM TimerNeverLost == ASSUME NoSockets PROVE Spec => []TimeoutArmed
<1>1. TypeOK /\ OneWaker => TimeoutArmed
  <2> SUFFICES ASSUME TypeOK, OneWaker, NEW p \in Slots, fibers[p].wtoken # None
               PROVE  slab[fibers[p].wtoken] = p \/ p \in Range(timedout)
    BY DEF TimeoutArmed
  <2>1. PICK w \in [Slots -> Wheres] : Located(w)
    BY DEF OneWaker
  <2>2. w[p] \in {"armed", "due"}
    BY <2>1, OneFiber DEF FiberOK
  <2> QED BY <2>1, <2>2 DEF Located, TimersOK
<1> QED BY <1>1, AlwaysOneWaker, PTL

\* join_main returns only once the main stack resumed the fiber, or dropped its
\* FiberRef: nothing else leads into it.
THEOREM JoinAlwaysBlocks == ASSUME NoSockets PROVE Spec => []JoinBlocks
<1>1. TypeOK /\ OneWaker => JoinBlocks
  <2> SUFFICES ASSUME TypeOK, OneWaker, at = "fiber", Referenced(cur) PROVE FALSE
    BY DEF JoinBlocks
  <2>1. PICK w \in [Slots -> Wheres] : Located(w)
    BY DEF OneWaker
  <2>2. cur \in Slots /\ w[cur] = "running"
    BY <2>1 DEF TypeOK, Located, CurOK
  <2>3. ~(fiber_refs[cur] > 0)
    BY <2>1, <2>2 DEF Located, HeldOK
  <2>4. cur \notin Range(tomain_fibers)
    BY <2>1, <2>2 DEF Located, TomainOK, Sits, Range
  <2> QED BY <2>3, <2>4 DEF Referenced
<1> QED BY <1>1, AlwaysOneWaker, PTL

\* A reply of the main stack reaches the fiber it is for, and is not taken for a
\* response of that fiber.
THEOREM ReplyNeverEchoed == ASSUME NoSockets PROVE Spec => []NoEcho
<1>1. OneWaker => NoEcho
  BY DEF OneWaker
<1> QED BY <1>1, AlwaysOneWaker, PTL

\* No fiber is started twice and no slot is overwritten under a running one.
THEOREM ProcessorsNeverPanic == ASSUME NoSockets PROVE Spec => []NoPanic
<1>1. OneWaker => NoPanic
  BY DEF OneWaker, Located, CurOK, NoPanic
<1> QED BY <1>1, AlwaysOneWaker, PTL

-----------------------------------------------------------------------------
(***************************************************************************)
(* Programs with sockets, lookups and timers, and without children: the    *)
(* runner does not panic, for any number of fibers and timers.  Left out   *)
(* is what section 4 of the README has counterexamples for: chunks of a    *)
(* fiber that a timer woke, join_main, hibernation, listeners, late drops  *)
(* of a TimerRef, and polls without a run in between.                      *)
(***************************************************************************)

Careful ==
    /\ Usage \subseteq {"new_tcp", "new_udp", "new_processor", "new_resolve", "resolve_error",
                        "new_timer", "new_fiber_timer", "drop_timer", "read", "write",
                        "handshake", "socket_timeout", "resp_chunk", "return_some",
                        "return_early", "time", "run_unprompted"}
    /\ "time" \notin Usage \/ "resp_chunk" \notin Usage

-----------------------------------------------------------------------------
(* The inductive invariant.                                                *)

Inside == at \in {"step_into", "resumed", "fiber", "stepped_out"}

\* The slot is taken.
InUse(p) == p <= nfibers /\ p \notin Range(free_fibers)

\* Something leads into p: the queue, a socket, a timer, or control is there.
Leads(p) == Scheduled(p) \/ Entered(p) \/ fibers[p].sock # "Empty" \/ fibers[p].wtoken # None

\* A fiber that starts has its parameter.
CanEnter(f) == f.func /\ f.op = "start" => f.param

\* Neither an event nor a timer leads into the fiber.
Unprompted(f) == f.ready = "none" /\ f.wtoken = None /\ ~f.connect_param

\* What poll() queued has been executed.
Late ==
    \/ at \in {"main", "events", "timers"} /\ ~smth
    \/ at = "timedout"
    \/ Inside /\ loop = "timedout"

\* A queued fiber is not running, and is queued for one reason.
QueuedOK(p) ==
    LET f == fibers[p] IN
    /\ ~Entered(p) /\ timer_refs[p] = 0
    /\ f.wtoken # None => f.op # "start" \/ f.connect_param
    /\ Late => Unprompted(f)
    /\ at = "events" => p \notin edge

RecordOK(f) ==
    /\ f.op \notin {"accept", "join_main", "get_child"}
    /\ f.op = "user" => f.state # "Unstacked"
    /\ f.op \notin {"start", "user"} => f.state = "Stacked"
    /\ f.op = "resp_chunk" => "resp_chunk" \in Usage
    /\ f.wtoken # None => f.op \in {"start", "read", "write", "handshake"}
    /\ f.wtoken # None /\ f.op = "start" /\ f.sock # "Empty" => f.connect_param

\* A fiber that just gave a result holds it until stepped_out took it.
Leaving(p) ==
    cur = p /\ at = "stepped_out" /\ (fibers[p].op = "resp_chunk" \/ fibers[p].state = "Closed")

SlotOK(p) ==
    LET f == fibers[p] IN
    /\ RecordOK(f)
    /\ Leads(p) => InUse(p) /\ CanEnter(f)
    /\ Scheduled(p) => QueuedOK(p)
    /\ p \in edge => f.sock # "Empty" /\ f.ready # "none"
    /\ timer_refs[p] > 0 => f.sock = "Empty"
    /\ f.func /\ f.result # "none" => Leaving(p)
    /\ fiber_refs[p] = 0

\* The fiber that control is in.
InsideOK ==
    /\ at \in {"step_into", "resumed"} /\ Me.op = "start" => Me.wtoken = None
    /\ at = "fiber" => Me.wtoken = None /\ Me.state = "Stacked"
    /\ at = "stepped_out" => IF Me.state # "Closed" THEN Me.func ELSE Me.wtoken = None
    /\ Inside /\ timer_refs[cur] > 0 => loop = "timedout"

LoopOK ==
    /\ at \in {"toexec", "timedout"} => loop = at
    /\ "time" \notin Usage => timedout = <<>> /\ ~(Inside /\ loop = "timedout")

Unique(seq) == \A i, j \in DOMAIN seq : seq[i] = seq[j] => i = j

FreeListOK == Unique(free_fibers) /\ \A i \in DOMAIN free_fibers : free_fibers[i] <= nfibers

ListsOK == Unique(toexec) /\ FreeListOK /\ tomain_fibers = <<>>

EntryInv == ListsOK /\ LoopOK /\ InsideOK /\ at # "panic" /\ \A p \in Slots : SlotOK(p)

-----------------------------------------------------------------------------
(* What a step leaves alone.                                               *)

Untouched(q) ==
    /\ fibers'[q] = fibers[q] /\ timer_refs'[q] = timer_refs[q] /\ fiber_refs'[q] = fiber_refs[q]
    /\ Scheduled(q)' => Scheduled(q)
    /\ Entered(q)' => Entered(q)
    /\ Leaving(q) => Leaving(q)'
    /\ InUse(q) => InUse(q)'
    /\ q \in edge' => q \in edge

\* The queue is empty when the loop over it is over, and poll() begins after that.
Phase ==
    /\ Late' => Late \/ \A q \in Slots : ~Scheduled(q)'
    /\ at' = "events" => at = "events" \/ Late

LEMMA SlotStays ==
  ASSUME NEW q \in Slots, SlotOK(q), Untouched(q), Phase
  PROVE  SlotOK(q)'
<1>1. Leads(q)' => Leads(q)
  BY DEF Leads, Untouched
<1>2. Scheduled(q)' => QueuedOK(q)'
  <2>1. ASSUME Scheduled(q)' PROVE QueuedOK(q) /\ ~Entered(q)'
    BY <2>1 DEF SlotOK, Untouched, QueuedOK
  <2>2. ASSUME Scheduled(q)', Late' PROVE Unprompted(fibers'[q])
    BY <2>1, <2>2 DEF Phase, QueuedOK, Untouched
  <2>3. ASSUME Scheduled(q)', at' = "events" PROVE q \notin edge'
    BY <2>1, <2>3 DEF Phase, QueuedOK, Untouched, SlotOK, Unprompted
  <2> QED BY <2>1, <2>2, <2>3 DEF QueuedOK, Untouched
<1> QED BY <1>1, <1>2 DEF SlotOK, Untouched

LEMMA OneSlotSound ==
  ASSUME EntryInv, NEW p \in Slots, Phase, \A q \in Slots : q # p => Untouched(q),
         SlotOK(p)', ListsOK', LoopOK', InsideOK', at' # "panic"
  PROVE  EntryInv'
<1>1. ASSUME NEW q \in Slots, q # p PROVE SlotOK(q)'
  <2>1. SlotOK(q) /\ Untouched(q)
    BY <1>1 DEF EntryInv
  <2> QED BY <2>1, SlotStays
<1> QED BY <1>1 DEF EntryInv

LEMMA NoSlotSound ==
  ASSUME EntryInv, Phase, \A q \in Slots : Untouched(q),
         ListsOK', LoopOK', InsideOK', at' # "panic"
  PROVE  EntryInv'
<1>1. ASSUME NEW q \in Slots PROVE SlotOK(q)'
  <2>1. SlotOK(q) /\ Untouched(q)
    BY DEF EntryInv
  <2> QED BY <2>1, SlotStays
<1> QED BY <1>1 DEF EntryInv

-----------------------------------------------------------------------------
(* The queue and the free list.                                            *)

LEMMA PushesOne ==
  ASSUME TypeOK, Unique(toexec), NEW p \in Slots, ~Scheduled(p), push_toexec(p)
  PROVE  Unique(toexec)' /\ \A q : Scheduled(q)' <=> Scheduled(q) \/ q = p
<1>1. toexec \in Seq(Slots) /\ toexec' = Append(toexec, p)
  BY DEF TypeOK, push_toexec
<1>2. /\ DOMAIN toexec' = 1 .. Len(toexec) + 1 /\ DOMAIN toexec = 1 .. Len(toexec)
      /\ Len(toexec) \in Nat /\ toexec'[Len(toexec) + 1] = p
      /\ \A i \in 1 .. Len(toexec) : toexec'[i] = toexec[i]
  BY <1>1
<1>3. \A i \in 1 .. Len(toexec) : toexec[i] # p
  BY <1>2 DEF Scheduled, Range
<1>4. \A i \in DOMAIN toexec' : i \in 1 .. Len(toexec) \/ i = Len(toexec) + 1
  BY <1>2
<1>5. \A i, j \in DOMAIN toexec' : toexec'[i] = toexec'[j] => i = j
  BY <1>2, <1>3, <1>4 DEF Unique
<1>6. ASSUME NEW q, Scheduled(q)' PROVE Scheduled(q) \/ q = p
  <2>1. PICK i \in DOMAIN toexec' : toexec'[i] = q
    BY <1>6 DEF Scheduled, Range
  <2> QED BY <1>2, <1>4, <2>1 DEF Scheduled, Range
<1> QED BY <1>5, <1>6, QueuePushed DEF Unique

LEMMA PopsOne ==
  ASSUME TypeOK, Unique(toexec), NEW p \in Slots, Pops(p)
  PROVE  /\ Unique(toexec)' /\ Scheduled(p) /\ ~Scheduled(p)'
         /\ \A q : Scheduled(q)' => Scheduled(q)
<1>1. /\ toexec \in Seq(Slots) /\ toexec # <<>> /\ toexec' = Tail(toexec) /\ p = toexec[1]
  BY DEF TypeOK, Pops
<1>2. /\ DOMAIN toexec = 1 .. Len(toexec) /\ Len(toexec) \in Nat /\ 1 \in DOMAIN toexec
      /\ \A i \in DOMAIN toexec' : i + 1 \in DOMAIN toexec /\ i \in Nat /\ i # 0 /\ toexec'[i] = toexec[i + 1]
  BY <1>1
<1>3. \A i, j \in DOMAIN toexec' : toexec'[i] = toexec'[j] => i = j
  <2> TAKE i, j \in DOMAIN toexec'
  <2>1. toexec[i + 1] = toexec[j + 1] => i + 1 = j + 1
    BY <1>2 DEF Unique
  <2> QED BY <1>2, <2>1
<1>4. \A i \in DOMAIN toexec' : toexec'[i] # p
  <2> TAKE i \in DOMAIN toexec'
  <2>1. toexec[i + 1] = toexec[1] => i + 1 = 1
    BY <1>2 DEF Unique
  <2> QED BY <1>1, <1>2, <2>1
<1>5. ASSUME NEW q, Scheduled(q)' PROVE Scheduled(q)
  <2>1. PICK i \in DOMAIN toexec' : toexec'[i] = q
    BY <1>5 DEF Scheduled, Range
  <2> QED BY <1>2, <2>1 DEF Scheduled, Range
<1>6. Scheduled(p)
  BY <1>1, <1>2 DEF Scheduled, Range
<1>7. ~Scheduled(p)'
  BY <1>4 DEF Scheduled, Range
<1> QED BY <1>3, <1>5, <1>6, <1>7 DEF Unique

\* A list of slots that gets one more at its end.
LEMMA AppendOne ==
  ASSUME NEW s \in Seq(Slots), Unique(s), NEW n, NEW p \in Slots, p \notin Range(s),
         \A i \in DOMAIN s : s[i] <= n, p <= n
  PROVE  /\ Unique(Append(s, p)) /\ Range(Append(s, p)) = Range(s) \cup {p}
         /\ \A i \in DOMAIN Append(s, p) : Append(s, p)[i] <= n
<1>1. PICK t : t = Append(s, p)
  OBVIOUS
<1>2. /\ DOMAIN t = 1 .. Len(s) + 1 /\ DOMAIN s = 1 .. Len(s) /\ Len(s) \in Nat
      /\ t[Len(s) + 1] = p /\ \A i \in 1 .. Len(s) : t[i] = s[i]
  BY <1>1
<1>3. \A i \in 1 .. Len(s) : s[i] # p
  BY <1>2 DEF Range
<1>4. \A i \in DOMAIN t : i \in 1 .. Len(s) \/ i = Len(s) + 1
  BY <1>2
<1>5. Unique(t)
  BY <1>2, <1>3, <1>4 DEF Unique
<1>6. Range(t) = Range(s) \cup {p}
  <2>1. ASSUME NEW x \in Range(t) PROVE x \in Range(s) \cup {p}
    <3>1. PICK i \in DOMAIN t : t[i] = x
      BY DEF Range
    <3> QED BY <1>2, <1>4, <3>1 DEF Range
  <2>2. ASSUME NEW x \in Range(s) PROVE x \in Range(t)
    <3>1. PICK i \in DOMAIN s : s[i] = x
      BY DEF Range
    <3> QED BY <1>2, <3>1 DEF Range
  <2>3. p \in Range(t)
    <3>1. Len(s) + 1 \in DOMAIN t
      BY <1>2
    <3> QED BY <1>2, <3>1 DEF Range
  <2> QED BY <2>1, <2>2, <2>3
<1>7. \A i \in DOMAIN t : t[i] <= n
  BY <1>2, <1>4
<1> QED BY <1>1, <1>5, <1>6, <1>7

\* A slot is given back.
LEMMA GivesBack ==
  ASSUME TypeOK, FreeListOK, NEW p \in Slots, InUse(p), free_fibers' = Append(free_fibers, p),
         UNCHANGED nfibers
  PROVE  FreeListOK' /\ \A q \in Slots : q # p /\ InUse(q) => InUse(q)'
<1>1. free_fibers \in Seq(Slots) /\ Unique(free_fibers) /\ p \notin Range(free_fibers)
      /\ p <= nfibers /\ \A i \in DOMAIN free_fibers : free_fibers[i] <= nfibers
  BY DEF TypeOK, FreeListOK, InUse
<1>2. /\ Unique(free_fibers') /\ Range(free_fibers') = Range(free_fibers) \cup {p}
      /\ \A i \in DOMAIN free_fibers' : free_fibers'[i] <= nfibers'
  BY <1>1, AppendOne
<1>3. FreeListOK'
  BY <1>2 DEF FreeListOK, Unique
<1>4. \A q \in Slots : q # p /\ InUse(q) => InUse(q)'
  BY <1>2 DEF InUse
<1> QED BY <1>3, <1>4

\* A slot is taken: it was free, and is not any more.
LEMMA TakesFree ==
  ASSUME TypeOK, FreeListOK, TakeSlot, NEW n, n = NewSlot
  PROVE  /\ n \in Slots /\ ~InUse(n) /\ n <= nfibers'
         /\ FreeLeft \in Seq(Slots) /\ Unique(FreeLeft) /\ n \notin Range(FreeLeft)
         /\ \A i \in DOMAIN FreeLeft : FreeLeft[i] <= nfibers'
         /\ \A q \in Slots : q # n /\ InUse(q) => q <= nfibers' /\ q \notin Range(FreeLeft)
<1>1. /\ n \in Slots /\ free_fibers \in Seq(Slots) /\ nfibers \in 0 .. NumSlots
      /\ nfibers \in Nat /\ Slots \subseteq Nat
      /\ nfibers' = IF free_fibers # <<>> THEN nfibers ELSE nfibers + 1
      /\ n = IF free_fibers # <<>> THEN Head(free_fibers) ELSE nfibers + 1
      /\ FreeLeft = IF free_fibers # <<>> THEN Tail(free_fibers) ELSE <<>>
      /\ Unique(free_fibers) /\ \A i \in DOMAIN free_fibers : free_fibers[i] <= nfibers
  BY PollerAssumption DEF TypeOK, TakeSlot, SlotLeft, NewSlot, FreeLeft, FreeListOK, Slots
<1>2. CASE free_fibers = <<>>
  <2>1. n = nfibers + 1 /\ nfibers' = n /\ FreeLeft = <<>> /\ n \in Nat
    BY <1>1, <1>2
  <2>2. ~InUse(n)
    BY <1>1, <2>1 DEF InUse
  <2>3. DOMAIN FreeLeft = {} /\ FreeLeft \in Seq(Slots)
    BY <2>1
  <2>4. \A q \in Slots : InUse(q) => q <= nfibers'
    BY <1>1, <2>1 DEF InUse
  <2> QED BY <1>1, <2>1, <2>2, <2>3, <2>4 DEF Unique, Range
<1>3. CASE free_fibers # <<>>
  <2>1. PICK t : t = FreeLeft
    OBVIOUS
  <2>2. /\ n = free_fibers[1] /\ 1 \in DOMAIN free_fibers /\ nfibers' = nfibers /\ t \in Seq(Slots)
        /\ \A i \in DOMAIN t : i + 1 \in DOMAIN free_fibers /\ i \in Nat /\ i # 0
                               /\ t[i] = free_fibers[i + 1]
    BY <1>1, <1>3, <2>1
  <2>3. n \in Range(free_fibers) /\ n <= nfibers
    BY <1>1, <2>2 DEF Range
  <2>4. \A i, j \in DOMAIN t : t[i] = t[j] => i = j
    <3> TAKE i, j \in DOMAIN t
    <3>1. free_fibers[i + 1] = free_fibers[j + 1] => i + 1 = j + 1
      BY <1>1, <2>2 DEF Unique
    <3> QED BY <2>2, <3>1
  <2>5. \A i \in DOMAIN t : t[i] # n
    <3> TAKE i \in DOMAIN t
    <3>1. free_fibers[i + 1] = free_fibers[1] => i + 1 = 1
      BY <1>1, <2>2 DEF Unique
    <3> QED BY <2>2, <3>1
  <2>6. \A x \in Range(t) : x \in Range(free_fibers)
    BY <2>2 DEF Range
  <2>7. n \notin Range(t)
    BY <2>5 DEF Range
  <2>8. \A i \in DOMAIN t : t[i] <= nfibers'
    BY <1>1, <2>2
  <2> QED BY <1>1, <2>1, <2>2, <2>3, <2>4, <2>6, <2>7, <2>8 DEF InUse, Unique
<1> QED BY <1>2, <1>3

-----------------------------------------------------------------------------
(* Creating fibers.                                                        *)

\* Nothing leads into a slot that is taken; the others are not touched.
LEMMA TakesIdle ==
  ASSUME Careful, TypeOK, EntryInv, TakeSlot, at \in {"main", "fiber"}, NEW n, n = NewSlot
  PROVE  /\ ~Leads(n) /\ n \notin edge' /\ UNCHANGED <<at, cur, loop>> /\ ~Entered(n)'
         /\ timer_refs[n] = 0 /\ edge' \subseteq edge
<1>1. n \in Slots /\ ~InUse(n)
  BY TakesFree DEF EntryInv, ListsOK
<1>2. ~Leads(n)
  BY <1>1 DEF EntryInv, SlotOK
<1>3. edge' = edge \ {n} /\ cur' = cur /\ loop' = loop
      /\ at' = IF at = "fiber" /\ n = cur THEN "panic" ELSE at
  BY DEF TakeSlot, SocketDropped, Goto
<1>4. at = "fiber" => n # cur
  BY <1>2 DEF Leads, Entered
<1>5. timer_refs[n] = 0
  BY DEF TakeSlot, SlotLeft, Careful
<1>6. ~Entered(n)'
  BY <1>2, <1>3, <1>4 DEF Leads, Entered
<1> QED BY <1>2, <1>3, <1>4, <1>5, <1>6

\* A new fiber.
Newborn(f) ==
    /\ f.op = "start" /\ f.parent = None /\ CanEnter(f)
    /\ f.func => f.result = "none"
    /\ f.wtoken # None /\ f.sock # "Empty" => f.connect_param

LEMMA NewSlotOK ==
  ASSUME Careful, TypeOK, EntryInv, TakeSlot, at \in {"main", "fiber"}, NEW n, n = NewSlot,
         NEW f, Update(n, f), free_fibers' = FreeLeft, UNCHANGED <<smth, fiber_refs, tomain_fibers>>,
         Newborn(f),
         \/ push_toexec(n) /\ Unprompted(f)
         \/ UNCHANGED toexec,
         \/ UNCHANGED timer_refs
         \/ /\ f.sock = "Empty" /\ UNCHANGED toexec
            /\ \E k : timer_refs' = [timer_refs EXCEPT ![n] = k],
         timedout' = timedout
  PROVE  EntryInv'
<1>1. /\ n \in Slots /\ ~InUse(n) /\ n <= nfibers'
      /\ FreeLeft \in Seq(Slots) /\ Unique(FreeLeft) /\ n \notin Range(FreeLeft)
      /\ \A i \in DOMAIN FreeLeft : FreeLeft[i] <= nfibers'
      /\ \A q \in Slots : q # n /\ InUse(q) => q <= nfibers' /\ q \notin Range(FreeLeft)
  BY TakesFree DEF EntryInv, ListsOK
<1>2. /\ ~Leads(n) /\ n \notin edge' /\ UNCHANGED <<at, cur, loop>> /\ ~Entered(n)'
      /\ timer_refs[n] = 0 /\ edge' \subseteq edge
  BY TakesIdle
<1>3. /\ FreeListOK' /\ InUse(n)' /\ \A q \in Slots : q # n /\ InUse(q) => InUse(q)'
  BY <1>1 DEF FreeListOK, InUse, Unique
<1>4. /\ Unique(toexec)' /\ \A q : Scheduled(q)' => Scheduled(q) \/ q = n
      /\ Scheduled(n)' => Unprompted(f) /\ UNCHANGED timer_refs
  <2>1. Unique(toexec) /\ ~Scheduled(n)
    BY <1>2 DEF EntryInv, ListsOK, Leads
  <2>2. CASE push_toexec(n) /\ Unprompted(f)
    <3>1. Scheduled(n)'
      BY <1>1, <2>1, <2>2, PushesOne
    <3>2. UNCHANGED toexec => ~Scheduled(n)'
      BY <2>1 DEF Scheduled
    <3> QED BY <1>1, <2>1, <2>2, <3>1, <3>2, PushesOne
  <2>3. CASE UNCHANGED toexec
    BY <2>1, <2>3 DEF Scheduled, Unique
  <2> QED BY <2>2, <2>3
<1>5. fibers'[n] = f /\ \A q \in Slots : q # n => fibers'[q] = fibers[q]
  BY <1>1 DEF Update, TypeOK
<1>6. \A q \in Slots : q # n => timer_refs'[q] = timer_refs[q]
  BY DEF TypeOK
<1>7. \A q \in Slots : q # n => Untouched(q)
  BY <1>2, <1>3, <1>4, <1>5, <1>6 DEF Untouched, Entered, Leaving
<1>8. Phase
  BY <1>2 DEF Phase, Late, Inside
<1>9. SlotOK(n)'
  <2>1. RecordOK(f)
    BY DEF Newborn, RecordOK
  <2>2. Scheduled(n)' => QueuedOK(n)'
    BY <1>2, <1>4, <1>5 DEF QueuedOK, Unprompted
  <2>3. timer_refs'[n] > 0 => f.sock = "Empty"
    BY <1>2
  <2>4. fiber_refs'[n] = 0
    BY <1>1 DEF EntryInv, SlotOK
  <2> QED BY <1>2, <1>3, <1>5, <2>1, <2>2, <2>3, <2>4 DEF SlotOK, Newborn
<1>10. ListsOK'
  BY <1>3, <1>4 DEF ListsOK, EntryInv
<1>11. LoopOK'
  BY <1>2 DEF LoopOK, EntryInv, Inside
<1>12. InsideOK'
  <2>1. CASE at = "main"
    BY <1>2, <2>1 DEF InsideOK, Inside
  <2>2. CASE at = "fiber"
    <3>1. cur # n /\ cur \in Slots
      BY <1>2, <2>2 DEF Entered, TypeOK
    <3> QED BY <1>2, <1>5, <1>6, <2>2, <3>1 DEF InsideOK, EntryInv, Me, Inside
  <2> QED BY <2>1, <2>2
<1> QED BY <1>1, <1>2, <1>7, <1>8, <1>9, <1>10, <1>11, <1>12, OneSlotSound DEF EntryInv

LEMMA CreatesSound ==
  ASSUME Careful, TypeOK, EntryInv, Creates
  PROVE  EntryInv'
<1> USE DEF timerVars, outVars, mainVars
<1>0. PICK n, tk : n = NewSlot /\ tk = NextToken
  OBVIOUS
<1>1. ASSUME NEW f, NEW schedule, f.parent = None, register(f, schedule)
      PROVE  /\ TakeSlot /\ Update(n, f) /\ free_fibers' = FreeLeft
             /\ IF schedule THEN push_toexec(n) ELSE UNCHANGED toexec
  BY <1>0, <1>1 DEF register, WithParent, Update
<1>2. ASSUME NEW sock \in Socks, NEW call, New(sock, call), sock # "Listener" PROVE EntryInv'
  <2>1. PICK f : f = NewFiber(TRUE, sock, TRUE, None)
    OBVIOUS
  <2>2. /\ register(f, TRUE) /\ at \in {"main", "fiber"}
        /\ UNCHANGED <<smth, fiber_refs, timer_refs, tomain_fibers, timedout>>
    BY <1>2, <2>1 DEF New, OnMain, InFiber
  <2>3. Newborn(f) /\ Unprompted(f) /\ f.parent = None
    BY <1>2, <2>1 DEF NewFiber, Newborn, CanEnter, Unprompted
  <2> QED BY <1>0, <1>1, <2>2, <2>3, NewSlotOK
<1>3. ASSUME NEW func \in BOOLEAN, NewTimer(func) PROVE EntryInv'
  <2> DEFINE e == NewFiber(func, "Empty", func, None)
  <2>1. PICK f : f = [e EXCEPT !.result = IF func THEN "none" ELSE "chunk", !.wtoken = tk]
    OBVIOUS
  <2>2. /\ register(f, FALSE) /\ at \in {"main", "fiber"}
        /\ UNCHANGED <<smth, fiber_refs, tomain_fibers, timedout>>
        /\ \E k : timer_refs' = [timer_refs EXCEPT ![n] = k]
    BY <1>0, <1>3, <2>1 DEF NewTimer, OnMain
  <2>3. Newborn(f) /\ f.parent = None /\ f.sock = "Empty"
    BY <2>1 DEF NewFiber, Newborn, CanEnter
  <2> QED BY <1>0, <1>1, <2>2, <2>3, NewSlotOK
<1>4. CASE NewResolve
  <2> DEFINE e == NewFiber(TRUE, "Udp", TRUE, None)
  <2>1. PICK ticks : register([e EXCEPT !.connect_param = TRUE, !.ready = "readable",
                                  !.wtoken = NextToken, !.timed_out = ticks], FALSE)
    BY <1>4 DEF NewResolve, Resolve
  <2>2. PICK f : f = [e EXCEPT !.connect_param = TRUE, !.ready = "readable",
                         !.wtoken = tk, !.timed_out = ticks]
    OBVIOUS
  <2>3. /\ register(f, FALSE) /\ at \in {"main", "fiber"}
        /\ UNCHANGED <<smth, fiber_refs, timer_refs, tomain_fibers, timedout>>
    BY <1>0, <1>4, <2>1, <2>2 DEF NewResolve, Resolve, OnMain, InFiber
  <2>4. Newborn(f) /\ f.parent = None
    BY <2>2 DEF NewFiber, Newborn, CanEnter
  <2> QED BY <1>0, <1>1, <2>3, <2>4, NewSlotOK
<1>5. CASE ResolveFails
  <2>1. PICK ticks : Update(n, [NewFiber(TRUE, "Empty", FALSE, None) EXCEPT !.timed_out = ticks])
    BY <1>0, <1>5 DEF ResolveFails
  <2>2. PICK f : f = [NewFiber(TRUE, "Empty", FALSE, None) EXCEPT !.timed_out = ticks]
    OBVIOUS
  <2>3. /\ f.op = "start" /\ f.func /\ f.wtoken = None /\ f.sock = "Empty" /\ f.result = "none"
    BY <2>2 DEF NewFiber
  <2>4. /\ TakeSlot /\ at \in {"main", "fiber"} /\ Update(n, f)
        /\ free_fibers' \in {FreeLeft, Append(FreeLeft, n)}
        /\ UNCHANGED <<toexec, smth, fiber_refs, timer_refs, tomain_fibers, timedout>>
    BY <1>0, <1>5, <2>1, <2>2 DEF ResolveFails, OnMain, InFiber
  <2>5. /\ n \in Slots /\ ~InUse(n) /\ n <= nfibers'
        /\ FreeLeft \in Seq(Slots) /\ Unique(FreeLeft) /\ n \notin Range(FreeLeft)
        /\ \A i \in DOMAIN FreeLeft : FreeLeft[i] <= nfibers'
        /\ \A q \in Slots : q # n /\ InUse(q) => q <= nfibers' /\ q \notin Range(FreeLeft)
    BY <1>0, <2>4, TakesFree DEF EntryInv, ListsOK
  <2>6. /\ ~Leads(n) /\ n \notin edge' /\ UNCHANGED <<at, cur, loop>> /\ ~Entered(n)'
        /\ timer_refs[n] = 0 /\ edge' \subseteq edge
    BY <1>0, <2>4, TakesIdle
  <2>7. FreeListOK' /\ \A q \in Slots : q # n /\ InUse(q) => InUse(q)'
    <3>1. CASE free_fibers' = FreeLeft
      BY <2>5, <3>1 DEF FreeListOK, InUse, Unique
    <3>2. CASE free_fibers' = Append(FreeLeft, n)
      <4>1. /\ Unique(free_fibers') /\ Range(free_fibers') = Range(FreeLeft) \cup {n}
            /\ \A i \in DOMAIN free_fibers' : free_fibers'[i] <= nfibers'
        BY <2>5, <3>2, AppendOne
      <4> QED BY <2>5, <4>1 DEF FreeListOK, InUse, Unique
    <3> QED BY <2>4, <3>1, <3>2
  <2>8. fibers'[n] = f /\ \A q \in Slots : q # n => fibers'[q] = fibers[q]
    BY <2>4, <2>5 DEF Update, TypeOK
  <2>9. \A q \in Slots : q # n => Untouched(q)
    BY <2>4, <2>6, <2>7, <2>8 DEF Untouched, Entered, Leaving, Scheduled
  <2>10. Phase
    BY <2>4, <2>6 DEF Phase, Late, Inside
  <2>11. SlotOK(n)'
    <3>1. RecordOK(f)
      BY <2>3 DEF RecordOK
    <3>2. ~Scheduled(n)'
      BY <2>4, <2>6 DEF Leads, Scheduled
    <3>3. fiber_refs'[n] = 0
      BY <2>4, <2>5 DEF EntryInv, SlotOK
    <3>4. ~Leads(n)'
      BY <2>3, <2>6, <2>8, <3>2 DEF Leads
    <3> QED BY <2>3, <2>4, <2>6, <2>8, <3>1, <3>2, <3>3, <3>4 DEF SlotOK
  <2>12. ListsOK'
    BY <2>4, <2>7 DEF ListsOK, EntryInv, Unique
  <2>13. LoopOK'
    BY <2>4, <2>6 DEF LoopOK, EntryInv, Inside
  <2>14. InsideOK'
    <3>1. CASE at = "main"
      BY <2>6, <3>1 DEF InsideOK, Inside
    <3>2. CASE at = "fiber"
      <4>1. cur # n /\ cur \in Slots
        BY <2>6, <3>2 DEF Entered, TypeOK
      <4> QED BY <2>4, <2>6, <2>8, <3>2, <4>1 DEF InsideOK, EntryInv, Me, Inside
    <3> QED BY <2>4, <3>1, <3>2
  <2> QED BY <2>5, <2>6, <2>9, <2>10, <2>11, <2>12, <2>13, <2>14, OneSlotSound DEF EntryInv
<1>6. ~New("Listener", "new_listener") /\ ~JoinResolve
      /\ \A sock, call : call \in {"join_tcp", "join_udp"} => ~Join(sock, call)
  BY DEF New, Join, JoinResolve, OnMain, InFiber, Careful
<1>7. {"Tcp", "Udp", "Empty"} \subseteq Socks
  BY DEF Socks
<1>8. ~ListenerFails
  BY DEF ListenerFails, Careful
<1> QED BY <1>2, <1>3, <1>4, <1>5, <1>6, <1>7, <1>8 DEF Creates

-----------------------------------------------------------------------------
(* Calls of a running fiber.                                               *)

\* What is known of the fiber that control is in.
LEMMA EnteredSlot ==
  ASSUME TypeOK, EntryInv, Inside, NEW p, p = cur
  PROVE  /\ p \in Slots /\ fibers[p] \in Fiber /\ Me = fibers[p] /\ SlotOK(p)
         /\ InUse(p) /\ CanEnter(fibers[p]) /\ ~Scheduled(p)
<1>1. p \in Slots /\ fibers[p] \in Fiber /\ Me = fibers[p]
  BY DEF TypeOK, Me
<1>2. SlotOK(p) /\ Entered(p)
  BY <1>1 DEF EntryInv, Inside, Entered
<1> QED BY <1>1, <1>2 DEF SlotOK, Leads, QueuedOK

\* Control stays in the fiber p, which becomes f, and nothing else changes but
\* its socket and the timers.
InPlace(p, f) ==
    /\ p = cur /\ Update(p, f) /\ UNCHANGED <<cur, loop, smth>>
    /\ UNCHANGED <<toexec, free_fibers, nfibers, timer_refs, fiber_refs, tomain_fibers, timedout>>
    /\ edge' \subseteq edge \cup {p}
    /\ p \in edge' => f.sock # "Empty" /\ f.ready # "none"

LEMMA StaysInside ==
  ASSUME TypeOK, EntryInv, Inside, NEW p, NEW f, InPlace(p, f), Inside',
         RecordOK(f), CanEnter(f), f.sock # "Empty" => fibers[p].sock # "Empty",
         f.func /\ f.result # "none" =>
                              at' = "stepped_out" /\ (f.op = "resp_chunk" \/ f.state = "Closed"),
         at' \in {"step_into", "resumed"} /\ f.op = "start" => f.wtoken = None,
         at' = "fiber" => f.wtoken = None /\ f.state = "Stacked",
         at' = "stepped_out" => IF f.state # "Closed" THEN f.func ELSE f.wtoken = None
  PROVE  EntryInv'
<1>1. p \in Slots /\ SlotOK(p) /\ InUse(p) /\ ~Scheduled(p)
  BY EnteredSlot DEF InPlace
<1>2. fibers'[p] = f /\ \A q \in Slots : q # p => fibers'[q] = fibers[q]
  BY <1>1 DEF InPlace, Update, TypeOK
<1>3. \A q \in Slots : q # p => Untouched(q)
  BY <1>2 DEF InPlace, Untouched, Scheduled, Entered, Leaving, InUse
<1>4. Phase
  BY DEF Phase, Late, Inside, InPlace
<1>5. SlotOK(p)'
  <2>1. ~Scheduled(p)' /\ InUse(p)'
    BY <1>1 DEF InPlace, Scheduled, InUse
  <2>2. Leaving(p)' <=> at' = "stepped_out" /\ (f.op = "resp_chunk" \/ f.state = "Closed")
    BY <1>2 DEF Leaving, InPlace
  <2> QED BY <1>1, <1>2, <2>1, <2>2 DEF SlotOK, InPlace
<1>6. ListsOK' /\ LoopOK'
  BY DEF ListsOK, LoopOK, EntryInv, InPlace, FreeListOK, Unique, Inside
<1>7. InsideOK'
  BY <1>2 DEF InsideOK, EntryInv, Inside, InPlace, Me
<1>8. at' # "panic"
  BY DEF Inside
<1> QED BY <1>1, <1>3, <1>4, <1>5, <1>6, <1>7, <1>8, OneSlotSound

LEMMA CallsSound ==
  ASSUME Careful, TypeOK, WakeInv, EntryInv, Calls
  PROVE  EntryInv'
<1> USE DEF pollerVars, timerVars, sockVars, OnlyFibers, control, slotVars, outVars, mainVars
<1>0. PICK p : p = cur
  OBVIOUS
<1>1. ASSUME at = "fiber"
      PROVE  /\ p \in Slots /\ fibers[p] \in Fiber /\ Me = fibers[p] /\ SlotOK(p) /\ RecordOK(Me)
             /\ InUse(p) /\ CanEnter(Me) /\ Inside /\ Me.func /\ Me.wtoken = None
             /\ Me.state = "Stacked"
  BY <1>0, <1>1, EnteredSlot, Running DEF Inside, EntryInv, InsideOK, SlotOK
<1>2. CASE SocketTimeout
  <2>1. PICK f : f = [Me EXCEPT !.timeout = ~@]
    OBVIOUS
  <2>2. /\ at = "fiber" /\ Update(p, f) /\ at' = at /\ Me.op = "user"
        /\ UNCHANGED <<cur, loop, smth, toexec, free_fibers, nfibers, timer_refs, fiber_refs,
                       tomain_fibers, timedout, edge>>
    BY <1>0, <1>2, <2>1 DEF SocketTimeout, InFiber
  <2>3. /\ Alike(f, Me) /\ f.state = Me.state /\ f.param = Me.param /\ f.result = Me.result
    BY <1>1, <2>1, <2>2 DEF Alike, Fiber
  <2> HIDE DEF pollerVars, timerVars, sockVars, OnlyFibers, control, slotVars, outVars, mainVars
  <2>4. InPlace(p, f)
    BY <1>0, <1>1, <2>2, <2>3 DEF InPlace, Alike, SlotOK
  <2>5. RecordOK(f) /\ CanEnter(f) /\ Inside'
    BY <1>1, <2>2, <2>3 DEF RecordOK, CanEnter, Alike, Inside
  <2>6. Me.result = "none"
    BY <1>0, <1>1, <2>2 DEF SlotOK, Leaving
  <2> QED BY <1>1, <2>2, <2>3, <2>4, <2>5, <2>6, StaysInside DEF Alike
<1>3. ASSUME NEW call \in {"read", "write"}, NEW dir,
             IoReturns(call, dir) \/ IoUnregistered(call, dir) \/ HandshakeFails \/ HandshakeDone
      PROVE  EntryInv'
  <2>1. /\ at = "fiber" /\ at' = at
        /\ UNCHANGED <<cur, loop, smth, toexec, free_fibers, nfibers, timer_refs, fiber_refs,
                       tomain_fibers, timedout>>
        /\ \E s : /\ Update(p, [Me EXCEPT !.sock = s, !.op = "user"])
                  /\ s # "Empty" => Me.sock # "Empty"
                  /\ \/ UNCHANGED edge /\ (Me.sock # "Empty" => s # "Empty")
                     \/ edge' = edge \ {p}
    <3>1. Me \in Fiber => [Me EXCEPT !.op = "user"] = [Me EXCEPT !.sock = Me.sock, !.op = "user"]
      BY DEF Fiber
    <3>2. Me \in Fiber
      BY MeType
    <3>3. HandshakeSock # "Empty"
      BY DEF HandshakeSock
    <3>4. CASE IoReturns(call, dir)
      BY <1>0, <3>1, <3>2, <3>4 DEF IoReturns, InLoop, InFiber
    <3>5. CASE IoUnregistered(call, dir)
      BY <1>0, <3>1, <3>2, <3>5 DEF IoUnregistered, WouldBlock, InLoop, InFiber, Careful
    <3>6. CASE HandshakeFails
      BY <1>0, <3>6 DEF HandshakeFails, InLoop, InFiber, SocketDropped
    <3>7. CASE HandshakeDone
      <4>1. /\ at = "fiber" /\ Me.sock = HandshakeSock /\ UNCHANGED <<at, edge>>
            /\ Update(p, [Me EXCEPT !.sock = "Tls", !.op = "user"])
        BY <1>0, <3>7 DEF HandshakeDone, InLoop, InFiber
      <4>2. UNCHANGED <<cur, loop, smth, toexec, free_fibers, nfibers, timer_refs, fiber_refs,
                        tomain_fibers, timedout>>
        BY <3>7 DEF HandshakeDone
      <4>3. "Tls" # "Empty" /\ Me.sock # "Empty"
        BY <3>3, <4>1
      <4>4. /\ Update(p, [Me EXCEPT !.sock = "Tls", !.op = "user"])
            /\ "Tls" # "Empty" => Me.sock # "Empty"
            /\ UNCHANGED edge /\ (Me.sock # "Empty" => "Tls" # "Empty")
        BY <4>1, <4>3
      <4> HIDE DEF pollerVars, timerVars, sockVars, OnlyFibers, control, slotVars, outVars, mainVars
      <4> QED BY <4>1, <4>2, <4>4, Zenon
    <3> QED BY <1>3, <3>4, <3>5, <3>6, <3>7
  <2>2. PICK s : /\ Update(p, [Me EXCEPT !.sock = s, !.op = "user"])
                 /\ s # "Empty" => Me.sock # "Empty"
                 /\ \/ UNCHANGED edge /\ (Me.sock # "Empty" => s # "Empty")
                    \/ edge' = edge \ {p}
    BY <2>1
  <2>3. PICK f : f = [Me EXCEPT !.sock = s, !.op = "user"]
    OBVIOUS
  <2>4. /\ f.func = Me.func /\ f.sock = s /\ f.wtoken = Me.wtoken /\ f.op = "user"
        /\ f.state = Me.state /\ f.result = Me.result /\ f.ready = Me.ready
    BY <1>1, <2>1, <2>3 DEF Fiber
  <2> HIDE DEF pollerVars, timerVars, sockVars, OnlyFibers, control, slotVars, outVars, mainVars
  <2>5. InPlace(p, f)
    BY <1>0, <1>1, <2>1, <2>2, <2>3, <2>4 DEF InPlace, SlotOK
  <2>6. Me.state = "Stacked" /\ Me.result = "none"
    <3>1. Me.op # "start" /\ Me.op # "resp_chunk"
      <4>1. CASE IoReturns(call, dir) \/ IoUnregistered(call, dir)
        BY <4>1 DEF IoReturns, IoUnregistered, WouldBlock, InLoop, InFiber
      <4>2. CASE HandshakeFails \/ HandshakeDone
        BY <4>2 DEF HandshakeFails, HandshakeDone, InLoop, InFiber
      <4> QED BY <1>3, <4>1, <4>2
    <3> QED BY <1>0, <1>1, <2>1, <3>1 DEF SlotOK, RecordOK, Leaving
  <2>7. RecordOK(f) /\ CanEnter(f) /\ Inside'
    BY <1>1, <2>1, <2>4, <2>6 DEF RecordOK, CanEnter, Inside
  <2> QED BY <1>1, <2>1, <2>2, <2>4, <2>5, <2>6, <2>7, StaysInside

<1>4. ASSUME NEW call \in {"read", "write"}, NEW dir \in Directions, IoBlocks(call, dir)
      PROVE  EntryInv'
  <2> DEFINE tk == IF Armed(call) THEN NextToken ELSE Me.wtoken
             out == IF Armed(call) THEN 0 ELSE Me.timed_out
             rd == IF MustRegister(dir) THEN dir ELSE Me.ready
  <2>1. PICK f : f = [Me EXCEPT !.op = call, !.ready = rd, !.wtoken = tk, !.timed_out = out]
    OBVIOUS
  <2>2. /\ at = "fiber" /\ Update(p, f) /\ at' = "stepped_out" /\ Me.sock \in SocksFor(call)
        /\ UNCHANGED <<cur, loop, smth, toexec, free_fibers, nfibers, timer_refs, fiber_refs,
                       tomain_fibers, timedout>>
        /\ edge' \subseteq edge \cup {p}
        /\ Me.op \in {"user", call}
    BY <1>0, <1>4, <2>1 DEF IoBlocks, WouldBlock, InLoop, InFiber, Goto, Registered
  <2>3. rd = dir
    BY DEF MustRegister
  <2> HIDE DEF tk, out, rd
  <2>4. /\ f.func = Me.func /\ f.op = call /\ f.ready = rd /\ f.sock = Me.sock
        /\ f.state = Me.state /\ f.result = Me.result
    BY <1>1, <2>1, <2>2 DEF Fiber
  <2>5. Me.sock # "Empty" /\ rd # "none"
    BY <1>4, <2>2, <2>3 DEF SocksFor, Directions
  <2>6. Me.state = "Stacked" /\ Me.result = "none"
    BY <1>0, <1>1, <1>4, <2>2 DEF SlotOK, RecordOK, Leaving
  <2> HIDE DEF pollerVars, timerVars, sockVars, OnlyFibers, control, slotVars, outVars, mainVars
  <2>7. InPlace(p, f)
    BY <1>0, <2>2, <2>4, <2>5 DEF InPlace
  <2>8. RecordOK(f) /\ CanEnter(f) /\ Inside'
    BY <1>4, <2>2, <2>4, <2>6 DEF RecordOK, CanEnter, Inside
  <2> QED BY <1>1, <2>2, <2>4, <2>5, <2>6, <2>7, <2>8, StaysInside
<1>5. CASE HandshakeBlocks
  <2> DEFINE tk == IF Armed("handshake") THEN NextToken ELSE Me.wtoken
             out == IF Armed("handshake") THEN 0 ELSE Me.timed_out
  <2>1. PICK f : f = [Me EXCEPT !.op = "handshake", !.sock = "TlsTemp",
                         !.ready = "readable", !.wtoken = tk, !.timed_out = out]
    OBVIOUS
  <2>2. /\ at = "fiber" /\ Update(p, f) /\ at' = "stepped_out" /\ Me.sock = HandshakeSock
        /\ UNCHANGED <<cur, loop, smth, toexec, free_fibers, nfibers, timer_refs, fiber_refs,
                       tomain_fibers, timedout>>
        /\ edge' \subseteq edge \cup {p}
        /\ Me.op \in {"user", "handshake"}
    BY <1>0, <1>5, <2>1 DEF HandshakeBlocks, InLoop, InFiber, Goto
  <2> HIDE DEF tk, out
  <2>3. /\ f.func = Me.func /\ f.op = "handshake" /\ f.ready = "readable" /\ f.sock = "TlsTemp"
        /\ f.state = Me.state /\ f.result = Me.result
    BY <1>1, <2>1, <2>2 DEF Fiber
  <2>4. Me.sock # "Empty"
    BY <2>2 DEF HandshakeSock
  <2>5. Me.state = "Stacked" /\ Me.result = "none"
    BY <1>0, <1>1, <2>2 DEF SlotOK, RecordOK, Leaving
  <2> HIDE DEF pollerVars, timerVars, sockVars, OnlyFibers, control, slotVars, outVars, mainVars
  <2>6. InPlace(p, f)
    BY <1>0, <2>2, <2>3 DEF InPlace
  <2>7. RecordOK(f) /\ CanEnter(f) /\ Inside'
    BY <2>2, <2>3, <2>5 DEF RecordOK, CanEnter, Inside
  <2> QED BY <1>1, <2>2, <2>3, <2>4, <2>5, <2>6, <2>7, StaysInside
<1>6. CASE RespChunk
  <2>1. PICK f : f = [Me EXCEPT !.result = "chunk", !.op = "resp_chunk"]
    OBVIOUS
  <2>2. /\ at = "fiber" /\ Update(p, f) /\ at' = "stepped_out" /\ "resp_chunk" \in Usage
        /\ UNCHANGED <<cur, loop, smth, toexec, free_fibers, nfibers, timer_refs, fiber_refs,
                       tomain_fibers, timedout, edge>>
        /\ Me.op = "user"
    BY <1>0, <1>6, <2>1 DEF RespChunk, InFiber, Goto
  <2>3. /\ f.func = Me.func /\ f.op = "resp_chunk" /\ f.ready = Me.ready /\ f.sock = Me.sock
        /\ f.state = Me.state /\ f.wtoken = Me.wtoken
    BY <1>1, <2>1, <2>2 DEF Fiber
  <2>4. Me.state = "Stacked"
    BY <1>1, <2>2
  <2> HIDE DEF pollerVars, timerVars, sockVars, OnlyFibers, control, slotVars, outVars, mainVars
  <2>5. InPlace(p, f)
    BY <1>0, <1>1, <2>2, <2>3 DEF InPlace, SlotOK
  <2>6. RecordOK(f) /\ CanEnter(f) /\ Inside'
    BY <1>1, <2>2, <2>3, <2>4 DEF RecordOK, CanEnter, Inside
  <2> QED BY <1>1, <2>2, <2>3, <2>5, <2>6, StaysInside
<1>7. CASE Return
  <2>1. PICK r : Update(p, [Me EXCEPT !.result = r, !.state = "Closed"])
    BY <1>0, <1>7 DEF Return
  <2>2. PICK f : f = [Me EXCEPT !.result = r, !.state = "Closed"]
    OBVIOUS
  <2>3. /\ at = "fiber" /\ Update(p, f) /\ at' = "stepped_out"
        /\ UNCHANGED <<cur, loop, smth, toexec, free_fibers, nfibers, timer_refs, fiber_refs,
                       tomain_fibers, timedout, edge>>
        /\ Me.op = "user"
    BY <1>0, <1>7, <2>1, <2>2 DEF Return, Goto
  <2>4. /\ f.func = Me.func /\ f.op = "user" /\ f.ready = Me.ready /\ f.sock = Me.sock
        /\ f.state = "Closed" /\ f.wtoken = Me.wtoken
    BY <1>1, <2>2, <2>3 DEF Fiber
  <2> HIDE DEF pollerVars, timerVars, sockVars, OnlyFibers, control, slotVars, outVars, mainVars
  <2>5. InPlace(p, f)
    BY <1>0, <1>1, <2>3, <2>4 DEF InPlace, SlotOK
  <2>6. RecordOK(f) /\ CanEnter(f) /\ Inside'
    BY <1>1, <2>3, <2>4 DEF RecordOK, CanEnter, Inside
  <2> QED BY <1>1, <2>3, <2>4, <2>5, <2>6, StaysInside
<1>8. /\ ~JoinMain /\ ~HibernateForRead /\ ~HibernateJoinMain /\ ~NoChildren /\ ~ChildBlocks
      /\ \A i : ~TakeChild(i)
      /\ ~IoReturns("accept", "readable") /\ ~IoBlocks("accept", "readable")
  <2>1. ~InFiber("join_main") /\ ~InFiber("hibernate")
    BY DEF InFiber, Careful
  <2>2. ~InLoop("get_child") /\ ~InLoop("accept")
    BY <1>1 DEF InLoop, InFiber, Careful, RecordOK
  <2> QED BY <2>1, <2>2 DEF JoinMain, HibernateForRead, HibernateJoinMain, NoChildren, ChildBlocks,
                   TakeChild, IoReturns, IoBlocks, WouldBlock
<1>9. "readable" \in Directions /\ "writable" \in Directions
  BY DEF Directions
<1> QED BY <1>2, <1>3, <1>4, <1>5, <1>6, <1>7, <1>8, <1>9 DEF Calls

-----------------------------------------------------------------------------
(* Context switches.                                                       *)

LEMMA ResumesSound ==
  ASSUME Careful, TypeOK, WakeInv, EntryInv,
         StepInto \/ Start \/ ResumeIo \/ ResumeJoinMain \/ Resume
  PROVE  EntryInv'
<1> USE DEF pollerVars, timerVars, sockVars, OnlyFibers, slotVars, outVars, mainVars
<1>0. PICK p : p = cur
  OBVIOUS
<1>1. /\ at \in {"step_into", "resumed"} /\ Inside
      /\ UNCHANGED <<cur, loop, smth, toexec, free_fibers, nfibers, timer_refs, fiber_refs,
                     tomain_fibers, timedout, edge>>
  BY DEF StepInto, Start, ResumeIo, ResumeJoinMain, Resume, Goto, Inside
<1>2. /\ p \in Slots /\ fibers[p] \in Fiber /\ Me = fibers[p] /\ SlotOK(p) /\ RecordOK(Me)
      /\ InUse(p) /\ CanEnter(Me) /\ (Me.op = "start" => Me.wtoken = None)
      /\ (Me.func => Me.result = "none")
      /\ (at = "resumed" => Me.func) /\ (~Me.func => Me.op = "start")
  <2>1. p \in Slots /\ fibers[p] \in Fiber /\ Me = fibers[p] /\ SlotOK(p) /\ InUse(p) /\ CanEnter(Me)
    BY <1>0, <1>1, EnteredSlot
  <2>2. ~Leaving(p)
    BY <1>1 DEF Leaving
  <2>3. EventOK(p) /\ (at = "resumed" => Me.func)
    BY <1>0, <1>1, Running DEF Inside
  <2> QED BY <1>1, <2>1, <2>2, <2>3 DEF SlotOK, EntryInv, InsideOK, EventOK
<1>3. ASSUME NEW f, Update(p, f), f.sock = Me.sock, f.ready = Me.ready PROVE InPlace(p, f)
  BY <1>0, <1>1, <1>2, <1>3 DEF InPlace, SlotOK
<1>4. CASE StepInto
  <2>1. CASE ~Me.func
    <3>1. PICK f : f = [Me EXCEPT !.state = "Closed"]
      OBVIOUS
    <3>2. at' = "stepped_out" /\ Update(p, f)
      BY <1>0, <1>4, <2>1, <3>1 DEF StepInto, Goto
    <3>3. /\ f.sock = Me.sock /\ f.ready = Me.ready /\ f.func = Me.func /\ f.op = Me.op
          /\ f.wtoken = Me.wtoken /\ f.state = "Closed"
      BY <1>2, <3>1 DEF Fiber
    <3>4. InPlace(p, f) /\ RecordOK(f) /\ CanEnter(f) /\ Inside'
      BY <1>2, <1>3, <2>1, <3>2, <3>3 DEF RecordOK, CanEnter, Inside
    <3> QED BY <1>1, <1>2, <2>1, <3>2, <3>3, <3>4, StaysInside
  <2>2. CASE Me.func
    <3>1. \E f : /\ Update(p, f) /\ Alike(f, Me) /\ f.state = Me.state /\ f.param = Me.param
                 /\ f.result = Me.result
      <4>1. CASE Me.stack = None
        <5>1. PICK f : f = [Me EXCEPT !.stack = PoppedStack(StacksInUse)]
          OBVIOUS
        <5>2. Update(p, f)
          BY <1>0, <1>4, <2>2, <4>1, <5>1 DEF StepInto
        <5>3. Alike(f, Me) /\ f.state = Me.state /\ f.param = Me.param /\ f.result = Me.result
          BY <1>2, <5>1 DEF Alike, Fiber
        <5> QED BY <5>2, <5>3
      <4>2. CASE Me.stack # None
        <5>1. UNCHANGED fibers
          BY <1>4, <2>2, <4>2 DEF StepInto
        <5>2. Update(p, Me) /\ Alike(Me, Me)
          BY <1>2, <5>1 DEF Update, Alike, TypeOK
        <5> QED BY <5>2
      <4> QED BY <4>1, <4>2
    <3>2. PICK f : /\ Update(p, f) /\ Alike(f, Me) /\ f.state = Me.state /\ f.param = Me.param
                   /\ f.result = Me.result
      BY <3>1
    <3>3. at' = "resumed"
      BY <1>4, <2>2 DEF StepInto, Goto
    <3>4. InPlace(p, f) /\ RecordOK(f) /\ CanEnter(f) /\ Inside'
      BY <1>2, <1>3, <3>2, <3>3 DEF RecordOK, CanEnter, Inside, Alike
    <3> QED BY <1>1, <1>2, <2>2, <3>2, <3>3, <3>4, StaysInside DEF Alike
  <2> QED BY <2>1, <2>2
<1>5. CASE Start
  <2>1. PICK f : f = [Me EXCEPT !.state = "Stacked", !.param = FALSE, !.op = "user"]
    OBVIOUS
  <2>2. Update(p, f) /\ Me.op = "start" /\ at = "resumed" /\ at' = IF Me.param THEN "fiber" ELSE "panic"
    BY <1>0, <1>5, <2>1 DEF Start, Goto
  <2>3. /\ f.sock = Me.sock /\ f.ready = Me.ready /\ f.func = Me.func /\ f.op = "user"
        /\ f.wtoken = Me.wtoken /\ f.state = "Stacked" /\ f.result = Me.result
    BY <1>2, <2>1 DEF Fiber
  <2>4. at' = "fiber"
    BY <1>2, <2>2 DEF CanEnter
  <2>5. InPlace(p, f) /\ RecordOK(f) /\ CanEnter(f) /\ Inside'
    BY <1>2, <1>3, <2>2, <2>3, <2>4 DEF RecordOK, CanEnter, Inside
  <2> QED BY <1>1, <1>2, <2>2, <2>3, <2>4, <2>5, StaysInside
<1>6. CASE ResumeIo
  <2>1. PICK o : o = IF Me.timed_out > 0 THEN "user" ELSE Me.op
    OBVIOUS
  <2>2. PICK f : f = [Me EXCEPT !.wtoken = None, !.timed_out = 0, !.op = o]
    OBVIOUS
  <2>3. /\ Update(p, f) /\ Me.op \in {"read", "write", "handshake"} /\ at = "resumed" /\ at' = "fiber"
    BY <1>0, <1>6, <2>1, <2>2 DEF ResumeIo, Goto
  <2>4. /\ f.sock = Me.sock /\ f.ready = Me.ready /\ f.func = Me.func /\ f.op = o
        /\ f.wtoken = None /\ f.state = Me.state /\ f.result = Me.result
    BY <1>2, <2>2 DEF Fiber
  <2>5. Me.state = "Stacked" /\ Me.result = "none" /\ o \in {"user", "read", "write", "handshake"}
    BY <1>2, <2>1, <2>3 DEF RecordOK
  <2>6. InPlace(p, f) /\ RecordOK(f) /\ CanEnter(f) /\ Inside'
    BY <1>2, <1>3, <2>3, <2>4, <2>5 DEF RecordOK, CanEnter, Inside
  <2> QED BY <1>1, <1>2, <2>3, <2>4, <2>5, <2>6, StaysInside
<1>7. CASE Resume
  <2>1. PICK f : f = [Me EXCEPT !.op = "user"]
    OBVIOUS
  <2>2. Me.op = "resp_chunk" /\ at = "resumed" /\ at' = "fiber"
    BY <1>2, <1>7 DEF Resume, RecordOK, Goto
  <2>3. Update(p, f)
    BY <1>0, <1>7, <2>1, <2>2 DEF Resume
  <2>4. /\ f.sock = Me.sock /\ f.ready = Me.ready /\ f.func = Me.func /\ f.op = "user"
        /\ f.wtoken = Me.wtoken /\ f.state = Me.state /\ f.result = Me.result
    BY <1>2, <2>1 DEF Fiber
  <2>5. Me.state = "Stacked" /\ Me.wtoken = None
    BY <1>2, <2>2 DEF RecordOK
  <2>6. InPlace(p, f) /\ RecordOK(f) /\ CanEnter(f) /\ Inside'
    BY <1>2, <1>3, <2>2, <2>3, <2>4, <2>5 DEF RecordOK, CanEnter, Inside
  <2> QED BY <1>1, <1>2, <2>2, <2>4, <2>5, <2>6, StaysInside
<1>8. ~ResumeJoinMain
  BY <1>2 DEF ResumeJoinMain, RecordOK
<1> QED BY <1>4, <1>5, <1>6, <1>7, <1>8

\* Control goes back to the loop of run() from the fiber p, which becomes f.
BackInLoop(p, f) ==
    /\ p = cur /\ at = "stepped_out" /\ Goto(loop) /\ Update(p, f)
    /\ UNCHANGED <<timer_refs, fiber_refs, smth, timedout, tomain_fibers, nfibers>>
    /\ edge' \subseteq edge
    /\ p \in edge' => f.sock # "Empty" /\ f.ready # "none"

LEMMA LeavesSound ==
  ASSUME TypeOK, EntryInv, NEW p, NEW f, BackInLoop(p, f), FreeListOK', Unique(toexec)',
         \A q \in Slots : q # p /\ Scheduled(q)' => Scheduled(q),
         \A q \in Slots : q # p /\ InUse(q) => InUse(q)',
         RecordOK(f), f.func => f.result = "none", f.sock # "Empty" => fibers[p].sock # "Empty",
         Scheduled(p)' => loop = "toexec" /\ timer_refs[p] = 0 /\ f.wtoken = None,
         Scheduled(p)' \/ f.sock # "Empty" \/ f.wtoken # None => InUse(p)' /\ CanEnter(f)
  PROVE  EntryInv'
<1>1. p \in Slots /\ SlotOK(p) /\ loop \in {"toexec", "timedout"} /\ Inside /\ at' = loop /\ loop' = loop
  BY EnteredSlot DEF BackInLoop, Inside, TypeOK, Goto
<1>2. fibers'[p] = f /\ \A q \in Slots : q # p => fibers'[q] = fibers[q]
  BY <1>1 DEF BackInLoop, Update, TypeOK
<1>3. \A q \in Slots : ~Entered(q)'
  BY <1>1 DEF Entered
<1>4. \A q \in Slots : q # p => Untouched(q)
  BY <1>2, <1>3 DEF BackInLoop, Untouched, Leaving
<1>5. Late' => Late /\ loop = "timedout"
  BY <1>1 DEF Late, Inside
<1>6. Phase
  BY <1>1, <1>5 DEF Phase
<1>7. SlotOK(p)'
  <2>1. Scheduled(p)' => QueuedOK(p)'
    BY <1>1, <1>2, <1>3, <1>5 DEF QueuedOK, BackInLoop
  <2>2. Leads(p)' => Scheduled(p)' \/ f.sock # "Empty" \/ f.wtoken # None
    BY <1>1, <1>2, <1>3 DEF Leads
  <2> QED BY <1>1, <1>2, <2>1, <2>2 DEF SlotOK, BackInLoop
<1>8. ListsOK' /\ LoopOK' /\ InsideOK' /\ at' # "panic"
  BY <1>1 DEF ListsOK, LoopOK, InsideOK, EntryInv, BackInLoop, Inside
<1> QED BY <1>1, <1>4, <1>6, <1>7, <1>8, OneSlotSound

LEMMA UnstackedFields ==
  ASSUME TypeOK, NEW p \in Slots, NEW f, NEW u, u = Unstacked(p),
         \/ f = u
         \/ f = [u EXCEPT !.sock = "Empty", !.result = "none"]
         \/ f = [u EXCEPT !.result = "none"]
  PROVE  /\ Left(f, fibers[p]) /\ f.state = fibers[p].state /\ f.param = fibers[p].param
         /\ fibers[p].state = "Stacked" => f.op = fibers[p].op
         /\ f = u => f.result = fibers[p].result /\ f.sock = fibers[p].sock
         /\ f = [u EXCEPT !.sock = "Empty", !.result = "none"] => f.result = "none" /\ f.sock = "Empty"
         /\ f = [u EXCEPT !.result = "none"] => f.result = "none" /\ f.sock = fibers[p].sock
<1>1. PICK g : g = fibers[p]
  OBVIOUS
<1>2. PICK h : h = [g EXCEPT !.stack = None, !.op = "start"]
  OBVIOUS
<1>3. g \in Fiber
  BY <1>1 DEF TypeOK
<1>4. (u = g \/ u = h) /\ (g.state = "Stacked" => u = g)
  BY <1>1, <1>2 DEF Unstacked, Unstacks
<1>5. /\ DOMAIN g = {"state", "func", "param", "connect_param", "sock", "ready", "stack",
                     "parent", "children", "result", "wtoken", "timeout", "timed_out", "op"}
      /\ DOMAIN h = DOMAIN g /\ h.state = g.state /\ h.param = g.param /\ h.result = g.result
      /\ h.sock = g.sock
  BY <1>2, <1>3 DEF Fiber
<1>6. DOMAIN u = DOMAIN g /\ u.state = g.state /\ u.param = g.param /\ u.result = g.result
      /\ u.sock = g.sock /\ (g.state = "Stacked" => u.op = g.op)
  BY <1>4, <1>5
<1>7. Left(f, g)
  BY <1>1, UnstackedLeft
<1>8. f.state = u.state /\ f.param = u.param /\ f.op = u.op
  BY <1>5, <1>6
<1>9. /\ f = [u EXCEPT !.sock = "Empty", !.result = "none"] => f.result = "none" /\ f.sock = "Empty"
      /\ f = [u EXCEPT !.result = "none"] => f.result = "none" /\ f.sock = u.sock
  BY <1>5, <1>6
<1> QED BY <1>1, <1>6, <1>7, <1>8, <1>9

LEMMA StepsOutSound ==
  ASSUME Careful, TypeOK, WakeInv, EntryInv,
         ClosedChild \/ ClosedOrphan \/ ChunkToParent \/ ChunkToMain \/ Waits
  PROVE  EntryInv'
<1> USE DEF pollerVars, timerVars, sockVars, slotVars, outVars, mainVars
<1>0. PICK p : p = cur
  OBVIOUS
<1>1. /\ at = "stepped_out" /\ Inside
      /\ UNCHANGED <<timer_refs, fiber_refs, smth, timedout, nfibers, tomain_fibers>>
  BY DEF ClosedChild, ClosedOrphan, ChunkToParent, ChunkToMain, Waits, Inside
<1>2. /\ p \in Slots /\ fibers[p] \in Fiber /\ Me = fibers[p] /\ SlotOK(p) /\ RecordOK(Me)
      /\ InUse(p) /\ CanEnter(Me) /\ ~Scheduled(p) /\ Me.parent = None
      /\ (Me.state # "Closed" => Me.func) /\ (Me.state = "Closed" => Me.wtoken = None)
      /\ (timer_refs[p] > 0 => loop = "timedout")
  <2>1. /\ p \in Slots /\ fibers[p] \in Fiber /\ Me = fibers[p] /\ SlotOK(p)
        /\ InUse(p) /\ CanEnter(Me) /\ ~Scheduled(p)
    BY <1>0, <1>1, EnteredSlot
  <2>2. Joins \cap Usage = {} /\ LookupOK(p)
    BY <2>1 DEF Careful, Joins, WakeInv
  <2> QED BY <1>0, <1>1, <2>1, <2>2 DEF SlotOK, EntryInv, InsideOK, LookupOK
<1>3. ListsOK /\ LoopOK
  BY DEF EntryInv
<1>4. PICK u : u = Unstacked(p)
  OBVIOUS
<1>5. CASE ClosedOrphan
  <2>1. PICK f : f = [u EXCEPT !.sock = "Empty", !.result = "none"]
    OBVIOUS
  <2>2. /\ Update(p, f) /\ Goto(loop) /\ edge' = edge \ {p} /\ toexec' = toexec
        /\ free_fibers' = Append(free_fibers, p) /\ Me.state = "Closed"
    BY <1>0, <1>2, <1>4, <1>5, <2>1 DEF ClosedOrphan, SocketDropped, Live
  <2>3. /\ Left(f, Me) /\ f.state = "Closed" /\ f.result = "none" /\ f.sock = "Empty"
    BY <1>2, <1>4, <2>1, <2>2, UnstackedFields
  <2> HIDE DEF pollerVars, timerVars, sockVars, slotVars, outVars, mainVars
  <2>4. BackInLoop(p, f)
    BY <1>0, <1>1, <2>2 DEF BackInLoop
  <2>5. FreeListOK' /\ \A q \in Slots : q # p /\ InUse(q) => InUse(q)'
    BY <1>1, <1>2, <1>3, <2>2, GivesBack DEF ListsOK
  <2>6. Unique(toexec)' /\ \A q \in Slots : Scheduled(q)' => Scheduled(q)
    BY <1>3, <2>2 DEF ListsOK, Unique, Scheduled
  <2>7. RecordOK(f) /\ f.wtoken = None
    BY <1>2, <2>2, <2>3 DEF RecordOK, Left
  <2> QED BY <1>2, <2>3, <2>4, <2>5, <2>6, <2>7, LeavesSound
<1>6. CASE Waits
  <2>1. /\ Update(p, u) /\ Goto(loop) /\ edge' = edge /\ toexec' = toexec
        /\ free_fibers' = free_fibers /\ Me.state # "Closed" /\ Me.result = "none"
    BY <1>0, <1>2, <1>4, <1>6 DEF Waits, Live, HasResult
  <2>2. /\ Left(u, Me) /\ u.state = Me.state /\ u.result = Me.result /\ u.sock = Me.sock
        /\ u.param = Me.param /\ (Me.state = "Stacked" => u.op = Me.op)
    BY <1>2, <1>4, UnstackedFields
  <2>3. u.op = Me.op
    <3>1. CASE Me.state = "Stacked"
      BY <2>2, <3>1
    <3>2. CASE Me.state # "Stacked"
      <4>1. Me.state = "Unstacked"
        BY <1>2, <2>1, <3>2 DEF Fiber, States
      <4> QED BY <1>2, <2>2, <4>1 DEF RecordOK, Left
    <3> QED BY <3>1, <3>2
  <2> HIDE DEF pollerVars, timerVars, sockVars, slotVars, outVars, mainVars
  <2>4. BackInLoop(p, u)
    BY <1>0, <1>1, <1>2, <2>1, <2>2 DEF BackInLoop, SlotOK, Left
  <2>5. FreeListOK' /\ \A q \in Slots : InUse(q) => InUse(q)'
    BY <1>1, <1>3, <2>1 DEF ListsOK, FreeListOK, Unique, InUse
  <2>6. Unique(toexec)' /\ \A q \in Slots : Scheduled(q)' => Scheduled(q)
    BY <1>3, <2>1 DEF ListsOK, Unique, Scheduled
  <2>7. RecordOK(u) /\ CanEnter(u)
    BY <1>2, <2>2, <2>3 DEF RecordOK, Left, CanEnter
  <2> QED BY <1>2, <2>1, <2>2, <2>4, <2>5, <2>6, <2>7, LeavesSound
<1>7. CASE ChunkToMain
  <2>1. PICK f : f = [u EXCEPT !.result = "none"]
    OBVIOUS
  <2>2. /\ Update(p, f) /\ Goto(loop) /\ edge' = edge /\ push_toexec(p)
        /\ free_fibers' = free_fibers /\ Me.state # "Closed" /\ Me.result # "none"
    BY <1>0, <1>2, <1>4, <1>7, <2>1 DEF ChunkToMain, Live, HasResult
  <2>3. Me.op = "resp_chunk" /\ Me.state = "Stacked" /\ "resp_chunk" \in Usage /\ Me.wtoken = None
    BY <1>2, <2>2 DEF SlotOK, Leaving, RecordOK
  <2>4. loop = "toexec" /\ timer_refs[p] = 0
    BY <1>1, <1>2, <1>3, <2>3 DEF LoopOK, Careful, TypeOK
  <2> HIDE DEF pollerVars, timerVars, sockVars, slotVars, outVars, mainVars
  <2>5. /\ Left(f, Me) /\ f.state = Me.state /\ f.result = "none" /\ f.sock = Me.sock
        /\ f.op = Me.op
    <3>1. p \in Slots /\ Me = fibers[p]
      BY <1>2
    <3>2. /\ Left(f, fibers[p]) /\ f.state = fibers[p].state
          /\ fibers[p].state = "Stacked" => f.op = fibers[p].op
          /\ f = [u EXCEPT !.result = "none"] => f.result = "none" /\ f.sock = fibers[p].sock
      BY <1>4, <2>1, <3>1, UnstackedFields
    <3> QED BY <2>1, <2>3, <3>1, <3>2
  <2>6. BackInLoop(p, f)
    BY <1>0, <1>1, <1>2, <2>2, <2>5 DEF BackInLoop, SlotOK, Left
  <2>7. FreeListOK' /\ \A q \in Slots : InUse(q) => InUse(q)'
    BY <1>1, <1>3, <2>2 DEF ListsOK, FreeListOK, Unique, InUse
  <2>8. Unique(toexec)' /\ \A q \in Slots : q # p /\ Scheduled(q)' => Scheduled(q)
    BY <1>2, <1>3, <2>2, PushesOne DEF ListsOK
  <2>9. RecordOK(f) /\ CanEnter(f) /\ f.wtoken = None
    BY <1>2, <2>3, <2>5 DEF RecordOK, Left, CanEnter
  <2> QED BY <1>2, <2>4, <2>5, <2>6, <2>7, <2>8, <2>9, LeavesSound
<1> QED BY <1>2, <1>5, <1>6, <1>7 DEF ClosedChild, ChunkToParent

-----------------------------------------------------------------------------
(* run().                                                                  *)

\* A step of a loop of run() about p, which becomes f and may be stepped into.
LoopStep(p, f) ==
    /\ at \in {"toexec", "timedout"} /\ Update(p, f)
    /\ UNCHANGED <<loop, smth, timer_refs, fiber_refs, tomain_fibers, free_fibers, nfibers>>
    /\ UNCHANGED <<at, cur>> \/ (at' = "step_into" /\ cur' = p)
    /\ edge' \subseteq edge
    /\ p \in edge' => f.sock # "Empty" /\ f.ready # "none"

LEMMA LoopSound ==
  ASSUME TypeOK, EntryInv, NEW p \in Slots, NEW f, LoopStep(p, f), InUse(p), Unique(toexec)',
         ~Scheduled(p)', \A q \in Slots : Scheduled(q)' => Scheduled(q),
         RecordOK(f), CanEnter(f), f.func => f.result = "none",
         timer_refs[p] > 0 => f.sock = "Empty" /\ at = "timedout",
         at' = "step_into" /\ f.op = "start" => f.wtoken = None,
         "time" \notin Usage => timedout' = <<>> /\ at # "timedout"
  PROVE  EntryInv'
<1>1. /\ SlotOK(p) /\ loop = at /\ loop' = loop /\ (at' = at \/ (at' = "step_into" /\ cur' = p))
      /\ FreeListOK /\ tomain_fibers = <<>>
  BY DEF EntryInv, LoopOK, LoopStep, ListsOK
<1>2. fibers'[p] = f /\ \A q \in Slots : q # p => fibers'[q] = fibers[q]
  BY DEF LoopStep, Update, TypeOK
<1>3. \A q \in Slots : (q # p => ~Entered(q)') /\ ~Leaving(q) /\ (InUse(q) => InUse(q)')
  BY DEF Entered, Leaving, LoopStep, InUse
<1>4. \A q \in Slots : q # p => Untouched(q)
  BY <1>2, <1>3 DEF LoopStep, Untouched
<1>5. (Late' => Late) /\ at' # "events"
  BY <1>1 DEF Late, Inside, LoopStep
<1>6. Phase
  BY <1>5 DEF Phase
<1>7. SlotOK(p)'
  BY <1>1, <1>2, <1>3 DEF SlotOK, LoopStep
<1>8. ListsOK'
  BY <1>1 DEF ListsOK, FreeListOK, Unique, LoopStep
<1>9. LoopOK'
  BY <1>1 DEF LoopOK, Inside, LoopStep
<1>10. InsideOK'
  BY <1>1, <1>2 DEF InsideOK, Inside, LoopStep, Me
<1>11. at' # "panic"
  BY <1>1 DEF LoopStep
<1> QED BY <1>4, <1>6, <1>7, <1>8, <1>9, <1>10, <1>11, OneSlotSound

\* The fiber at the head of the queue.
LEMMA PoppedSlot ==
  ASSUME TypeOK, WakeInv, EntryInv, NEW p \in Slots, Pops(p)
  PROVE  /\ SlotOK(p) /\ LookupOK(p) /\ InUse(p) /\ CanEnter(fibers[p]) /\ RecordOK(fibers[p])
         /\ fibers[p] \in Fiber /\ timer_refs[p] = 0 /\ at = "toexec"
         /\ (fibers[p].func => fibers[p].result = "none")
         /\ (fibers[p].wtoken # None => fibers[p].op # "start" \/ fibers[p].connect_param)
         /\ Unique(toexec)' /\ ~Scheduled(p)' /\ \A q \in Slots : Scheduled(q)' => Scheduled(q)
<1>1. SlotOK(p) /\ LookupOK(p) /\ fibers[p] \in Fiber /\ at = "toexec"
  BY DEF EntryInv, WakeInv, TypeOK, Pops
<1>2. Unique(toexec)' /\ Scheduled(p) /\ ~Scheduled(p)' /\ \A q \in Slots : Scheduled(q)' => Scheduled(q)
  BY PopsOne DEF EntryInv, ListsOK
<1>3. InUse(p) /\ CanEnter(fibers[p]) /\ QueuedOK(p) /\ RecordOK(fibers[p]) /\ ~Leaving(p)
  BY <1>1, <1>2 DEF SlotOK, Leads, Leaving
<1> QED BY <1>1, <1>2, <1>3 DEF SlotOK, QueuedOK

\* The fiber whose timer fired and that still waits on a timer.
LEMMA ExpiredSlot ==
  ASSUME TypeOK, WakeInv, EntryInv, NEW p \in Slots, Expires(p), fibers[p].wtoken # None,
         UNCHANGED toexec
  PROVE  /\ SlotOK(p) /\ LookupOK(p) /\ InUse(p) /\ CanEnter(fibers[p]) /\ RecordOK(fibers[p])
         /\ fibers[p] \in Fiber /\ at = "timedout" /\ "time" \in Usage
         /\ (fibers[p].func => fibers[p].result = "none")
         /\ Unique(toexec)' /\ ~Scheduled(p)' /\ \A q \in Slots : Scheduled(q)' => Scheduled(q)
<1>1. SlotOK(p) /\ LookupOK(p) /\ fibers[p] \in Fiber /\ at = "timedout" /\ "time" \in Usage
  BY DEF EntryInv, WakeInv, TypeOK, Expires, LoopOK
<1>2. InUse(p) /\ CanEnter(fibers[p]) /\ RecordOK(fibers[p]) /\ ~Leaving(p)
  BY <1>1 DEF SlotOK, Leads, Leaving
<1>3. ~Scheduled(p)
  BY <1>1 DEF SlotOK, QueuedOK, Late, Unprompted
<1>4. Unique(toexec)' /\ \A q \in Slots : Scheduled(q)' <=> Scheduled(q)
  BY DEF EntryInv, ListsOK, Unique, Scheduled
<1> QED BY <1>1, <1>2, <1>3, <1>4 DEF SlotOK

LEMMA ExecutesSound ==
  ASSUME Careful, TypeOK, WakeInv, EntryInv, NEW p \in Slots,
         Execute(p) \/ NoAddress(p) \/ Connects(p) \/ ConnectFails(p)
  PROVE  EntryInv'
<1> USE DEF pollerVars, timerVars, sockVars, slotVars, outVars, mainVars, runnerVars, control
<1>1. /\ Pops(p) /\ timedout' = timedout
      /\ UNCHANGED <<loop, smth, timer_refs, fiber_refs, tomain_fibers, free_fibers, nfibers>>
  BY DEF Execute, NoAddress, Connects, ConnectFails, EnterFiber
<1>2. PICK g : g = fibers[p]
  OBVIOUS
<1>3. /\ SlotOK(p) /\ LookupOK(p) /\ InUse(p) /\ CanEnter(g) /\ RecordOK(g)
      /\ g \in Fiber /\ timer_refs[p] = 0 /\ at = "toexec"
      /\ (g.func => g.result = "none")
      /\ (g.wtoken # None => g.op # "start" \/ g.connect_param)
      /\ Unique(toexec)' /\ ~Scheduled(p)' /\ \A q \in Slots : Scheduled(q)' => Scheduled(q)
  BY <1>1, <1>2, PoppedSlot
<1>4. "time" \notin Usage => timedout' = <<>> /\ at # "timedout"
  BY <1>1, <1>3 DEF EntryInv, LoopOK
<1>5. CASE Execute(p)
  <2>1. /\ ~g.connect_param /\ at' = "step_into" /\ cur' = p /\ edge' = edge /\ UNCHANGED fibers
    BY <1>2, <1>5 DEF Execute, EnterFiber
  <2>2. Update(p, g)
    BY <1>2, <2>1 DEF Update, TypeOK
  <2> HIDE DEF pollerVars, timerVars, sockVars, slotVars, outVars, mainVars, runnerVars, control
  <2>3. LoopStep(p, g)
    BY <1>1, <1>2, <1>3, <2>1, <2>2 DEF LoopStep, SlotOK
  <2> QED BY <1>3, <1>4, <2>1, <2>3, LoopSound
<1>6. CASE NoAddress(p)
  <2>1. UNCHANGED <<at, cur, edge, fibers>>
    BY <1>6 DEF NoAddress
  <2>2. Update(p, g)
    BY <1>2, <2>1 DEF Update, TypeOK
  <2> HIDE DEF pollerVars, timerVars, sockVars, slotVars, outVars, mainVars, runnerVars, control
  <2>3. LoopStep(p, g)
    BY <1>1, <1>2, <1>3, <2>1, <2>2 DEF LoopStep, SlotOK
  <2> QED BY <1>3, <1>4, <2>1, <2>3, LoopSound
<1>7. ASSUME HasAnswer(p), g.connect_param PROVE g.op = "start"
  BY <1>2, <1>3, <1>7 DEF HasAnswer, LookupOK
<1>8. CASE Connects(p)
  <2>1. PICK sock \in {"Tcp", "Udp"} :
          Update(p, [g EXCEPT !.wtoken = None, !.timed_out = 0,
                        !.connect_param = FALSE, !.sock = sock, !.ready = "writable"])
    BY <1>2, <1>8 DEF Connects
  <2>2. PICK f : f = [g EXCEPT !.wtoken = None, !.timed_out = 0,
                         !.connect_param = FALSE, !.sock = sock, !.ready = "writable"]
    OBVIOUS
  <2>3. /\ f.wtoken = None /\ f.op = g.op /\ f.param = g.param /\ f.func = g.func
        /\ f.result = g.result /\ f.state = g.state
    BY <1>3, <2>2 DEF Fiber
  <2>4. /\ UNCHANGED <<at, cur>> /\ edge' = edge \ {p} /\ Update(p, f) /\ g.op = "start"
    BY <1>2, <1>7, <1>8, <2>1, <2>2 DEF Connects, SocketDropped
  <2> HIDE DEF pollerVars, timerVars, sockVars, slotVars, outVars, mainVars, runnerVars, control
  <2>5. LoopStep(p, f)
    BY <1>1, <1>3, <2>4 DEF LoopStep
  <2>6. RecordOK(f) /\ CanEnter(f)
    BY <1>3, <2>3, <2>4 DEF RecordOK, CanEnter
  <2> QED BY <1>3, <1>4, <2>3, <2>5, <2>6, LoopSound
<1>9. CASE ConnectFails(p)
  <2>0. PICK sock, ready :
          Update(p, [fibers[p] EXCEPT !.wtoken = None, !.timed_out = 0,
                        !.connect_param = FALSE, !.sock = sock, !.ready = ready])
    BY <1>9 DEF ConnectFails
  <2>1. PICK f : f = [g EXCEPT !.wtoken = None, !.timed_out = 0,
                         !.connect_param = FALSE, !.sock = sock, !.ready = ready]
    OBVIOUS
  <2>2. /\ f.wtoken = None /\ f.op = g.op /\ f.param = g.param /\ f.func = g.func
        /\ f.result = g.result /\ f.state = g.state
    BY <1>3, <2>1 DEF Fiber
  <2>3. /\ at' = "step_into" /\ cur' = p /\ edge' = edge \ {p} /\ Update(p, f) /\ g.op = "start"
    BY <1>2, <1>7, <1>9, <2>0, <2>1 DEF ConnectFails, SocketDropped, EnterFiber
  <2> HIDE DEF pollerVars, timerVars, sockVars, slotVars, outVars, mainVars, runnerVars, control
  <2>4. LoopStep(p, f)
    BY <1>1, <1>3, <2>3 DEF LoopStep
  <2>5. RecordOK(f) /\ CanEnter(f)
    BY <1>3, <2>2, <2>3 DEF RecordOK, CanEnter
  <2> QED BY <1>3, <1>4, <2>2, <2>4, <2>5, LoopSound
<1> QED BY <1>5, <1>6, <1>8, <1>9

LEMMA ExpiresSound ==
  ASSUME Careful, TypeOK, WakeInv, EntryInv, NEW p \in Slots,
         LookupTick(p) \/ LookupExpires(p) \/ LookupUnderflow(p) \/ TimerWakes(p)
  PROVE  EntryInv'
<1> USE DEF pollerVars, timerVars, sockVars, slotVars, outVars, mainVars, runnerVars, control
<1>1. /\ Expires(p) /\ fibers[p].wtoken # None /\ UNCHANGED toexec
      /\ UNCHANGED <<loop, smth, timer_refs, fiber_refs, tomain_fibers, free_fibers, nfibers>>
  BY DEF LookupTick, LookupExpires, LookupUnderflow, TimerWakes, EnterFiber, Goto
<1>2. PICK g : g = fibers[p]
  OBVIOUS
<1>3. /\ SlotOK(p) /\ LookupOK(p) /\ InUse(p) /\ CanEnter(g) /\ RecordOK(g)
      /\ g \in Fiber /\ at = "timedout" /\ "time" \in Usage
      /\ (g.func => g.result = "none")
      /\ Unique(toexec)' /\ ~Scheduled(p)' /\ \A q \in Slots : Scheduled(q)' => Scheduled(q)
  BY <1>1, <1>2, ExpiredSlot
<1>4. timer_refs[p] > 0 => g.sock = "Empty"
  BY <1>2, <1>3 DEF SlotOK
<1>5. CASE LookupTick(p)
  <2>1. PICK tk : tk = NextToken
    OBVIOUS
  <2>2. PICK f : f = [g EXCEPT !.timed_out = @ - 1, !.wtoken = tk]
    OBVIOUS
  <2>3. /\ f.wtoken = tk /\ f.op = g.op /\ f.param = g.param /\ f.func = g.func
        /\ f.result = g.result /\ f.state = g.state /\ f.sock = g.sock /\ f.ready = g.ready
        /\ f.connect_param = g.connect_param
    BY <1>3, <2>2 DEF Fiber
  <2>4. /\ UNCHANGED <<at, cur>> /\ edge' = edge /\ Update(p, f) /\ g.connect_param
    BY <1>2, <1>5, <2>1, <2>2 DEF LookupTick
  <2> HIDE DEF pollerVars, timerVars, sockVars, slotVars, outVars, mainVars, runnerVars, control
  <2>5. LoopStep(p, f)
    BY <1>1, <1>2, <1>3, <2>3, <2>4 DEF LoopStep, SlotOK
  <2>6. RecordOK(f) /\ CanEnter(f)
    BY <1>1, <1>2, <1>3, <2>3, <2>4 DEF RecordOK, CanEnter
  <2> QED BY <1>3, <1>4, <2>3, <2>4, <2>5, <2>6, LoopSound
<1>6. CASE LookupExpires(p)
  <2>1. PICK f : f = [g EXCEPT !.timed_out = 0, !.wtoken = None, !.sock = "Empty"]
    OBVIOUS
  <2>2. /\ f.wtoken = None /\ f.op = g.op /\ f.param = g.param /\ f.func = g.func
        /\ f.result = g.result /\ f.state = g.state /\ f.sock = "Empty"
    BY <1>3, <2>1 DEF Fiber
  <2>3. /\ at' = "step_into" /\ cur' = p /\ edge' = edge \ {p} /\ Update(p, f)
    BY <1>2, <1>6, <2>1 DEF LookupExpires, SocketDropped, EnterFiber
  <2> HIDE DEF pollerVars, timerVars, sockVars, slotVars, outVars, mainVars, runnerVars, control
  <2>4. LoopStep(p, f)
    BY <1>1, <1>3, <2>3 DEF LoopStep
  <2>5. RecordOK(f) /\ CanEnter(f)
    BY <1>3, <2>2 DEF RecordOK, CanEnter
  <2> QED BY <1>3, <2>2, <2>4, <2>5, LoopSound
<1>7. CASE TimerWakes(p)
  <2>1. PICK f : f = [g EXCEPT !.wtoken = None, !.timed_out = 1]
    OBVIOUS
  <2>2. /\ f.wtoken = None /\ f.op = g.op /\ f.param = g.param /\ f.func = g.func
        /\ f.result = g.result /\ f.state = g.state /\ f.sock = g.sock /\ f.ready = g.ready
    BY <1>3, <2>1 DEF Fiber
  <2>3. /\ at' = "step_into" /\ cur' = p /\ edge' = edge /\ Update(p, f)
    BY <1>2, <1>7, <2>1 DEF TimerWakes, EnterFiber
  <2> HIDE DEF pollerVars, timerVars, sockVars, slotVars, outVars, mainVars, runnerVars, control
  <2>4. LoopStep(p, f)
    BY <1>1, <1>2, <1>3, <2>2, <2>3 DEF LoopStep, SlotOK
  <2>5. RecordOK(f) /\ CanEnter(f)
    BY <1>3, <2>2 DEF RecordOK, CanEnter
  <2> QED BY <1>3, <1>4, <2>2, <2>4, <2>5, LoopSound
<1>8. ~LookupUnderflow(p)
  BY <1>2, <1>3 DEF LookupUnderflow, LookupOK
<1> QED BY <1>5, <1>6, <1>7, <1>8

\* Control stays on the main stack, and no fiber is touched.
LEMMA IdleSound ==
  ASSUME EntryInv, at \in OnStack, at' \in OnStack, Phase, LoopOK',
         UNCHANGED <<fibers, toexec, free_fibers, nfibers, tomain_fibers, fiber_refs, timer_refs,
                     edge>>
  PROVE  EntryInv'
<1>1. \A q \in Slots : Untouched(q)
  BY DEF Untouched, Scheduled, Entered, Leaving, InUse, OnStack
<1>2. ListsOK' /\ InsideOK' /\ at' # "panic"
  BY DEF EntryInv, ListsOK, FreeListOK, Unique, InsideOK, Inside, OnStack
<1> QED BY <1>1, <1>2, NoSlotSound

LEMMA RunSound ==
  ASSUME Careful, TypeOK, WakeInv, EntryInv, Run
  PROVE  EntryInv'
<1> USE DEF pollerVars, timerVars, sockVars, slotVars, outVars, mainVars, runnerVars, control
<1>1. ASSUME NEW p \in Slots, Execute(p) \/ NoAddress(p) \/ Connects(p) \/ ConnectFails(p)
      PROVE  EntryInv'
  BY <1>1, ExecutesSound
<1>2. ASSUME NEW p \in Slots,
             LookupTick(p) \/ LookupExpires(p) \/ LookupUnderflow(p) \/ TimerWakes(p)
      PROVE  EntryInv'
  BY <1>2, ExpiresSound
<1>3. \A p : ~MalformedAnswer(p)
  BY DEF MalformedAnswer, Careful
<1>4. ASSUME BeginRun \/ ToexecDone \/ TimedoutDone \/ \E p \in Slots : StaleTimer(p)
      PROVE  EntryInv'
  <2>1. /\ at \in OnStack /\ at' \in OnStack
        /\ UNCHANGED <<fibers, toexec, free_fibers, nfibers, tomain_fibers, fiber_refs, timer_refs,
                       edge>>
    BY <1>4 DEF BeginRun, ToexecDone, TimedoutDone, StaleTimer, Expires, Goto, OnStack
  <2>2. LoopOK
    BY DEF EntryInv
  <2>3. Phase /\ LoopOK'
    <3>1. CASE BeginRun
      BY <2>2, <3>1 DEF BeginRun, Phase, Late, LoopOK, Inside
    <3>2. CASE ToexecDone
      <4>1. \A q \in Slots : ~Scheduled(q)'
        BY <3>2 DEF ToexecDone, Scheduled, Range
      <4> QED BY <2>2, <3>2, <4>1 DEF ToexecDone, Phase, Late, LoopOK, Inside
    <3>3. CASE TimedoutDone
      BY <2>2, <3>3 DEF TimedoutDone, Phase, Late, LoopOK, Inside, Goto
    <3>4. CASE \E p \in Slots : StaleTimer(p)
      BY <2>2, <3>4 DEF StaleTimer, Expires, Phase, Late, LoopOK, Inside
    <3> QED BY <1>4, <3>1, <3>2, <3>3, <3>4
  <2> HIDE DEF pollerVars, timerVars, sockVars, slotVars, outVars, mainVars, runnerVars, control
  <2> QED BY <2>1, <2>3, IdleSound
<1> QED BY <1>1, <1>2, <1>3, <1>4 DEF Run

-----------------------------------------------------------------------------
(* poll(), the main stack and the environment.                             *)

LEMMA PollSound ==
  ASSUME Careful, TypeOK, EntryInv, Poll
  PROVE  EntryInv'
<1> USE DEF pollerVars, timerVars, sockVars, slotVars, outVars, mainVars, runnerVars, control
<1>1. ASSUME BeginPoll \/ EventsDone \/ PollReturns \/ \E tk \in Tokens : PollTimer(tk)
      PROVE  EntryInv'
  <2>1. /\ at \in OnStack /\ at' \in OnStack
        /\ UNCHANGED <<fibers, toexec, free_fibers, nfibers, tomain_fibers, fiber_refs, timer_refs,
                       edge>>
    BY <1>1 DEF BeginPoll, EventsDone, PollReturns, PollTimer, Goto, OnStack
  <2>2. LoopOK
    BY DEF EntryInv
  <2>3. Phase /\ LoopOK'
    <3>1. CASE BeginPoll
      <4>1. ~smth
        BY <3>1 DEF BeginPoll, Careful
      <4> QED BY <2>2, <3>1, <4>1 DEF BeginPoll, Phase, Late, LoopOK, Inside, Goto
    <3>2. CASE EventsDone
      BY <2>2, <3>2 DEF EventsDone, Phase, Late, LoopOK, Inside, Goto
    <3>3. CASE PollReturns
      BY <2>2, <3>3 DEF PollReturns, Phase, Late, LoopOK, Inside, Goto
    <3>4. CASE \E tk \in Tokens : PollTimer(tk)
      BY <2>2, <3>4 DEF PollTimer, Phase, Late, LoopOK, Inside
    <3> QED BY <1>1, <3>1, <3>2, <3>3, <3>4
  <2> HIDE DEF pollerVars, timerVars, sockVars, slotVars, outVars, mainVars, runnerVars, control
  <2> QED BY <2>1, <2>3, IdleSound
<1>2. ASSUME NEW p \in Slots, PollEvent(p) PROVE EntryInv'
  <2>1. /\ at = "events" /\ p \in edge /\ edge' = edge \ {p}
        /\ UNCHANGED <<fibers, free_fibers, nfibers, tomain_fibers, fiber_refs, timer_refs, timedout,
                       at, cur, loop>>
        /\ (push_toexec(p) /\ smth' = TRUE) \/ UNCHANGED <<toexec, smth>>
    BY <1>2 DEF PollEvent
  <2> HIDE DEF pollerVars, timerVars, sockVars, slotVars, outVars, mainVars, runnerVars, control
  <2>2. /\ SlotOK(p) /\ RecordOK(fibers[p]) /\ ~Scheduled(p) /\ InUse(p) /\ CanEnter(fibers[p])
        /\ fibers[p].sock # "Empty" /\ timer_refs[p] = 0 /\ ListsOK /\ LoopOK
    <3>1. SlotOK(p) /\ timer_refs[p] \in Nat
      BY DEF EntryInv, TypeOK
    <3>2. fibers[p].sock # "Empty"
      BY <2>1, <3>1 DEF SlotOK
    <3> QED BY <2>1, <3>1, <3>2 DEF SlotOK, QueuedOK, Leads, EntryInv
  <2>3. /\ Unique(toexec)' /\ \A q \in Slots : q # p /\ Scheduled(q)' => Scheduled(q)
        /\ Scheduled(p)' => smth' = TRUE
    <3>1. CASE push_toexec(p) /\ smth' = TRUE
      BY <2>2, <3>1, PushesOne DEF ListsOK
    <3>2. CASE UNCHANGED <<toexec, smth>>
      BY <2>2, <3>2 DEF ListsOK, Unique, Scheduled
    <3> QED BY <2>1, <3>1, <3>2
  <2>4. \A q \in Slots : ~Entered(q)' /\ ~Leaving(q) /\ (InUse(q) => InUse(q)')
    BY <2>1 DEF Entered, Leaving, InUse
  <2>5. \A q \in Slots : q # p => Untouched(q)
    BY <2>1, <2>3, <2>4 DEF Untouched
  <2>6. Late' => Late /\ smth' = FALSE
    BY <2>1 DEF Late, Inside, TypeOK
  <2>7. Phase
    BY <2>1, <2>6 DEF Phase
  <2>8. SlotOK(p)'
    <3>1. Scheduled(p)' => QueuedOK(p)'
      BY <2>1, <2>2, <2>3, <2>4, <2>6 DEF QueuedOK, RecordOK
    <3> QED BY <2>1, <2>2, <2>4, <3>1 DEF SlotOK
  <2>9. ListsOK' /\ LoopOK' /\ InsideOK' /\ at' # "panic"
    BY <2>1, <2>2, <2>3 DEF ListsOK, FreeListOK, Unique, LoopOK, InsideOK, Inside
  <2> QED BY <2>5, <2>7, <2>8, <2>9, OneSlotSound
<1> QED BY <1>1, <1>2 DEF Poll

LEMMA MainSound ==
  ASSUME Careful, TypeOK, EntryInv, Main
  PROVE  EntryInv'
<1> USE DEF pollerVars, timerVars, sockVars, slotVars, outVars, mainVars, runnerVars, control
<1>1. CASE GetResponse
  <2>1. /\ at = "main" /\ at' = "main" /\ UNCHANGED <<loop, timedout, smth>>
        /\ UNCHANGED <<fibers, toexec, free_fibers, nfibers, tomain_fibers, fiber_refs, timer_refs,
                       edge>>
    BY <1>1 DEF GetResponse
  <2> HIDE DEF pollerVars, timerVars, sockVars, slotVars, outVars, mainVars, runnerVars, control
  <2>2. Phase /\ LoopOK' /\ at \in OnStack /\ at' \in OnStack
    BY <2>1 DEF EntryInv, Phase, Late, Inside, LoopOK, OnStack
  <2> QED BY <2>1, <2>2, IdleSound
<1>2. ~GetFiber
  BY DEF GetFiber, EntryInv, ListsOK
<1>3. \A p \in Slots : ~ResumeFiber(p)
  BY DEF ResumeFiber, EntryInv, SlotOK
<1>4. ASSUME NEW p \in Slots, DropTimerRef(p) PROVE EntryInv'
  <2>1. /\ at = "main" /\ timer_refs[p] > 0 /\ timer_refs' = [timer_refs EXCEPT ![p] = @ - 1]
        /\ UNCHANGED <<toexec, timedout, edge, nfibers, tomain_fibers, fiber_refs, smth,
                       at, cur, loop>>
    BY <1>4 DEF DropTimerRef, OnMain
  <2>2. /\ SlotOK(p) /\ fibers[p] \in Fiber /\ fibers[p].sock = "Empty" /\ ~Scheduled(p)
        /\ p \notin edge /\ ListsOK /\ LoopOK
    <3>1. SlotOK(p) /\ fibers[p] \in Fiber
      BY DEF EntryInv, TypeOK
    <3> QED BY <2>1, <3>1 DEF SlotOK, QueuedOK, EntryInv
  <2>3. \A q \in Slots : q # p => timer_refs'[q] = timer_refs[q]
    BY <2>1 DEF TypeOK
  <2>4. \A q \in Slots : ~Entered(q)' /\ ~Leaving(q) /\ (Scheduled(q)' <=> Scheduled(q))
    BY <2>1 DEF Entered, Leaving, Scheduled
  <2>5. Phase /\ LoopOK' /\ InsideOK' /\ at' # "panic" /\ Unique(toexec)' /\ tomain_fibers' = <<>>
    BY <2>1, <2>2 DEF Phase, Late, Inside, LoopOK, InsideOK, ListsOK, Unique
  <2>6. CASE fibers[p].wtoken = None
    <3>1. UNCHANGED <<fibers, free_fibers>>
      BY <1>4, <2>6 DEF DropTimerRef
    <3> HIDE DEF pollerVars, timerVars, sockVars, slotVars, outVars, mainVars, runnerVars, control
    <3>2. \A q \in Slots : InUse(q) => InUse(q)'
      BY <2>1, <3>1 DEF InUse
    <3>3. \A q \in Slots : q # p => Untouched(q)
      BY <2>1, <2>3, <2>4, <3>1, <3>2 DEF Untouched
    <3>4. SlotOK(p)'
      <4>1. ~Leads(p)'
        BY <2>2, <2>4, <2>6, <3>1 DEF Leads
      <4> QED BY <2>1, <2>2, <2>4, <3>1, <4>1 DEF SlotOK
    <3>5. ListsOK'
      BY <2>1, <2>2, <2>5, <3>1 DEF ListsOK, FreeListOK, Unique
    <3> QED BY <2>5, <3>3, <3>4, <3>5, OneSlotSound
  <2>7. CASE fibers[p].wtoken # None
    <3>1. PICK f : f = [fibers[p] EXCEPT !.wtoken = None, !.result = "none", !.param = FALSE]
      OBVIOUS
    <3>2. Update(p, f) /\ free_fibers' = Append(free_fibers, p)
      BY <1>4, <2>7, <3>1 DEF DropTimerRef
    <3> HIDE DEF pollerVars, timerVars, sockVars, slotVars, outVars, mainVars, runnerVars, control
    <3>3. /\ f.wtoken = None /\ f.result = "none" /\ f.sock = "Empty" /\ f.op = fibers[p].op
          /\ f.state = fibers[p].state
      BY <2>2, <3>1 DEF Fiber
    <3>4. fibers'[p] = f /\ \A q \in Slots : q # p => fibers'[q] = fibers[q]
      BY <3>2 DEF Update, TypeOK
    <3>5. InUse(p)
      BY <2>2, <2>7 DEF SlotOK, Leads
    <3>6. FreeListOK' /\ \A q \in Slots : q # p /\ InUse(q) => InUse(q)'
      BY <2>1, <2>2, <3>2, <3>5, GivesBack DEF ListsOK
    <3>7. \A q \in Slots : q # p => Untouched(q)
      BY <2>1, <2>3, <2>4, <3>4, <3>6 DEF Untouched
    <3>8. SlotOK(p)'
      <4>1. ~Leads(p)'
        BY <2>2, <2>4, <3>3, <3>4 DEF Leads
      <4>2. RecordOK(f)
        BY <2>2, <3>3 DEF SlotOK, RecordOK
      <4> QED BY <2>1, <2>2, <2>4, <3>3, <3>4, <4>1, <4>2 DEF SlotOK
    <3>9. ListsOK'
      BY <2>5, <3>6 DEF ListsOK, Unique
    <3> QED BY <2>5, <3>7, <3>8, <3>9, OneSlotSound
  <2> QED BY <2>6, <2>7
<1> QED BY <1>1, <1>2, <1>3, <1>4 DEF Main

LEMMA EnvironmentSound ==
  ASSUME EntryInv, Environment
  PROVE  EntryInv'
<1> USE DEF pollerVars, timerVars, sockVars, slotVars, outVars, mainVars, runnerVars, control
<1>1. PICK p \in Slots, dir \in Directions : SocketReady(p, dir)
  BY DEF Environment
<1>2. /\ at \in {"main", "fiber"} /\ fibers[p].sock # "Empty"
      /\ edge' \subseteq edge \cup {p} /\ (p \in edge' => p \in edge \/ fibers[p].ready # "none")
      /\ UNCHANGED <<fibers, toexec, free_fibers, nfibers, tomain_fibers, fiber_refs, timer_refs,
                     timedout, smth, at, cur, loop>>
  BY <1>1 DEF SocketReady, Directions
<1> HIDE DEF pollerVars, timerVars, sockVars, slotVars, outVars, mainVars, runnerVars, control
<1>3. \A q \in Slots : q # p => Untouched(q)
  BY <1>2 DEF Untouched, Scheduled, Entered, Leaving, InUse
<1>4. Phase /\ ListsOK' /\ LoopOK' /\ InsideOK' /\ at' # "panic"
  BY <1>2 DEF Phase, Late, Inside, EntryInv, ListsOK, FreeListOK, Unique, LoopOK, InsideOK, Me
<1>5. SlotOK(p)'
  <2>1. SlotOK(p)
    BY DEF EntryInv
  <2>2. /\ Scheduled(p)' <=> Scheduled(p)
        /\ Entered(p)' <=> Entered(p)
        /\ InUse(p)' <=> InUse(p)
        /\ Leaving(p)' <=> Leaving(p)
        /\ Late' <=> Late
    BY <1>2 DEF Scheduled, Entered, InUse, Leaving, Late, Inside
  <2> QED BY <1>2, <2>1, <2>2 DEF SlotOK, Leads, QueuedOK
<1> QED BY <1>3, <1>4, <1>5, OneSlotSound

-----------------------------------------------------------------------------
LEMMA InitSound == Init => EntryInv
<1> SUFFICES ASSUME Init PROVE EntryInv
  OBVIOUS
<1>1. /\ at = "main" /\ toexec = <<>> /\ timedout = <<>> /\ free_fibers = <<>> /\ edge = {}
      /\ tomain_fibers = <<>>
      /\ \A p \in Slots : fibers[p] = Unallocated /\ timer_refs[p] = 0 /\ fiber_refs[p] = 0
  BY DEF Init, PollerInit
<1>2. /\ Unallocated.op = "start" /\ Unallocated.wtoken = None /\ Unallocated.sock = "Empty"
      /\ ~Unallocated.func /\ Unallocated.result = "none"
  BY DEF Unallocated, NewFiber
<1>3. ListsOK /\ LoopOK /\ InsideOK
  BY <1>1 DEF ListsOK, FreeListOK, Unique, LoopOK, InsideOK, Inside
<1>4. ASSUME NEW p \in Slots PROVE SlotOK(p)
  <2>1. RecordOK(fibers[p])
    BY <1>1, <1>2 DEF RecordOK
  <2>2. ~Scheduled(p) /\ ~Leads(p)
    BY <1>1, <1>2 DEF Leads, Scheduled, Entered, Range
  <2> QED BY <1>1, <1>2, <2>1, <2>2 DEF SlotOK
<1> QED BY <1>1, <1>3, <1>4 DEF EntryInv

LEMMA NextSound ==
  ASSUME Careful, TypeOK, WakeInv, EntryInv, [Next]_vars
  PROVE  EntryInv'
<1>1. CASE Switches
  BY <1>1, ResumesSound, StepsOutSound DEF Switches
<1>2. CASE Next
  BY <1>1, <1>2, CreatesSound, CallsSound, RunSound, PollSound, MainSound, EnvironmentSound DEF Next
<1>3. CASE UNCHANGED vars
  <2>1. UNCHANGED <<toexec, timedout, edge, fibers, nfibers, free_fibers, tomain_fibers,
                    fiber_refs, timer_refs, smth, at, cur, loop>>
    BY <1>3 DEF vars, pollerVars, timerVars, sockVars, runnerVars, slotVars, outVars, mainVars, control
  <2>2. \A q \in Slots : Untouched(q)
    BY <2>1 DEF Untouched, Scheduled, Entered, Leaving, InUse
  <2>3. Phase /\ ListsOK' /\ LoopOK' /\ InsideOK' /\ at' # "panic"
    BY <2>1 DEF Phase, Late, Inside, EntryInv, ListsOK, FreeListOK, Unique, LoopOK, InsideOK, Me
  <2> QED BY <2>2, <2>3, NoSlotSound
<1> QED BY <1>2, <1>3

LEMMA AlwaysSound == ASSUME Careful PROVE Spec => []EntryInv
<1>1. NoStaleParent
  BY DEF Careful, NoStaleParent, Joins
<1>2. Spec => []WakeInv
  BY <1>1, AlwaysWake
<1>3. TypeOK /\ WakeInv /\ EntryInv /\ [Next]_vars => EntryInv'
  BY NextSound
<1> QED BY <1>2, <1>3, InitSound, TypeCorrect, PTL DEF Spec

\* No panic in programs whose fibers read and write sockets with timeouts, look
\* up hosts and are woken by timers, as long as none of them has children, joins
\* the main stack, hibernates or listens, and a program whose timers fire sends
\* no chunks: run() and poll() never lead into a fiber that is closed, that is
\* queued twice or whose slot another fiber has.
THEOREM SocketsNeverPanic == ASSUME Careful PROVE Spec => []NoPanic
<1>1. EntryInv => NoPanic
  BY DEF EntryInv, NoPanic
<1> QED BY <1>1, AlwaysSound, PTL

-----------------------------------------------------------------------------
(***************************************************************************)
(* Parents and children: a fiber that has children waits for them in       *)
(* get_child and in nothing else, and takes what they give at once, for    *)
(* any number of fibers, in families of any depth.  Parents that block on  *)
(* something else (busy_parent) or return before their children            *)
(* (return_early) are left out, and timers that fire while chunks are sent *)
(* (README, section 4, has the counterexamples); so are lookups.           *)
(***************************************************************************)

Families ==
    Usage \subseteq {"new_tcp", "new_udp", "new_processor", "join_tcp", "join_udp", "get_child",
                     "read", "write", "handshake", "socket_timeout", "resp_chunk",
                     "return_some", "run_unprompted"}

-----------------------------------------------------------------------------
(* The inductive invariant.                                                *)

In(p, place) == cur = p /\ at = place

\* A slot that nobody has.
Vacated(f) ==
    f.state = "Closed" /\ f.result = "none" /\ f.stack = None /\ f.children = <<>> /\ f.sock = "Empty"

\* The record of a living fiber.
TraitsOK(f) ==
    /\ f.func /\ f.op \notin {"accept", "join_main"}
    /\ f.op = "start" => f.param /\ f.ready = "none"
    /\ f.op # "start" => f.state = "Stacked"
    /\ f.op \in {"read", "write", "handshake"} => f.sock # "Empty"
    /\ f.op = "get_child" => f.sock = "Empty"
    /\ f.children # <<>> => f.sock = "Empty" /\ f.op \in {"user", "get_child"}
    /\ f.result # "none" => f.op = "resp_chunk"

\* The fiber that control is in.
HereOK(f, place) ==
    IF f.state = "Closed" THEN f.children = <<>> /\ place = "stepped_out"
    ELSE /\ TraitsOK(f)
         /\ f.op = "user" => place = "fiber"
         /\ f.op = "get_child" /\ f.children = <<>> => place = "fiber"
         /\ f.op = "start" => place # "stepped_out"
         /\ f.op = "resp_chunk" => place # "fiber"
         /\ f.result # "none" <=> place = "stepped_out" /\ f.op = "resp_chunk"

\* A fiber that control is not in: a closed one is a child that its parent has
\* yet to take; a living one is blocked, and queued unless something else wakes it.
AwayOK(p) ==
    LET f == fibers[p] IN
    IF f.state = "Closed" THEN /\ f.children = <<>> /\ f.stack = None /\ f.sock = "Empty"
                               /\ f.parent # None
    ELSE /\ TraitsOK(f)
         /\ f.op # "user"
         /\ f.op = "get_child" => f.children # <<>>
         /\ f.op \in {"start", "resp_chunk"} => Scheduled(p) \/ f.result # "none"
         /\ f.result # "none" => f.parent # None

\* A queued fiber; once the queue was executed, only new ones are in it.
InLineOK(p) ==
    LET f == fibers[p] IN
    /\ InUse(p) /\ ~Entered(p) /\ f.state # "Closed" /\ f.result = "none" /\ f.op # "get_child"
    /\ Late => f.op = "start"
    /\ at = "events" => p \notin edge

MemberOK(p) ==
    LET f == fibers[p] IN
    /\ ~InUse(p) => Vacated(f) /\ ~Entered(p)
    /\ InUse(p) => IF Entered(p) THEN HereOK(f, at) ELSE AwayOK(p)
    /\ Scheduled(p) => InLineOK(p)
    /\ p \in edge => f.sock # "Empty" /\ f.ready # "none"
    /\ fiber_refs[p] = 0

\* Parent and children know each other.
ChildrenOK(p) ==
    /\ Unique(fibers[p].children)
    /\ \A c \in Range(fibers[p].children) : InUse(c) /\ fibers[c].parent = p

ParentOK(c) ==
    InUse(c) /\ fibers[c].parent # None =>
      /\ fibers[c].parent # c
      /\ c \in Range(fibers[fibers[c].parent].children)

TreeInv == \A p \in Slots : ChildrenOK(p) /\ ParentOK(p)

\* A child that closed or holds a result.
Pending(c) ==
    InUse(c) /\ fibers[c].parent # None /\ (fibers[c].state = "Closed" \/ fibers[c].result # "none")

\* Control is on its way to p's call of get_child.
Taker(p) == cur = p /\ at \in {"step_into", "resumed", "fiber"} /\ fibers[p].op = "get_child"

\* There is one such child at a time, and control goes from it straight to its
\* parent, which takes what it has.
PendInv ==
    /\ \A c \in Slots : Pending(c) => In(c, "stepped_out") \/ Taker(fibers[c].parent)
    /\ \A c, d \in Slots : Pending(c) /\ Pending(d) => c = d

ControlOK == at # "panic" /\ timedout = <<>> /\ (Inside \/ at = "toexec" => loop = "toexec")

FamilyInv == ListsOK /\ ControlOK /\ TreeInv /\ PendInv /\ \A p \in Slots : MemberOK(p)

-----------------------------------------------------------------------------
(* What a step leaves alone.                                               *)

Aside(q) ==
    /\ fibers'[q] = fibers[q] /\ fiber_refs'[q] = fiber_refs[q]
    /\ InUse(q)' <=> InUse(q)
    /\ Scheduled(q)' <=> Scheduled(q)
    /\ q \in edge' => q \in edge
    /\ UNCHANGED <<at, cur>> \/ (~Entered(q) /\ ~Entered(q)')

LEMMA MemberStays ==
  ASSUME NEW q \in Slots, MemberOK(q), Aside(q), Phase
  PROVE  MemberOK(q)'
<1>1. /\ Entered(q)' <=> Entered(q)
      /\ Entered(q) => at' = at
  BY DEF Aside, Entered
<1>2. ~InUse(q)' => Vacated(fibers'[q]) /\ ~Entered(q)'
  BY <1>1 DEF MemberOK, Aside
<1>3. InUse(q)' => IF Entered(q)' THEN HereOK(fibers'[q], at') ELSE AwayOK(q)'
  BY <1>1 DEF MemberOK, Aside, AwayOK
<1>4. Scheduled(q)' => InLineOK(q)'
  <2> SUFFICES ASSUME Scheduled(q)' PROVE InLineOK(q)'
    OBVIOUS
  <2>1. InLineOK(q)
    BY DEF MemberOK, Aside
  <2>2. Late' => fibers'[q].op = "start"
    BY <2>1 DEF InLineOK, Aside, Phase
  <2>3. at' = "events" => q \notin edge'
    <3>1. CASE at = "events"
      BY <2>1, <3>1 DEF InLineOK, Aside
    <3>2. CASE Late
      <4>1. fibers[q].op = "start" /\ AwayOK(q) /\ fibers[q].state # "Closed"
        BY <2>1, <3>2 DEF InLineOK, MemberOK
      <4>2. fibers[q].ready = "none"
        BY <4>1 DEF AwayOK, TraitsOK
      <4> QED BY <4>2 DEF MemberOK, Aside
    <3> QED BY <3>1, <3>2 DEF Phase
  <2> QED BY <1>1, <2>1, <2>2, <2>3 DEF InLineOK, Aside
<1> QED BY <1>2, <1>3, <1>4 DEF MemberOK, Aside

LEMMA OneMember ==
  ASSUME FamilyInv, NEW p \in Slots, Phase, \A q \in Slots : q # p => Aside(q),
         MemberOK(p)', ListsOK', ControlOK', TreeInv', PendInv'
  PROVE  FamilyInv'
<1>1. ASSUME NEW q \in Slots, q # p PROVE MemberOK(q)'
  <2>1. MemberOK(q) /\ Aside(q)
    BY <1>1 DEF FamilyInv
  <2> QED BY <2>1, MemberStays
<1> QED BY <1>1 DEF FamilyInv

LEMMA TwoMembers ==
  ASSUME FamilyInv, NEW p \in Slots, NEW r \in Slots, Phase,
         \A q \in Slots : q # p /\ q # r => Aside(q),
         MemberOK(p)', MemberOK(r)', ListsOK', ControlOK', TreeInv', PendInv'
  PROVE  FamilyInv'
<1>1. ASSUME NEW q \in Slots, q # p, q # r PROVE MemberOK(q)'
  <2>1. MemberOK(q) /\ Aside(q)
    BY <1>1 DEF FamilyInv
  <2> QED BY <2>1, MemberStays
<1> QED BY <1>1 DEF FamilyInv

LEMMA NoMember ==
  ASSUME FamilyInv, Phase, \A q \in Slots : Aside(q), ListsOK', ControlOK', TreeInv', PendInv'
  PROVE  FamilyInv'
<1>1. ASSUME NEW q \in Slots PROVE MemberOK(q)'
  <2>1. MemberOK(q) /\ Aside(q)
    BY DEF FamilyInv
  <2> QED BY <2>1, MemberStays
<1> QED BY <1>1 DEF FamilyInv

\* The tree is what the parents, the lists of children and the slots in use say.
LEMMA TreeStays ==
  ASSUME TreeInv,
         \A q \in Slots : /\ fibers'[q].parent = fibers[q].parent
                          /\ fibers'[q].children = fibers[q].children
                          /\ InUse(q)' <=> InUse(q),
         TypeOK
  PROVE  TreeInv'
<1> SUFFICES ASSUME NEW p \in Slots PROVE ChildrenOK(p)' /\ ParentOK(p)'
  BY DEF TreeInv
<1>1. ChildrenOK(p) /\ ParentOK(p) /\ fibers[p] \in Fiber
  BY DEF TreeInv, TypeOK
<1>2. \A c \in Range(fibers[p].children) : c \in Slots
  BY <1>1 DEF Fiber, Range
<1>3. ChildrenOK(p)'
  BY <1>1, <1>2 DEF ChildrenOK, Unique
<1>4. fibers[p].parent # None => fibers[p].parent \in Slots
  BY <1>1 DEF Fiber
<1>5. ParentOK(p)'
  BY <1>1, <1>4 DEF ParentOK
<1> QED BY <1>3, <1>5

-----------------------------------------------------------------------------
(* Where control is, and what that says of pending children.               *)

LEMMA EnteredMember ==
  ASSUME TypeOK, FamilyInv, Inside, NEW p, p = cur
  PROVE  /\ p \in Slots /\ fibers[p] \in Fiber /\ Me = fibers[p] /\ MemberOK(p) /\ InUse(p)
         /\ HereOK(fibers[p], at) /\ ~Scheduled(p) /\ loop = "toexec"
<1>1. p \in Slots /\ fibers[p] \in Fiber /\ Me = fibers[p]
  BY DEF TypeOK, Me
<1>2. MemberOK(p) /\ Entered(p) /\ loop = "toexec"
  BY <1>1 DEF FamilyInv, Inside, Entered, ControlOK
<1> QED BY <1>1, <1>2 DEF MemberOK, InLineOK

Calm == \A c \in Slots : ~Pending(c)

LEMMA CalmPend == ASSUME Calm PROVE PendInv
  BY DEF Calm, PendInv

LEMMA CalmOnStack ==
  ASSUME FamilyInv, ~Inside
  PROVE  Calm
  BY DEF FamilyInv, PendInv, Calm, In, Taker, Inside

LEMMA CalmElsewhere ==
  ASSUME TypeOK, FamilyInv, at \in {"step_into", "resumed", "fiber"}, Me.op # "get_child"
  PROVE  Calm
<1> SUFFICES ASSUME NEW c \in Slots, Pending(c) PROVE FALSE
  BY DEF Calm
<1>1. PICK q : q = fibers[c].parent
  OBVIOUS
<1>2. Taker(q)
  BY <1>1 DEF FamilyInv, PendInv, In
<1> QED BY <1>2 DEF Taker, Me

LEMMA CalmLeaving ==
  ASSUME TypeOK, FamilyInv, at = "stepped_out",
         Me.parent = None \/ (Me.state # "Closed" /\ Me.result = "none")
  PROVE  Calm
<1> SUFFICES ASSUME NEW c \in Slots, Pending(c) PROVE FALSE
  BY DEF Calm
<1>1. PICK q : q = fibers[c].parent
  OBVIOUS
<1>2. In(c, "stepped_out")
  BY <1>1 DEF FamilyInv, PendInv, Taker
<1> QED BY <1>2 DEF In, Me, Pending
-----------------------------------------------------------------------------
(* Creating fibers.                                                        *)

\* The other slots are in use as before.
LEMMA OthersInUse ==
  ASSUME TypeOK, FreeListOK, TakeSlot, NEW n, n = NewSlot, free_fibers' = FreeLeft
  PROVE  /\ FreeListOK' /\ InUse(n)'
         /\ \A q \in Slots : q # n => (InUse(q)' <=> InUse(q))
<1>1. /\ n \in Slots /\ ~InUse(n) /\ n <= nfibers'
      /\ FreeLeft \in Seq(Slots) /\ Unique(FreeLeft) /\ n \notin Range(FreeLeft)
      /\ \A i \in DOMAIN FreeLeft : FreeLeft[i] <= nfibers'
      /\ \A q \in Slots : q # n /\ InUse(q) => q <= nfibers' /\ q \notin Range(FreeLeft)
  BY TakesFree
<1>2. FreeListOK' /\ InUse(n)' /\ \A q \in Slots : q # n /\ InUse(q) => InUse(q)'
  BY <1>1 DEF FreeListOK, InUse, Unique
<1>3. ASSUME NEW q \in Slots, q # n, InUse(q)' PROVE InUse(q)
  <2>1. /\ free_fibers \in Seq(Slots) /\ nfibers \in Nat /\ q \in Nat
        /\ nfibers' = IF free_fibers # <<>> THEN nfibers ELSE nfibers + 1
        /\ n = IF free_fibers # <<>> THEN Head(free_fibers) ELSE nfibers + 1
        /\ free_fibers' = IF free_fibers # <<>> THEN Tail(free_fibers) ELSE <<>>
        /\ q <= nfibers' /\ q \notin Range(free_fibers')
    BY <1>3, PollerAssumption DEF TypeOK, TakeSlot, SlotLeft, NewSlot, FreeLeft, Slots, InUse
  <2>2. CASE free_fibers = <<>>
    <3>1. q <= nfibers
      BY <1>3, <2>1, <2>2
    <3>2. Range(free_fibers) = {}
      BY <2>2 DEF Range
    <3> QED BY <3>1, <3>2 DEF InUse
  <2>3. CASE free_fibers # <<>>
    <3>1. PICK t : t = free_fibers'
      OBVIOUS
    <3>2. \A i \in DOMAIN free_fibers : i = 1 \/ (i - 1 \in DOMAIN t /\ t[i - 1] = free_fibers[i])
      BY <2>1, <2>3, <3>1
    <3>3. ASSUME q \in Range(free_fibers) PROVE FALSE
      <4>1. PICK i \in DOMAIN free_fibers : free_fibers[i] = q
        BY <3>3 DEF Range
      <4>2. i = 1 => q = n
        BY <2>1, <2>3, <4>1
      <4>3. i # 1 => q \in Range(t)
        BY <3>2, <4>1 DEF Range
      <4> QED BY <1>3, <2>1, <3>1, <4>2, <4>3
    <3> QED BY <2>1, <2>3, <3>3 DEF InUse
  <2> QED BY <2>2, <2>3
<1> QED BY <1>2, <1>3

\* The slot that is taken was nobody's.
LEMMA TakesVacant ==
  ASSUME Families, TypeOK, FamilyInv, TakeSlot, at \in {"main", "fiber"}, NEW n, n = NewSlot
  PROVE  /\ n \in Slots /\ ~InUse(n) /\ Vacated(fibers[n]) /\ ~Scheduled(n) /\ n \notin edge'
         /\ UNCHANGED <<at, cur, loop>> /\ ~Entered(n) /\ ~Entered(n)' /\ edge' \subseteq edge
         /\ fiber_refs[n] = 0
<1>1. n \in Slots /\ ~InUse(n)
  BY TakesFree DEF FamilyInv, ListsOK
<1>2. /\ Vacated(fibers[n]) /\ ~Entered(n) /\ ~Scheduled(n) /\ fiber_refs[n] = 0
  BY <1>1 DEF FamilyInv, MemberOK, InLineOK
<1>3. edge' = edge \ {n} /\ cur' = cur /\ loop' = loop
      /\ at' = IF at = "fiber" /\ n = cur THEN "panic" ELSE at
  BY DEF TakeSlot, SocketDropped, Goto
<1>4. at = "fiber" => n # cur
  BY <1>2 DEF Entered
<1>5. ~Entered(n)'
  BY <1>2, <1>3, <1>4 DEF Entered
<1> QED BY <1>1, <1>2, <1>3, <1>4, <1>5

\* No slot that nobody has is a child or a parent.
LEMMA Unrelated ==
  ASSUME TypeOK, FamilyInv, NEW n \in Slots, ~InUse(n), NEW q \in Slots
  PROVE  n \notin Range(fibers[q].children) /\ (InUse(q) => fibers[q].parent # n)
<1>1. n \notin Range(fibers[q].children)
  BY DEF FamilyInv, TreeInv, ChildrenOK
<1>2. Range(fibers[n].children) = {}
  BY DEF FamilyInv, MemberOK, Vacated, Range
<1>3. InUse(q) /\ fibers[q].parent = n => q \in Range(fibers[n].children)
  BY NoneApart DEF FamilyInv, TreeInv, ParentOK
<1> QED BY <1>1, <1>2, <1>3

LEMMA NewSound ==
  ASSUME Families, TypeOK, FamilyInv, NEW sock \in Socks, sock # "Listener", NEW call, New(sock, call)
  PROVE  FamilyInv'
<1> USE DEF timerVars, outVars, mainVars
<1>0. PICK n : n = NewSlot
  OBVIOUS
<1>1. PICK f : f = NewFiber(TRUE, sock, TRUE, None)
  OBVIOUS
<1>2. /\ TraitsOK(f) /\ f.state = "Unstacked" /\ f.op = "start" /\ f.result = "none"
      /\ f.parent = None /\ f.children = <<>>
  BY <1>1 DEF NewFiber, TraitsOK
<1>3. /\ TakeSlot /\ free_fibers' = FreeLeft /\ Update(n, f) /\ push_toexec(n)
      /\ at \in {"main", "fiber"} /\ UNCHANGED <<smth, fiber_refs, tomain_fibers, timedout>>
  BY <1>0, <1>1, <1>2 DEF New, OnMain, InFiber, register, WithParent, Update
<1> HIDE DEF timerVars, outVars, mainVars
<1>4. /\ n \in Slots /\ ~InUse(n) /\ Vacated(fibers[n]) /\ ~Scheduled(n) /\ n \notin edge'
      /\ UNCHANGED <<at, cur, loop>> /\ ~Entered(n) /\ ~Entered(n)' /\ edge' \subseteq edge
      /\ fiber_refs[n] = 0
  BY <1>0, <1>3, TakesVacant
<1>5. FreeListOK' /\ InUse(n)' /\ \A q \in Slots : q # n => (InUse(q)' <=> InUse(q))
  BY <1>0, <1>3, OthersInUse DEF FamilyInv, ListsOK
<1>6. Unique(toexec)' /\ \A q : Scheduled(q)' <=> Scheduled(q) \/ q = n
  BY <1>3, <1>4, PushesOne DEF FamilyInv, ListsOK
<1>7. fibers'[n] = f /\ \A q \in Slots : q # n => fibers'[q] = fibers[q]
  BY <1>3, <1>4 DEF Update, TypeOK
<1>8. \A q \in Slots : q # n => Aside(q)
  BY <1>3, <1>4, <1>5, <1>6, <1>7 DEF Aside
<1>9. Phase
  BY <1>3, <1>4 DEF Phase, Late, Inside
<1>10. MemberOK(n)'
  <2>1. AwayOK(n)'
    BY <1>2, <1>6, <1>7 DEF AwayOK
  <2>2. InLineOK(n)'
    BY <1>2, <1>4, <1>5, <1>7 DEF InLineOK
  <2> QED BY <1>3, <1>4, <1>5, <2>1, <2>2 DEF MemberOK
<1>11. ListsOK' /\ ControlOK'
  BY <1>3, <1>4, <1>5, <1>6 DEF ListsOK, ControlOK, FamilyInv, Inside
<1>12. TreeInv'
  <2>1. ChildrenOK(n)' /\ ParentOK(n)'
    <3>1. DOMAIN f.children = {} /\ Range(f.children) = {}
      BY <1>2 DEF Range
    <3> QED BY <1>2, <1>7, <3>1 DEF ChildrenOK, ParentOK, Unique
  <2>2. ASSUME NEW q \in Slots, q # n PROVE ChildrenOK(q)' /\ ParentOK(q)'
    <3>1. ChildrenOK(q) /\ ParentOK(q) /\ fibers[q] \in Fiber /\ fibers'[q] = fibers[q]
      BY <1>7, <2>2 DEF FamilyInv, TreeInv, TypeOK
    <3>2. n \notin Range(fibers[q].children) /\ (InUse(q) => fibers[q].parent # n)
      BY <1>4, Unrelated
    <3>3. \A c \in Range(fibers[q].children) : c \in Slots /\ c # n
      BY <3>1, <3>2 DEF Fiber, Range
    <3>4. ChildrenOK(q)'
      BY <1>5, <1>7, <3>1, <3>3 DEF ChildrenOK
    <3>5. fibers[q].parent # None => fibers[q].parent \in Slots
      BY <3>1 DEF Fiber
    <3>6. ParentOK(q)'
      BY <1>5, <1>7, <2>2, <3>1, <3>2, <3>5 DEF ParentOK
    <3> QED BY <3>4, <3>6
  <2> QED BY <2>1, <2>2 DEF TreeInv
<1>13. PendInv'
  <2>1. Calm
    BY <1>3, CalmOnStack, CalmElsewhere DEF New, OnMain, InFiber, Inside
  <2>2. \A q \in Slots : ~Pending(q)'
    BY <1>2, <1>5, <1>7, <2>1 DEF Pending, Calm
  <2> QED BY <2>2 DEF PendInv
<1> QED BY <1>4, <1>8, <1>9, <1>10, <1>11, <1>12, <1>13, OneMember

LEMMA JoinSound ==
  ASSUME Families, TypeOK, FamilyInv, NEW sock \in Socks, sock # "Listener", NEW call, Join(sock, call)
  PROVE  FamilyInv'
<1> USE DEF timerVars, outVars, mainVars
<1>0. PICK n, p : n = NewSlot /\ p = cur
  OBVIOUS
<1>1. PICK f : f = NewFiber(TRUE, sock, TRUE, p)
  OBVIOUS
<1>2. /\ TraitsOK(f) /\ f.state = "Unstacked" /\ f.op = "start" /\ f.result = "none"
      /\ f.parent = p /\ f.children = <<>>
  BY <1>1 DEF NewFiber, TraitsOK
<1>3. /\ TakeSlot /\ free_fibers' = FreeLeft /\ push_toexec(n) /\ at = "fiber" /\ Me.op = "user"
      /\ UNCHANGED <<smth, fiber_refs, tomain_fibers, timedout>> /\ Me.sock = "Empty"
      /\ fibers' = WithParent(p, [fibers EXCEPT ![n] = f])
  BY <1>0, <1>1, <1>2 DEF Join, InFiber, register, MayBeParent, Families
<1> HIDE DEF timerVars, outVars, mainVars
<1>4. /\ n \in Slots /\ ~InUse(n) /\ Vacated(fibers[n]) /\ ~Scheduled(n) /\ n \notin edge'
      /\ UNCHANGED <<at, cur, loop>> /\ ~Entered(n) /\ ~Entered(n)' /\ edge' \subseteq edge
      /\ fiber_refs[n] = 0
  BY <1>0, <1>3, TakesVacant
<1>5. FreeListOK' /\ InUse(n)' /\ \A q \in Slots : q # n => (InUse(q)' <=> InUse(q))
  BY <1>0, <1>3, OthersInUse DEF FamilyInv, ListsOK
<1>6. Unique(toexec)' /\ \A q : Scheduled(q)' <=> Scheduled(q) \/ q = n
  BY <1>3, <1>4, PushesOne DEF FamilyInv, ListsOK
<1>7. /\ p \in Slots /\ fibers[p] \in Fiber /\ Me = fibers[p] /\ MemberOK(p) /\ InUse(p)
      /\ HereOK(fibers[p], at) /\ ~Scheduled(p) /\ p # n /\ p # None
  BY <1>0, <1>3, <1>4, EnteredMember, NoneApart DEF Inside
<1>8. PICK kids : kids = Append(fibers[p].children, n)
  OBVIOUS
<1>9. PICK h : h = [fibers[p] EXCEPT !.children = kids]
  OBVIOUS
<1>10. /\ fibers'[n] = f /\ fibers'[p] = h
       /\ \A q \in Slots : q # n /\ q # p => fibers'[q] = fibers[q]
  <2>1. PICK g : g = [fibers EXCEPT ![n] = f]
    OBVIOUS
  <2>2. /\ g[n] = f /\ g[p] = fibers[p] /\ DOMAIN g = Slots
        /\ \A q \in Slots : q # n => g[q] = fibers[q]
    BY <1>4, <1>7, <2>1 DEF TypeOK
  <2>3. fibers' = [g EXCEPT ![p] = h]
    BY <1>0, <1>3, <1>7, <1>8, <1>9, <2>1, <2>2 DEF WithParent
  <2> QED BY <1>4, <1>7, <2>2, <2>3
<1>11. /\ h.children = kids /\ h.parent = fibers[p].parent /\ h.func = fibers[p].func
       /\ h.op = fibers[p].op /\ h.param = fibers[p].param /\ h.ready = fibers[p].ready
       /\ h.sock = fibers[p].sock /\ h.state = fibers[p].state /\ h.result = fibers[p].result
  BY <1>7, <1>9 DEF Fiber
<1>12. /\ Unique(kids) /\ Range(kids) = Range(fibers[p].children) \cup {n}
  <2>1. ChildrenOK(p) /\ fibers[p].children \in Seq(Slots) /\ n \notin Range(fibers[p].children)
    BY <1>4, <1>7, Unrelated DEF FamilyInv, TreeInv, Fiber
  <2>2. n <= NumSlots /\ \A i \in DOMAIN fibers[p].children : fibers[p].children[i] <= NumSlots
    BY <1>4, <2>1, PollerAssumption DEF Slots
  <2> QED BY <1>4, <1>8, <2>1, <2>2, AppendOne DEF ChildrenOK
<1>13. \A q \in Slots : q # n /\ q # p => Aside(q)
  BY <1>3, <1>4, <1>5, <1>6, <1>10 DEF Aside
<1>14. Phase
  BY <1>3, <1>4 DEF Phase, Late, Inside
<1>15. MemberOK(n)'
  <2>1. AwayOK(n)'
    BY <1>2, <1>6, <1>10 DEF AwayOK
  <2>2. InLineOK(n)'
    BY <1>2, <1>3, <1>4, <1>5, <1>10 DEF InLineOK
  <2> QED BY <1>3, <1>4, <1>5, <2>1, <2>2 DEF MemberOK
<1>16. MemberOK(p)'
  <2>1. HereOK(h, "fiber")
    BY <1>3, <1>7, <1>11 DEF HereOK, TraitsOK
  <2>2. Entered(p)' /\ ~Scheduled(p)' /\ InUse(p)'
    BY <1>0, <1>3, <1>4, <1>5, <1>6, <1>7 DEF Entered
  <2>3. p \notin edge'
    BY <1>3, <1>4, <1>7 DEF MemberOK
  <2> QED BY <1>3, <1>4, <1>7, <1>10, <2>1, <2>2, <2>3 DEF MemberOK
<1>17. ListsOK' /\ ControlOK'
  BY <1>3, <1>4, <1>5, <1>6 DEF ListsOK, ControlOK, FamilyInv, Inside
<1>18. TreeInv'
  <2>1. ChildrenOK(n)' /\ ParentOK(n)'
    <3>1. DOMAIN f.children = {} /\ Range(f.children) = {}
      BY <1>2 DEF Range
    <3> QED BY <1>2, <1>7, <1>10, <1>11, <1>12, <3>1 DEF ChildrenOK, ParentOK, Unique
  <2>2. ChildrenOK(p)' /\ ParentOK(p)'
    <3>1. ChildrenOK(p) /\ ParentOK(p)
      BY <1>7 DEF FamilyInv, TreeInv
    <3>2. \A c \in Range(fibers[p].children) : c \in Slots /\ c # n
      BY <1>4, <1>7, Unrelated DEF Fiber, Range
    <3>3. \A c \in Range(kids) : InUse(c)' /\ fibers'[c].parent = p
      BY <1>2, <1>5, <1>10, <1>11, <1>12, <3>1, <3>2 DEF ChildrenOK
    <3>4. ChildrenOK(p)'
      BY <1>10, <1>11, <1>12, <3>3 DEF ChildrenOK
    <3>5. fibers[p].parent \in Slots \cup {None} /\ fibers[p].parent # n
      BY <1>4, <1>7, Unrelated DEF Fiber
    <3>6. ParentOK(p)'
      BY <1>5, <1>7, <1>10, <1>11, <3>1, <3>5 DEF ParentOK
    <3> QED BY <3>4, <3>6
  <2>3. ASSUME NEW q \in Slots, q # n, q # p PROVE ChildrenOK(q)' /\ ParentOK(q)'
    <3>1. ChildrenOK(q) /\ ParentOK(q) /\ fibers[q] \in Fiber /\ fibers'[q] = fibers[q]
      BY <1>10, <2>3 DEF FamilyInv, TreeInv, TypeOK
    <3>2. n \notin Range(fibers[q].children) /\ (InUse(q) => fibers[q].parent # n)
      BY <1>4, Unrelated
    <3>3. \A c \in Range(fibers[q].children) : c \in Slots /\ c # n
      BY <3>1, <3>2 DEF Fiber, Range
    <3>4. ChildrenOK(q)'
      BY <1>5, <1>10, <1>11, <3>1, <3>3 DEF ChildrenOK
    <3>5. fibers[q].parent # None => fibers[q].parent \in Slots
      BY <3>1 DEF Fiber
    <3>6. ParentOK(q)'
      BY <1>5, <1>10, <1>11, <1>12, <2>3, <3>1, <3>2, <3>5 DEF ParentOK
    <3> QED BY <3>4, <3>6
  <2> QED BY <2>1, <2>2, <2>3 DEF TreeInv
<1>19. PendInv'
  <2>1. Calm
    BY <1>3, CalmElsewhere
  <2>2. \A q \in Slots : ~Pending(q)'
    BY <1>2, <1>5, <1>10, <1>11, <2>1 DEF Pending, Calm
  <2> QED BY <2>2 DEF PendInv
<1> QED BY <1>4, <1>7, <1>13, <1>14, <1>15, <1>16, <1>17, <1>18, <1>19, TwoMembers

LEMMA CreatesFamily ==
  ASSUME Families, TypeOK, FamilyInv, Creates
  PROVE  FamilyInv'
<1>1. ~NewTimer(TRUE) /\ ~NewTimer(FALSE) /\ ~NewResolve /\ ~JoinResolve /\ ~ResolveFails /\ ~ListenerFails
      /\ ~New("Listener", "new_listener")
  BY DEF NewTimer, NewResolve, JoinResolve, ResolveFails, ListenerFails, New, OnMain, InFiber,
         Families
<1>2. {"Tcp", "Udp", "Empty"} \subseteq Socks /\ "Listener" \notin {"Tcp", "Udp", "Empty"}
  BY DEF Socks
<1> QED BY <1>1, <1>2, NewSound, JoinSound DEF Creates

-----------------------------------------------------------------------------
(* Calls of a running fiber.                                               *)

\* Control stays in p, which keeps its family.
LEMMA StaysMember ==
  ASSUME TypeOK, FamilyInv, Inside, NEW p, NEW f, InPlace(p, f), Inside',
         f.parent = fibers[p].parent, f.children = fibers[p].children, HereOK(f, at'), PendInv'
  PROVE  FamilyInv'
<1>1. p \in Slots /\ MemberOK(p) /\ InUse(p) /\ ~Scheduled(p) /\ loop = "toexec"
  BY EnteredMember DEF InPlace
<1>2. fibers'[p] = f /\ \A q \in Slots : q # p => fibers'[q] = fibers[q]
  BY <1>1 DEF InPlace, Update, TypeOK
<1>3. \A q \in Slots : InUse(q)' <=> InUse(q)
  BY DEF InPlace, InUse
<1>4. \A q \in Slots : q # p => Aside(q)
  BY <1>2, <1>3 DEF InPlace, Aside, Scheduled, Entered
<1>5. Phase
  BY DEF Phase, Late, Inside, InPlace
<1>6. MemberOK(p)'
  <2>1. ~Scheduled(p)' /\ Entered(p)'
    BY <1>1 DEF InPlace, Scheduled, Entered, Inside
  <2> QED BY <1>1, <1>2, <1>3, <2>1 DEF MemberOK, InPlace
<1>7. ListsOK' /\ ControlOK'
  BY <1>1 DEF ListsOK, ControlOK, FamilyInv, InPlace, FreeListOK, Unique, Inside
<1>8. TreeInv'
  <2>1. TreeInv
    BY DEF FamilyInv
  <2> QED BY <1>2, <1>3, <2>1, TreeStays
<1> QED BY <1>1, <1>4, <1>5, <1>6, <1>7, <1>8, OneMember

LEMMA StaysCalm ==
  ASSUME TypeOK, FamilyInv, Inside, Calm, NEW p, NEW f, InPlace(p, f), Inside',
         f.parent = fibers[p].parent, f.children = fibers[p].children, HereOK(f, at')
  PROVE  FamilyInv'
<1>1. p \in Slots /\ InUse(p)
  BY EnteredMember DEF InPlace
<1>2. fibers'[p] = f /\ \A q \in Slots : q # p => fibers'[q] = fibers[q]
  BY <1>1 DEF InPlace, Update, TypeOK
<1>3. \A q \in Slots : q # p => ~Pending(q)'
  BY <1>2 DEF Calm, Pending, InPlace, InUse
<1>4. Pending(p)' => In(p, "stepped_out")'
  BY <1>2 DEF Pending, HereOK, In, InPlace
<1>5. PendInv'
  BY <1>3, <1>4 DEF PendInv
<1> QED BY <1>5, StaysMember

\* A fiber whose children have nothing for it.
LEMMA CalmIfNoneReady ==
  ASSUME TypeOK, FamilyInv, at = "fiber", ReadyChildren = {}
  PROVE  Calm
<1> SUFFICES ASSUME NEW c \in Slots, Pending(c) PROVE FALSE
  BY DEF Calm
<1>1. PICK q : q = fibers[c].parent
  OBVIOUS
<1>2. q = cur /\ fibers[q] = Me
  BY <1>1 DEF FamilyInv, PendInv, In, Taker, Me
<1>3. c \in Range(Me.children)
  BY <1>1, <1>2 DEF FamilyInv, TreeInv, ParentOK, Pending
<1>4. PICK i \in DOMAIN Me.children : Me.children[i] = c
  BY <1>3 DEF Range
<1>5. Deliverable(c)
  BY DEF Pending, Deliverable, Live, HasResult
<1> QED BY <1>4, <1>5 DEF ReadyChildren

LEMMA SimpleCallsSound ==
  ASSUME Families, TypeOK, WakeInv, FamilyInv, Calls, \A i \in DOMAIN Me.children : ~TakeChild(i)
  PROVE  FamilyInv'
<1> USE DEF pollerVars, timerVars, sockVars, OnlyFibers, control, slotVars, outVars, mainVars
<1>0. PICK p : p = cur
  OBVIOUS
<1>1. ASSUME at = "fiber"
      PROVE  /\ p \in Slots /\ fibers[p] \in Fiber /\ Me = fibers[p] /\ MemberOK(p) /\ Inside
             /\ TraitsOK(Me) /\ Me.result = "none" /\ Me.state # "Closed" /\ Me.op # "resp_chunk"
  BY <1>0, <1>1, EnteredMember DEF Inside, HereOK
<1>2. ASSUME at = "fiber", Me.op # "get_child" PROVE Calm
  BY <1>2, CalmElsewhere
<1>3. ASSUME NEW call \in Blocking, InFiber(call) PROVE Me.children = <<>>
  BY <1>3 DEF InFiber, Families
<1>4. CASE SocketTimeout
  <2>1. PICK f : f = [Me EXCEPT !.timeout = ~@]
    OBVIOUS
  <2>2. /\ at = "fiber" /\ Update(p, f) /\ at' = at /\ Me.op = "user"
        /\ UNCHANGED <<cur, loop, smth, toexec, free_fibers, nfibers, timer_refs, fiber_refs,
                       tomain_fibers, timedout, edge>>
    BY <1>0, <1>4, <2>1 DEF SocketTimeout, InFiber
  <2>3. /\ Alike(f, Me) /\ f.state = Me.state /\ f.param = Me.param /\ f.result = Me.result
        /\ f.children = Me.children
    BY <1>1, <2>1, <2>2 DEF Alike, Fiber
  <2> HIDE DEF pollerVars, timerVars, sockVars, OnlyFibers, control, slotVars, outVars, mainVars
  <2>4. InPlace(p, f)
    BY <1>0, <1>1, <2>2, <2>3 DEF InPlace, Alike, MemberOK
  <2>5. HereOK(f, at') /\ Inside'
    BY <1>1, <2>2, <2>3 DEF HereOK, TraitsOK, Alike, Inside
  <2> QED BY <1>1, <1>2, <2>2, <2>3, <2>4, <2>5, StaysCalm DEF Alike
<1>5. ASSUME NEW call \in {"read", "write"}, NEW dir,
             IoReturns(call, dir) \/ IoUnregistered(call, dir) \/ HandshakeFails \/ HandshakeDone
      PROVE  FamilyInv'
  <2>1. /\ at = "fiber" /\ at' = at
        /\ UNCHANGED <<cur, loop, smth, toexec, free_fibers, nfibers, timer_refs, fiber_refs,
                       tomain_fibers, timedout>>
        /\ \E s : /\ Update(p, [Me EXCEPT !.sock = s, !.op = "user"])
                  /\ s # "Empty" => Me.sock # "Empty"
                  /\ \/ UNCHANGED edge /\ (Me.sock # "Empty" => s # "Empty")
                     \/ edge' = edge \ {p}
    <3>1. Me \in Fiber => [Me EXCEPT !.op = "user"] = [Me EXCEPT !.sock = Me.sock, !.op = "user"]
      BY DEF Fiber
    <3>2. Me \in Fiber
      BY MeType
    <3>3. HandshakeSock # "Empty"
      BY DEF HandshakeSock
    <3>4. CASE IoReturns(call, dir)
      BY <1>0, <3>1, <3>2, <3>4 DEF IoReturns, InLoop, InFiber
    <3>5. CASE IoUnregistered(call, dir)
      BY <1>0, <3>1, <3>2, <3>5 DEF IoUnregistered, WouldBlock, InLoop, InFiber, Families
    <3>6. CASE HandshakeFails
      BY <1>0, <3>6 DEF HandshakeFails, InLoop, InFiber, SocketDropped
    <3>7. CASE HandshakeDone
      <4>1. /\ at = "fiber" /\ Me.sock = HandshakeSock /\ UNCHANGED <<at, edge>>
            /\ Update(p, [Me EXCEPT !.sock = "Tls", !.op = "user"])
        BY <1>0, <3>7 DEF HandshakeDone, InLoop, InFiber
      <4>2. UNCHANGED <<cur, loop, smth, toexec, free_fibers, nfibers, timer_refs, fiber_refs,
                        tomain_fibers, timedout>>
        BY <3>7 DEF HandshakeDone
      <4>3. "Tls" # "Empty" /\ Me.sock # "Empty"
        BY <3>3, <4>1
      <4>4. /\ Update(p, [Me EXCEPT !.sock = "Tls", !.op = "user"])
            /\ "Tls" # "Empty" => Me.sock # "Empty"
            /\ UNCHANGED edge /\ (Me.sock # "Empty" => "Tls" # "Empty")
        BY <4>1, <4>3
      <4> HIDE DEF pollerVars, timerVars, sockVars, OnlyFibers, control, slotVars, outVars, mainVars
      <4> QED BY <4>1, <4>2, <4>4, Zenon
    <3> QED BY <1>5, <3>4, <3>5, <3>6, <3>7
  <2>2. PICK s : /\ Update(p, [Me EXCEPT !.sock = s, !.op = "user"])
                 /\ s # "Empty" => Me.sock # "Empty"
                 /\ \/ UNCHANGED edge /\ (Me.sock # "Empty" => s # "Empty")
                    \/ edge' = edge \ {p}
    BY <2>1
  <2>3. PICK f : f = [Me EXCEPT !.sock = s, !.op = "user"]
    OBVIOUS
  <2>4. /\ f.func = Me.func /\ f.sock = s /\ f.op = "user" /\ f.parent = Me.parent
        /\ f.state = Me.state /\ f.result = Me.result /\ f.ready = Me.ready
        /\ f.children = Me.children
    BY <1>1, <2>1, <2>3 DEF Fiber
  <2>5. Me.op \in {"user", "read", "write", "handshake"}
    <3>1. CASE IoReturns(call, dir) \/ IoUnregistered(call, dir)
      BY <3>1, <1>5 DEF IoReturns, IoUnregistered, WouldBlock, InLoop, InFiber
    <3>2. CASE HandshakeFails \/ HandshakeDone
      BY <3>2 DEF HandshakeFails, HandshakeDone, InLoop, InFiber
    <3> QED BY <1>5, <3>1, <3>2
  <2> HIDE DEF pollerVars, timerVars, sockVars, OnlyFibers, control, slotVars, outVars, mainVars
  <2>6. InPlace(p, f)
    BY <1>0, <1>1, <2>1, <2>2, <2>3, <2>4 DEF InPlace, MemberOK
  <2>7. HereOK(f, at') /\ Inside'
    BY <1>1, <2>1, <2>2, <2>4, <2>5 DEF HereOK, TraitsOK, Inside
  <2> QED BY <1>1, <1>2, <2>1, <2>4, <2>5, <2>6, <2>7, StaysCalm
<1>6. ASSUME NEW call \in {"read", "write"}, NEW dir \in Directions, IoBlocks(call, dir)
      PROVE  FamilyInv'
  <2> DEFINE tk == IF Armed(call) THEN NextToken ELSE Me.wtoken
             out == IF Armed(call) THEN 0 ELSE Me.timed_out
             rd == IF MustRegister(dir) THEN dir ELSE Me.ready
  <2>1. PICK f : f = [Me EXCEPT !.op = call, !.ready = rd, !.wtoken = tk, !.timed_out = out]
    OBVIOUS
  <2>2. /\ at = "fiber" /\ Update(p, f) /\ at' = "stepped_out" /\ Me.sock \in SocksFor(call)
        /\ UNCHANGED <<cur, loop, smth, toexec, free_fibers, nfibers, timer_refs, fiber_refs,
                       tomain_fibers, timedout>>
        /\ edge' \subseteq edge \cup {p}
        /\ Me.op = call \/ InFiber(call)
    BY <1>0, <1>6, <2>1 DEF IoBlocks, WouldBlock, InLoop, InFiber, Goto, Registered
  <2>3. rd = dir
    BY DEF MustRegister
  <2> HIDE DEF tk, out, rd
  <2>4. /\ f.func = Me.func /\ f.op = call /\ f.ready = rd /\ f.sock = Me.sock
        /\ f.state = Me.state /\ f.result = Me.result /\ f.parent = Me.parent
        /\ f.children = Me.children
    BY <1>1, <2>1, <2>2 DEF Fiber
  <2>5. Me.sock # "Empty" /\ rd # "none"
    BY <1>6, <2>2, <2>3 DEF SocksFor, Directions
  <2>6. Me.op \in {"user", call} /\ Me.children = <<>>
    BY <1>1, <1>3, <1>6, <2>2 DEF TraitsOK, Blocking, InFiber
  <2> HIDE DEF pollerVars, timerVars, sockVars, OnlyFibers, control, slotVars, outVars, mainVars
  <2>7. InPlace(p, f)
    BY <1>0, <2>2, <2>4, <2>5 DEF InPlace
  <2>8. HereOK(f, at') /\ Inside'
    BY <1>1, <1>6, <2>2, <2>4, <2>5, <2>6 DEF HereOK, TraitsOK, Inside
  <2> QED BY <1>1, <1>2, <1>6, <2>2, <2>4, <2>6, <2>7, <2>8, StaysCalm
<1>7. CASE HandshakeBlocks
  <2> DEFINE tk == IF Armed("handshake") THEN NextToken ELSE Me.wtoken
             out == IF Armed("handshake") THEN 0 ELSE Me.timed_out
  <2>1. PICK f : f = [Me EXCEPT !.op = "handshake", !.sock = "TlsTemp",
                         !.ready = "readable", !.wtoken = tk, !.timed_out = out]
    OBVIOUS
  <2>2. /\ at = "fiber" /\ Update(p, f) /\ at' = "stepped_out" /\ Me.sock = HandshakeSock
        /\ UNCHANGED <<cur, loop, smth, toexec, free_fibers, nfibers, timer_refs, fiber_refs,
                       tomain_fibers, timedout>>
        /\ edge' \subseteq edge \cup {p}
        /\ Me.op = "handshake" \/ InFiber("handshake")
    BY <1>0, <1>7, <2>1 DEF HandshakeBlocks, InLoop, InFiber, Goto
  <2> HIDE DEF tk, out
  <2>3. /\ f.func = Me.func /\ f.op = "handshake" /\ f.ready = "readable" /\ f.sock = "TlsTemp"
        /\ f.state = Me.state /\ f.result = Me.result /\ f.parent = Me.parent
        /\ f.children = Me.children
    BY <1>1, <2>1, <2>2 DEF Fiber
  <2>4. Me.op \in {"user", "handshake"} /\ Me.children = <<>>
    BY <1>1, <1>3, <2>2 DEF TraitsOK, Blocking, InFiber
  <2> HIDE DEF pollerVars, timerVars, sockVars, OnlyFibers, control, slotVars, outVars, mainVars
  <2>5. InPlace(p, f)
    BY <1>0, <2>2, <2>3 DEF InPlace
  <2>6. HereOK(f, at') /\ Inside'
    BY <1>1, <2>2, <2>3, <2>4 DEF HereOK, TraitsOK, Inside
  <2> QED BY <1>1, <1>2, <2>2, <2>3, <2>4, <2>5, <2>6, StaysCalm
<1>8. CASE RespChunk
  <2>1. PICK f : f = [Me EXCEPT !.result = "chunk", !.op = "resp_chunk"]
    OBVIOUS
  <2>2. /\ at = "fiber" /\ Update(p, f) /\ at' = "stepped_out" /\ InFiber("resp_chunk")
        /\ UNCHANGED <<cur, loop, smth, toexec, free_fibers, nfibers, timer_refs, fiber_refs,
                       tomain_fibers, timedout, edge>>
        /\ Me.op = "user"
    BY <1>0, <1>8, <2>1 DEF RespChunk, InFiber, Goto
  <2>3. /\ f.func = Me.func /\ f.op = "resp_chunk" /\ f.ready = Me.ready /\ f.sock = Me.sock
        /\ f.state = Me.state /\ f.result = "chunk" /\ f.parent = Me.parent
        /\ f.children = Me.children
    BY <1>1, <2>1, <2>2 DEF Fiber
  <2>4. Me.children = <<>>
    BY <1>3, <2>2 DEF Blocking
  <2> HIDE DEF pollerVars, timerVars, sockVars, OnlyFibers, control, slotVars, outVars, mainVars
  <2>5. InPlace(p, f)
    BY <1>0, <1>1, <2>2, <2>3 DEF InPlace, MemberOK
  <2>6. HereOK(f, at') /\ Inside'
    BY <1>1, <2>2, <2>3, <2>4 DEF HereOK, TraitsOK, Inside
  <2> QED BY <1>1, <1>2, <2>2, <2>3, <2>5, <2>6, StaysCalm
<1>9. CASE Return
  <2>1. PICK r : Update(p, [Me EXCEPT !.result = r, !.state = "Closed"])
    BY <1>0, <1>9 DEF Return
  <2>2. PICK f : f = [Me EXCEPT !.result = r, !.state = "Closed"]
    OBVIOUS
  <2>3. /\ at = "fiber" /\ Update(p, f) /\ at' = "stepped_out"
        /\ UNCHANGED <<cur, loop, smth, toexec, free_fibers, nfibers, timer_refs, fiber_refs,
                       tomain_fibers, timedout, edge>>
        /\ Me.op = "user" /\ Me.children = <<>>
    BY <1>0, <1>9, <2>1, <2>2 DEF Return, Goto, Families
  <2>4. /\ f.ready = Me.ready /\ f.sock = Me.sock /\ f.state = "Closed" /\ f.parent = Me.parent
        /\ f.children = Me.children
    BY <1>1, <2>2, <2>3 DEF Fiber
  <2> HIDE DEF pollerVars, timerVars, sockVars, OnlyFibers, control, slotVars, outVars, mainVars
  <2>5. InPlace(p, f)
    BY <1>0, <1>1, <2>3, <2>4 DEF InPlace, MemberOK
  <2>6. HereOK(f, at') /\ Inside'
    BY <2>3, <2>4 DEF HereOK, Inside
  <2> QED BY <1>1, <1>2, <2>3, <2>4, <2>5, <2>6, StaysCalm
<1>10. ASSUME NoChildren \/ ChildBlocks PROVE FamilyInv'
  <2>1. PICK o : o = IF at' = "fiber" THEN "user" ELSE "get_child"
    OBVIOUS
  <2>2. PICK f : f = [Me EXCEPT !.op = o]
    OBVIOUS
  <2>3. /\ at = "fiber" /\ Update(p, f) /\ ReadyChildren = {} /\ Me.op \in {"user", "get_child"}
        /\ UNCHANGED <<cur, loop, smth, toexec, free_fibers, nfibers, timer_refs, fiber_refs,
                       tomain_fibers, timedout, edge>>
        /\ (at' = "fiber" /\ o = "user") \/ (at' = "stepped_out" /\ o = "get_child" /\ Me.children # <<>>)
    <3>1. CASE NoChildren
      <4>1. /\ at = "fiber" /\ at' = "fiber" /\ Me.children = <<>> /\ Me.op \in {"user", "get_child"}
            /\ Update(p, [Me EXCEPT !.op = "user"])
            /\ UNCHANGED <<cur, loop, smth, toexec, free_fibers, nfibers, timer_refs, fiber_refs,
                           tomain_fibers, timedout, edge>>
        BY <1>0, <3>1 DEF NoChildren, InLoop, InFiber
      <4>2. ReadyChildren = {}
        BY <4>1 DEF ReadyChildren
      <4> QED BY <2>1, <2>2, <4>1, <4>2
    <3>2. CASE ChildBlocks
      <4>1. /\ at = "fiber" /\ at' = "stepped_out" /\ Me.children # <<>> /\ ReadyChildren = {}
            /\ Me.op \in {"user", "get_child"}
            /\ Update(p, [Me EXCEPT !.op = "get_child"])
            /\ UNCHANGED <<cur, loop, smth, toexec, free_fibers, nfibers, timer_refs, fiber_refs,
                           tomain_fibers, timedout, edge>>
        BY <1>0, <3>2 DEF ChildBlocks, InLoop, InFiber, Goto
      <4> QED BY <2>1, <2>2, <4>1
    <3> QED BY <1>10, <3>1, <3>2
  <2>4. /\ f.func = Me.func /\ f.op = o /\ f.ready = Me.ready /\ f.sock = Me.sock
        /\ f.state = Me.state /\ f.result = Me.result /\ f.parent = Me.parent
        /\ f.children = Me.children
    BY <1>1, <2>2, <2>3 DEF Fiber
  <2> HIDE DEF pollerVars, timerVars, sockVars, OnlyFibers, control, slotVars, outVars, mainVars
  <2>5. InPlace(p, f)
    BY <1>0, <1>1, <2>3, <2>4 DEF InPlace, MemberOK
  <2>6. HereOK(f, at') /\ Inside'
    BY <1>1, <2>3, <2>4 DEF HereOK, TraitsOK, Inside
  <2>7. Calm
    BY <2>3, CalmIfNoneReady
  <2> QED BY <1>1, <2>3, <2>4, <2>5, <2>6, <2>7, StaysCalm
<1>11. /\ ~JoinMain /\ ~HibernateForRead /\ ~HibernateJoinMain
       /\ ~IoReturns("accept", "readable") /\ ~IoBlocks("accept", "readable")
  <2>1. ~InFiber("join_main") /\ ~InFiber("hibernate")
    BY DEF InFiber, Families
  <2>2. ~InLoop("accept")
    BY <1>1 DEF InLoop, InFiber, Families, TraitsOK
  <2> QED BY <2>1, <2>2 DEF JoinMain, HibernateForRead, HibernateJoinMain,
                   IoReturns, IoBlocks, WouldBlock
<1>12. "readable" \in Directions /\ "writable" \in Directions
  BY DEF Directions
<1> QED BY <1>4, <1>5, <1>6, <1>7, <1>8, <1>9, <1>10, <1>11, <1>12 DEF Calls

\* A list of slots that loses one of them.
LEMMA SwapRemoves ==
  ASSUME NEW s \in Seq(Slots), Unique(s), NEW i \in DOMAIN s, NEW t, t = SwapRemoveFront(s, i)
  PROVE  Unique(t) /\ Range(t) = Range(s) \ {s[i]}
<1>1. PICK u : u = [s EXCEPT ![i] = s[1]]
  OBVIOUS
<1>2. /\ Len(s) \in Nat /\ DOMAIN s = 1 .. Len(s) /\ i \in 1 .. Len(s) /\ 1 \in 1 .. Len(s)
  OBVIOUS
<1>3. /\ u \in Seq(Slots) /\ DOMAIN u = 1 .. Len(s) /\ Len(u) = Len(s) /\ u # <<>>
      /\ u[i] = s[1] /\ \A k \in 1 .. Len(s) : k # i => u[k] = s[k]
  BY <1>1, <1>2
<1>4. t = Tail(u)
  BY <1>1 DEF SwapRemoveFront
<1>5. /\ DOMAIN t = 1 .. Len(s) - 1
      /\ \A k \in 1 .. Len(s) - 1 : t[k] = u[k + 1]
  BY <1>2, <1>3, <1>4
<1>6. \A k \in 1 .. Len(s) - 1 : k + 1 \in 1 .. Len(s) /\ k + 1 # 1 /\ k \in Nat
  BY <1>2
<1>7. \A k, l \in DOMAIN s : s[k] = s[l] => k = l
  BY DEF Unique
<1>8. \A k, l \in DOMAIN t : t[k] = t[l] => k = l
  <2> TAKE k, l \in DOMAIN t
  <2>1. k + 1 = l + 1 => k = l
    BY <1>5, <1>6
  <2>2. /\ k + 1 \in 1 .. Len(s) /\ k + 1 # 1 /\ l + 1 \in 1 .. Len(s) /\ l + 1 # 1
        /\ t[k] = u[k + 1] /\ t[l] = u[l + 1]
    BY <1>5, <1>6
  <2>3. PICK a \in DOMAIN s : a = (IF k + 1 = i THEN 1 ELSE k + 1) /\ t[k] = s[a]
    BY <1>2, <1>3, <2>2
  <2>4. PICK b \in DOMAIN s : b = (IF l + 1 = i THEN 1 ELSE l + 1) /\ t[l] = s[b]
    BY <1>2, <1>3, <2>2
  <2>5. a = b => k + 1 = l + 1
    BY <2>2, <2>3, <2>4
  <2> QED BY <1>7, <2>1, <2>3, <2>4, <2>5
<1>9. ASSUME NEW x \in Range(t) PROVE x \in Range(s) /\ x # s[i]
  <2>1. PICK k \in DOMAIN t : t[k] = x
    BY DEF Range
  <2>2. k + 1 \in 1 .. Len(s) /\ k + 1 # 1 /\ x = u[k + 1]
    BY <1>5, <1>6, <2>1
  <2>3. CASE k + 1 = i
    BY <1>2, <1>3, <1>7, <2>2, <2>3 DEF Range
  <2>4. CASE k + 1 # i
    BY <1>2, <1>3, <1>7, <2>2, <2>4 DEF Range
  <2> QED BY <2>3, <2>4
<1>10. ASSUME NEW x \in Range(s), x # s[i] PROVE x \in Range(t)
  <2>1. PICK k \in DOMAIN s : s[k] = x
    BY DEF Range
  <2>2. PICK l \in 1 .. Len(s) : l # 1 /\ u[l] = x
    <3>1. CASE k = 1
      BY <1>2, <1>3, <1>10, <2>1, <3>1
    <3>2. CASE k # 1
      BY <1>2, <1>3, <1>10, <2>1, <3>2
    <3> QED BY <3>1, <3>2
  <2>3. l - 1 \in 1 .. Len(s) - 1 /\ (l - 1) + 1 = l
    BY <1>2, <2>2
  <2>4. t[l - 1] = x /\ l - 1 \in DOMAIN t
    BY <1>5, <2>2, <2>3
  <2> QED BY <2>4 DEF Range
<1> QED BY <1>8, <1>9, <1>10 DEF Unique

\* The child that get_child deals with is the one control came from.
LEMMA TakesPending ==
  ASSUME Families, TypeOK, FamilyInv, NEW i \in DOMAIN Me.children, TakeChild(i),
         NEW p, p = cur, NEW c, c = Me.children[i]
  PROVE  /\ p \in Slots /\ fibers[p] \in Fiber /\ Me = fibers[p] /\ InUse(p) /\ ~Scheduled(p)
         /\ HereOK(fibers[p], "fiber") /\ at = "fiber" /\ Me.op = "get_child"
         /\ fibers[p].state # "Closed" /\ p # None
         /\ c \in Slots /\ c # p /\ InUse(c) /\ ~Scheduled(c) /\ AwayOK(c) /\ Pending(c)
         /\ fibers[c].parent = p /\ fibers[c] \in Fiber
         /\ \A d \in Slots : Pending(d) => d = c
<1>1. at = "fiber" /\ Me.op \in {"user", "get_child"} /\ Deliverable(c)
  BY DEF TakeChild, InLoop, InFiber, ReadyChildren
<1>2. /\ p \in Slots /\ fibers[p] \in Fiber /\ Me = fibers[p] /\ InUse(p) /\ ~Scheduled(p)
      /\ HereOK(fibers[p], "fiber") /\ p # None
  BY <1>1, EnteredMember, NoneApart DEF Inside
<1>3. c \in Range(fibers[p].children) /\ c \in Slots
  BY <1>2 DEF Range, Fiber
<1>4. InUse(c) /\ fibers[c].parent = p /\ c # p /\ fibers[c] \in Fiber
  BY <1>2, <1>3 DEF FamilyInv, TreeInv, ChildrenOK, ParentOK, TypeOK
<1>5. Pending(c)
  BY <1>1, <1>2, <1>4 DEF Pending, Deliverable, Live, HasResult
<1>6. Me.op = "get_child"
  BY <1>1, <1>3, <1>5, CalmElsewhere DEF Calm
<1>7. MemberOK(c) /\ ~Entered(c)
  BY <1>3, <1>4 DEF FamilyInv, Entered
<1>8. AwayOK(c) /\ ~Scheduled(c)
  BY <1>4, <1>5, <1>7 DEF MemberOK, InLineOK, Pending
<1>9. \A d \in Slots : Pending(d) => d = c
  BY <1>3, <1>5 DEF FamilyInv, PendInv
<1>10. fibers[p].state # "Closed"
  BY <1>2 DEF HereOK
<1> QED BY <1>1, <1>2, <1>3, <1>4, <1>5, <1>6, <1>8, <1>9, <1>10

\* The records after Took.
LEMMA TookFields ==
  ASSUME TypeOK, NEW p \in Slots, p = cur, NEW c \in Slots, c # p, NEW f, Took(c, f)
  PROVE  /\ fibers'[p] = f /\ fibers'[c] = [fibers[c] EXCEPT !.result = "none"]
         /\ \A q \in Slots : q # p /\ q # c => fibers'[q] = fibers[q]
<1>1. PICK g : g = [fibers EXCEPT ![p] = f]
  OBVIOUS
<1>2. /\ DOMAIN g = Slots /\ g[p] = f /\ \A q \in Slots : q # p => g[q] = fibers[q]
  BY <1>1 DEF TypeOK
<1>3. PICK h : h = [g[c] EXCEPT !.result = "none"]
  OBVIOUS
<1>4. fibers' = [g EXCEPT ![c] = h]
  BY <1>1, <1>3 DEF Took
<1> QED BY <1>2, <1>3, <1>4

\* A slot is given back: the others are in use as before.
LEMMA GivenBack ==
  ASSUME TypeOK, FreeListOK, NEW p \in Slots, InUse(p), free_fibers' = Append(free_fibers, p),
         UNCHANGED nfibers
  PROVE  FreeListOK' /\ ~InUse(p)' /\ \A q \in Slots : q # p => (InUse(q)' <=> InUse(q))
<1>1. FreeListOK' /\ \A q \in Slots : q # p /\ InUse(q) => InUse(q)'
  BY GivesBack
<1>2. Range(free_fibers') = Range(free_fibers) \cup {p}
  <2>1. free_fibers \in Seq(Slots)
    BY DEF TypeOK
  <2>2. Unique(free_fibers) /\ p \notin Range(free_fibers) /\ p <= nfibers
        /\ \A k \in DOMAIN free_fibers : free_fibers[k] <= nfibers
    BY DEF FreeListOK, InUse
  <2> QED BY <2>1, <2>2, AppendOne
<1> QED BY <1>1, <1>2 DEF InUse

LEMMA TakeChildSound ==
  ASSUME Families, TypeOK, FamilyInv, NEW i \in DOMAIN Me.children, TakeChild(i)
  PROVE  FamilyInv'
<1> USE DEF timerVars, sockVars, outVars, mainVars, control
<1>0. PICK p, c : p = cur /\ c = Me.children[i]
  OBVIOUS
<1>1. /\ p \in Slots /\ fibers[p] \in Fiber /\ Me = fibers[p] /\ InUse(p) /\ ~Scheduled(p)
      /\ HereOK(fibers[p], "fiber") /\ at = "fiber" /\ Me.op = "get_child"
      /\ fibers[p].state # "Closed" /\ p # None
      /\ c \in Slots /\ c # p /\ InUse(c) /\ ~Scheduled(c) /\ AwayOK(c) /\ Pending(c)
      /\ fibers[c].parent = p /\ fibers[c] \in Fiber
      /\ \A d \in Slots : Pending(d) => d = c
  BY <1>0, TakesPending
<1>2. UNCHANGED <<at, cur, loop, smth, timedout, edge, nfibers, fiber_refs, tomain_fibers>>
  BY DEF TakeChild
<1>3. PICK o : o = IF HasResult(c) THEN "user" ELSE "get_child"
  OBVIOUS
<1>4. PICK h : h = [fibers[c] EXCEPT !.result = "none"]
  OBVIOUS
<1>5. /\ h.func = fibers[c].func /\ h.op = fibers[c].op /\ h.param = fibers[c].param
      /\ h.ready = fibers[c].ready /\ h.sock = fibers[c].sock /\ h.state = fibers[c].state
      /\ h.result = "none" /\ h.parent = p /\ h.children = fibers[c].children
      /\ h.stack = fibers[c].stack
  BY <1>1, <1>4 DEF Fiber
<1>6. Phase
  BY <1>1, <1>2 DEF Phase, Late, Inside
<1>7. ControlOK' /\ tomain_fibers' = <<>> /\ Unique(toexec) /\ FreeListOK /\ Entered(p)' /\ ~Entered(c)'
      /\ loop = "toexec"
  BY <1>0, <1>1, <1>2 DEF ControlOK, FamilyInv, ListsOK, Inside, Entered
<1>8. MemberOK(p) /\ MemberOK(c) /\ TreeInv
  BY <1>1 DEF FamilyInv
<1>9. CASE Live(c)
  <2>1. PICK f : f = [Me EXCEPT !.op = o]
    OBVIOUS
  <2>2. push_toexec(c) /\ Took(c, f) /\ UNCHANGED free_fibers
    BY <1>0, <1>3, <1>9, <2>1 DEF TakeChild
  <2> HIDE DEF timerVars, sockVars, outVars, mainVars, control
  <2>3. /\ fibers'[p] = f /\ fibers'[c] = h
        /\ \A q \in Slots : q # p /\ q # c => fibers'[q] = fibers[q]
    BY <1>0, <1>1, <1>4, <2>2, TookFields
  <2>4. /\ f.func = Me.func /\ f.op = o /\ f.ready = Me.ready /\ f.sock = Me.sock
        /\ f.state = Me.state /\ f.result = Me.result /\ f.parent = Me.parent
        /\ f.children = Me.children
    BY <1>1, <2>1 DEF Fiber
  <2>5. Unique(toexec)' /\ \A q : Scheduled(q)' <=> Scheduled(q) \/ q = c
    BY <1>1, <1>7, <2>2, PushesOne
  <2>6. \A q \in Slots : InUse(q)' <=> InUse(q)
    BY <1>2, <2>2 DEF InUse
  <2>7. \A q \in Slots : q # p /\ q # c => Aside(q)
    BY <1>2, <2>3, <2>5, <2>6 DEF Aside
  <2>8. HasResult(c) /\ fibers[c].op = "resp_chunk" /\ TraitsOK(fibers[c])
    BY <1>1, <1>9 DEF Pending, Live, HasResult, AwayOK, TraitsOK
  <2>9. MemberOK(c)'
    <3>1. AwayOK(c)'
      BY <1>5, <1>9, <2>3, <2>5, <2>8 DEF AwayOK, TraitsOK, Live
    <3>2. InLineOK(c)'
      <4>1. ~Late' /\ at' # "events"
        BY <1>1, <1>2, <1>7 DEF Late, Inside
      <4> QED BY <1>1, <1>5, <1>7, <1>9, <2>3, <2>6, <2>8, <4>1 DEF InLineOK, Live
    <3> QED BY <1>1, <1>2, <1>5, <1>7, <1>8, <2>3, <2>6, <3>1, <3>2 DEF MemberOK
  <2>10. MemberOK(p)'
    <3>1. HereOK(f, "fiber")
      BY <1>1, <1>3, <2>4, <2>8 DEF HereOK, TraitsOK
    <3> QED BY <1>1, <1>2, <1>7, <1>8, <2>3, <2>4, <2>5, <2>6, <3>1 DEF MemberOK
  <2>11. TreeInv'
    <3>1. \A q \in Slots : /\ fibers'[q].parent = fibers[q].parent
                           /\ fibers'[q].children = fibers[q].children
                           /\ InUse(q)' <=> InUse(q)
      BY <1>1, <1>5, <2>3, <2>4, <2>6
    <3> QED BY <1>8, <3>1, TreeStays
  <2>12. PendInv'
    <3>1. ~Pending(c)'
      BY <1>5, <1>9, <2>3 DEF Pending, Live
    <3>2. ~Pending(p)'
      BY <1>1, <2>3, <2>4, <2>6 DEF Pending, HereOK
    <3>3. ASSUME NEW q \in Slots, q # p, q # c PROVE ~Pending(q)'
      BY <1>1, <2>3, <2>6, <3>3 DEF Pending
    <3> QED BY <3>1, <3>2, <3>3 DEF PendInv
  <2>13. ListsOK'
    BY <1>2, <1>7, <2>2, <2>5 DEF ListsOK, FreeListOK, Unique
  <2> QED BY <1>1, <1>6, <1>7, <2>7, <2>9, <2>10, <2>11, <2>12, <2>13, TwoMembers
<1>10. CASE ~Live(c)
  <2>1. PICK kids : kids = SwapRemoveFront(Me.children, i)
    OBVIOUS
  <2>2. PICK f : f = [Me EXCEPT !.op = o, !.children = kids]
    OBVIOUS
  <2>3. Took(c, f) /\ free_fibers' = Append(free_fibers, c) /\ toexec' = toexec
    BY <1>0, <1>3, <1>10, <2>1, <2>2 DEF TakeChild
  <2> HIDE DEF timerVars, sockVars, outVars, mainVars, control
  <2>4. /\ fibers'[p] = f /\ fibers'[c] = h
        /\ \A q \in Slots : q # p /\ q # c => fibers'[q] = fibers[q]
    BY <1>0, <1>1, <1>4, <2>3, TookFields
  <2>5. /\ f.func = Me.func /\ f.op = o /\ f.ready = Me.ready /\ f.sock = Me.sock
        /\ f.state = Me.state /\ f.result = Me.result /\ f.parent = Me.parent
        /\ f.children = kids
    BY <1>1, <2>2 DEF Fiber
  <2>6. Unique(kids) /\ Range(kids) = Range(fibers[p].children) \ {c}
    <3>1. Unique(Me.children) /\ Me.children \in Seq(Slots)
      BY <1>1, <1>8 DEF TreeInv, ChildrenOK, Fiber
    <3> QED BY <1>0, <1>1, <2>1, <3>1, SwapRemoves
  <2>7. /\ FreeListOK' /\ ~InUse(c)' /\ \A q \in Slots : q # c => (InUse(q)' <=> InUse(q))
    BY <1>1, <1>2, <1>7, <2>3, GivenBack
  <2>8. \A q \in Slots : Scheduled(q)' <=> Scheduled(q)
    BY <2>3 DEF Scheduled
  <2>9. \A q \in Slots : q # p /\ q # c => Aside(q)
    BY <1>2, <2>4, <2>7, <2>8 DEF Aside
  <2>10. /\ h.children = <<>> /\ h.stack = None /\ h.sock = "Empty" /\ h.state = "Closed"
         /\ fibers[c].children = <<>>
    BY <1>1, <1>5, <1>10 DEF AwayOK, Live
  <2>11. MemberOK(c)'
    BY <1>1, <1>2, <1>5, <1>7, <1>8, <2>4, <2>7, <2>8, <2>10 DEF MemberOK, Vacated
  <2>12. MemberOK(p)'
    <3>1. HereOK(f, "fiber")
      BY <1>1, <1>3, <2>5 DEF HereOK, TraitsOK
    <3> QED BY <1>1, <1>2, <1>7, <1>8, <2>4, <2>5, <2>7, <2>8, <3>1 DEF MemberOK
  <2>13. TreeInv'
    <3>1. ASSUME NEW q \in Slots, q # p
          PROVE  c \notin Range(fibers[q].children)
      BY <1>1, <1>8, <3>1 DEF TreeInv, ChildrenOK
    <3>2. ASSUME NEW q \in Slots, InUse(q) PROVE fibers[q].parent # c
      <4>1. Range(fibers[c].children) = {}
        BY <2>10 DEF Range
      <4>2. c # None
        BY <1>1, NoneApart
      <4> QED BY <1>8, <3>2, <4>1, <4>2 DEF TreeInv, ParentOK
    <3>3. ChildrenOK(c)' /\ ParentOK(c)'
      <4>1. Range(h.children) = {} /\ DOMAIN h.children = {}
        BY <2>10 DEF Range
      <4> QED BY <2>4, <2>7, <4>1 DEF ChildrenOK, ParentOK, Unique
    <3>4. ChildrenOK(p)'
      <4>0. \A d \in Range(fibers[p].children) : d \in Slots
        BY <1>1 DEF Fiber, Range
      <4>1. \A d \in Range(kids) : d \in Slots /\ d # c /\ d # p /\ InUse(d) /\ fibers[d].parent = p
        BY <1>1, <1>8, <2>6, <4>0 DEF TreeInv, ChildrenOK, ParentOK
      <4> QED BY <2>4, <2>5, <2>6, <2>7, <4>1 DEF ChildrenOK
    <3>5. ParentOK(p)'
      <4>1. ParentOK(p) /\ fibers[p].parent # c /\ fibers[p].parent \in Slots \cup {None}
        BY <1>1, <1>8, <3>2 DEF TreeInv, Fiber
      <4> QED BY <1>1, <2>4, <2>5, <2>7, <4>1 DEF ParentOK
    <3>6. ASSUME NEW q \in Slots, q # p, q # c PROVE ChildrenOK(q)' /\ ParentOK(q)'
      <4>1. ChildrenOK(q) /\ ParentOK(q) /\ fibers[q] \in Fiber /\ fibers'[q] = fibers[q]
        BY <1>8, <2>4, <3>6 DEF TreeInv, TypeOK
      <4>2. \A d \in Range(fibers[q].children) : d \in Slots /\ d # c
        BY <3>1, <3>6, <4>1 DEF Fiber, Range
      <4>3. ChildrenOK(q)'
        BY <1>1, <1>5, <2>4, <2>5, <2>7, <4>1, <4>2 DEF ChildrenOK
      <4>4. fibers[q].parent \in Slots \cup {None}
        BY <4>1 DEF Fiber
      <4>5. ParentOK(q)'
        BY <2>4, <2>5, <2>6, <2>7, <3>2, <3>6, <4>1, <4>4 DEF ParentOK
      <4> QED BY <4>3, <4>5
    <3> QED BY <3>3, <3>4, <3>5, <3>6 DEF TreeInv
  <2>14. PendInv'
    <3>1. ~Pending(c)'
      BY <2>7 DEF Pending
    <3>2. ~Pending(p)'
      BY <1>1, <2>4, <2>5 DEF Pending, HereOK
    <3>3. ASSUME NEW q \in Slots, q # p, q # c PROVE ~Pending(q)'
      BY <1>1, <2>4, <2>7, <3>3 DEF Pending
    <3> QED BY <3>1, <3>2, <3>3 DEF PendInv
  <2>15. ListsOK'
    BY <1>2, <1>7, <2>3, <2>7 DEF ListsOK, Unique
  <2> QED BY <1>1, <1>6, <1>7, <2>9, <2>11, <2>12, <2>13, <2>14, <2>15, TwoMembers
<1> QED BY <1>9, <1>10

-----------------------------------------------------------------------------
(* Context switches.                                                       *)

\* Control goes deeper into p, which keeps its family; if it came there for a
\* child, it is still going to take it.
LEMMA GoesDeeper ==
  ASSUME TypeOK, FamilyInv, at \in {"step_into", "resumed"}, at' \in {"resumed", "fiber"},
         NEW p, NEW f, InPlace(p, f),
         f.parent = fibers[p].parent, f.children = fibers[p].children, HereOK(f, at'),
         fibers[p].op = "get_child" => f.op = "get_child"
  PROVE  FamilyInv'
<1>1. p = cur /\ p \in Slots /\ InUse(p) /\ Inside /\ Inside' /\ cur' = cur
  BY EnteredMember DEF InPlace, Inside
<1>2. fibers'[p] = f /\ \A q \in Slots : q # p => fibers'[q] = fibers[q]
  BY <1>1 DEF InPlace, Update, TypeOK
<1>3. \A q \in Slots : InUse(q)' <=> InUse(q)
  BY DEF InPlace, InUse
<1>4. ~Pending(p)'
  BY <1>2 DEF Pending, HereOK
<1>5. ASSUME NEW q \in Slots, Pending(q)'
      PROVE  q # p /\ Pending(q) /\ fibers'[q].parent = p /\ Taker(p)'
  <2>1. q # p /\ fibers'[q] = fibers[q] /\ Pending(q)
    BY <1>2, <1>3, <1>4, <1>5 DEF Pending
  <2>2. PICK r : r = fibers[q].parent
    OBVIOUS
  <2>3. Taker(r)
    BY <2>1, <2>2 DEF FamilyInv, PendInv, In
  <2>4. r = p /\ fibers[p].op = "get_child"
    BY <1>1, <2>3 DEF Taker
  <2> QED BY <1>1, <1>2, <2>1, <2>2, <2>4 DEF Taker
<1>6. PendInv'
  <2>1. ASSUME NEW c \in Slots, Pending(c)' PROVE In(c, "stepped_out")' \/ Taker(fibers[c].parent)'
    <3>1. fibers'[c].parent = p /\ Taker(p)'
      BY <1>5, <2>1
    <3> QED BY <3>1 DEF Taker
  <2>2. ASSUME NEW c \in Slots, NEW d \in Slots, Pending(c)', Pending(d)' PROVE c = d
    <3>1. Pending(c) /\ Pending(d)
      BY <1>5, <2>2
    <3> QED BY <3>1 DEF FamilyInv, PendInv
  <2> QED BY <2>1, <2>2 DEF PendInv
<1> QED BY <1>1, <1>6, StaysMember

LEMMA ResumesFamily ==
  ASSUME Families, TypeOK, FamilyInv, StepInto \/ Start \/ ResumeIo \/ ResumeJoinMain \/ Resume
  PROVE  FamilyInv'
<1> USE DEF pollerVars, timerVars, sockVars, OnlyFibers, slotVars, outVars, mainVars
<1>0. PICK p : p = cur
  OBVIOUS
<1>1. /\ at \in {"step_into", "resumed"} /\ Inside
      /\ UNCHANGED <<cur, loop, smth, toexec, free_fibers, nfibers, timer_refs, fiber_refs,
                     tomain_fibers, timedout, edge>>
  BY DEF StepInto, Start, ResumeIo, ResumeJoinMain, Resume, Goto, Inside
<1>2. /\ p \in Slots /\ fibers[p] \in Fiber /\ Me = fibers[p] /\ MemberOK(p)
      /\ HereOK(Me, at) /\ TraitsOK(Me) /\ Me.state # "Closed" /\ Me.result = "none"
      /\ Me.op # "user" /\ (Me.op = "get_child" => Me.children # <<>>)
  BY <1>0, <1>1, EnteredMember DEF HereOK
<1>3. ASSUME NEW f, Update(p, f), f.sock = Me.sock, f.ready = Me.ready PROVE InPlace(p, f)
  BY <1>0, <1>1, <1>2, <1>3 DEF InPlace, MemberOK
<1>4. CASE StepInto
  <2>1. Me.func
    BY <1>2 DEF TraitsOK
  <2>2. \E f : /\ Update(p, f) /\ Alike(f, Me) /\ f.state = Me.state /\ f.param = Me.param
               /\ f.result = Me.result /\ f.children = Me.children
    <3>1. CASE Me.stack = None
      <4>1. PICK f : f = [Me EXCEPT !.stack = PoppedStack(StacksInUse)]
        OBVIOUS
      <4>2. Update(p, f)
        BY <1>0, <1>4, <2>1, <3>1, <4>1 DEF StepInto
      <4>3. /\ Alike(f, Me) /\ f.state = Me.state /\ f.param = Me.param /\ f.result = Me.result
            /\ f.children = Me.children
        BY <1>2, <4>1 DEF Alike, Fiber
      <4> QED BY <4>2, <4>3
    <3>2. CASE Me.stack # None
      <4>1. UNCHANGED fibers
        BY <1>4, <2>1, <3>2 DEF StepInto
      <4>2. Update(p, Me) /\ Alike(Me, Me)
        BY <1>2, <4>1 DEF Update, Alike, TypeOK
      <4> QED BY <4>2
    <3> QED BY <3>1, <3>2
  <2>3. PICK f : /\ Update(p, f) /\ Alike(f, Me) /\ f.state = Me.state /\ f.param = Me.param
                 /\ f.result = Me.result /\ f.children = Me.children
    BY <2>2
  <2>4. at' = "resumed"
    BY <1>4, <2>1 DEF StepInto, Goto
  <2> HIDE DEF pollerVars, timerVars, sockVars, OnlyFibers, slotVars, outVars, mainVars
  <2>5. InPlace(p, f) /\ HereOK(f, at')
    BY <1>2, <1>3, <2>3, <2>4 DEF HereOK, TraitsOK, Alike
  <2> QED BY <1>1, <1>2, <2>3, <2>4, <2>5, GoesDeeper DEF Alike
<1>5. CASE Start
  <2>1. PICK f : f = [Me EXCEPT !.state = "Stacked", !.param = FALSE, !.op = "user"]
    OBVIOUS
  <2>2. Update(p, f) /\ Me.op = "start" /\ at = "resumed" /\ at' = IF Me.param THEN "fiber" ELSE "panic"
    BY <1>0, <1>5, <2>1 DEF Start, Goto
  <2>3. /\ f.sock = Me.sock /\ f.ready = Me.ready /\ f.func = Me.func /\ f.op = "user"
        /\ f.state = "Stacked" /\ f.result = Me.result /\ f.parent = Me.parent
        /\ f.children = Me.children
    BY <1>2, <2>1 DEF Fiber
  <2>4. at' = "fiber"
    BY <1>2, <2>2 DEF TraitsOK
  <2> HIDE DEF pollerVars, timerVars, sockVars, OnlyFibers, slotVars, outVars, mainVars
  <2>5. InPlace(p, f) /\ HereOK(f, at')
    BY <1>2, <1>3, <2>2, <2>3, <2>4 DEF HereOK, TraitsOK
  <2> QED BY <1>1, <1>2, <2>2, <2>3, <2>4, <2>5, GoesDeeper
<1>6. CASE ResumeIo
  <2>1. PICK o : o = IF Me.timed_out > 0 THEN "user" ELSE Me.op
    OBVIOUS
  <2>2. PICK f : f = [Me EXCEPT !.wtoken = None, !.timed_out = 0, !.op = o]
    OBVIOUS
  <2>3. /\ Update(p, f) /\ Me.op \in {"read", "write", "handshake"} /\ at = "resumed" /\ at' = "fiber"
    BY <1>0, <1>6, <2>1, <2>2 DEF ResumeIo, Goto
  <2>4. /\ f.sock = Me.sock /\ f.ready = Me.ready /\ f.func = Me.func /\ f.op = o
        /\ f.state = Me.state /\ f.result = Me.result /\ f.parent = Me.parent
        /\ f.children = Me.children
    BY <1>2, <2>2 DEF Fiber
  <2>5. o \in {"user", Me.op}
    BY <2>1
  <2> HIDE DEF pollerVars, timerVars, sockVars, OnlyFibers, slotVars, outVars, mainVars
  <2>6. InPlace(p, f) /\ HereOK(f, at')
    BY <1>2, <1>3, <2>3, <2>4, <2>5 DEF HereOK, TraitsOK
  <2> QED BY <1>1, <1>2, <2>3, <2>4, <2>6, GoesDeeper
<1>7. CASE Resume
  <2>1. PICK o : o = IF Me.op = "resp_chunk" THEN "user" ELSE Me.op
    OBVIOUS
  <2>2. PICK f : f = [Me EXCEPT !.op = o]
    OBVIOUS
  <2>3. Update(p, f) /\ Me.op \in {"resp_chunk", "get_child"} /\ at = "resumed" /\ at' = "fiber"
    BY <1>0, <1>2, <1>7, <2>1, <2>2 DEF Resume, Goto, TraitsOK
  <2>4. /\ f.sock = Me.sock /\ f.ready = Me.ready /\ f.func = Me.func /\ f.op = o
        /\ f.state = Me.state /\ f.result = Me.result /\ f.parent = Me.parent
        /\ f.children = Me.children
    BY <1>2, <2>2 DEF Fiber
  <2> HIDE DEF pollerVars, timerVars, sockVars, OnlyFibers, slotVars, outVars, mainVars
  <2>5. InPlace(p, f) /\ HereOK(f, at')
    BY <1>2, <1>3, <2>1, <2>3, <2>4 DEF HereOK, TraitsOK
  <2> QED BY <1>1, <1>2, <2>1, <2>3, <2>4, <2>5, GoesDeeper
<1>8. ~ResumeJoinMain
  BY <1>2 DEF ResumeJoinMain, TraitsOK
<1> QED BY <1>4, <1>5, <1>6, <1>7, <1>8

\* What unstack leaves of a fiber.
LEMMA UnstackedMember ==
  ASSUME TypeOK, NEW p \in Slots, NEW u, u = Unstacked(p)
  PROVE  /\ u \in Fiber /\ (fibers[p].state = "Stacked" => u = fibers[p])
         /\ (fibers[p].state # "Stacked" => u.stack = None)
         /\ u.state = fibers[p].state /\ u.func = fibers[p].func /\ u.sock = fibers[p].sock
         /\ u.ready = fibers[p].ready /\ u.parent = fibers[p].parent
         /\ u.children = fibers[p].children /\ u.result = fibers[p].result
<1>1. PICK g, h : g = fibers[p] /\ h = [g EXCEPT !.stack = None, !.op = "start"]
  OBVIOUS
<1>2. g \in Fiber
  BY <1>1 DEF TypeOK
<1>3. /\ h \in Fiber /\ h.stack = None
      /\ h.state = g.state /\ h.func = g.func /\ h.sock = g.sock /\ h.ready = g.ready
      /\ h.parent = g.parent /\ h.children = g.children /\ h.result = g.result
  BY <1>1, <1>2 DEF Fiber, Ops
<1>4. u = IF g.state # "Stacked" /\ g.stack # None THEN h ELSE g
  BY <1>1 DEF Unstacked, Unstacks
<1> QED BY <1>1, <1>2, <1>3, <1>4

\* A fiber that control is not in and that has a child waits in get_child.
LEMMA WaitsForChild ==
  ASSUME TypeOK, FamilyInv, NEW p \in Slots, InUse(p), NEW r, r = fibers[p].parent, r # None, cur = p
  PROVE  /\ r \in Slots /\ r # p /\ InUse(r) /\ ~Entered(r) /\ ~Scheduled(r) /\ MemberOK(r)
         /\ fibers[r].op = "get_child" /\ HereOK(fibers[r], "step_into")
<1>1. fibers[p] \in Fiber /\ ParentOK(p)
  BY DEF TypeOK, FamilyInv, TreeInv
<1>2. r \in Slots /\ r # p /\ p \in Range(fibers[r].children)
  BY <1>1 DEF ParentOK, Fiber
<1>3. fibers[r].children # <<>>
  BY <1>2 DEF Range
<1>4. MemberOK(r) /\ ~Entered(r)
  BY <1>2 DEF FamilyInv, Entered
<1>5. InUse(r) /\ AwayOK(r)
  BY <1>3, <1>4 DEF MemberOK, Vacated
<1>6. /\ fibers[r].state # "Closed" /\ TraitsOK(fibers[r]) /\ fibers[r].op = "get_child"
      /\ fibers[r].result = "none"
  BY <1>3, <1>5 DEF AwayOK, TraitsOK
<1>7. ~Scheduled(r)
  BY <1>4, <1>6 DEF MemberOK, InLineOK
<1>8. HereOK(fibers[r], "step_into")
  BY <1>3, <1>6 DEF HereOK
<1> QED BY <1>2, <1>4, <1>5, <1>6, <1>7, <1>8

\* Control goes from the child p, which becomes f, to its parent r.
ToParent(p, f, r) ==
    /\ p = cur /\ at = "stepped_out" /\ r = fibers[p].parent /\ r # None
    /\ EnterFiber(r) /\ Update(p, f)
    /\ UNCHANGED <<toexec, free_fibers, nfibers, fiber_refs, tomain_fibers, timedout, smth>>
    /\ edge' \subseteq edge
    /\ p \in edge' => f.sock # "Empty" /\ f.ready # "none"

LEMMA ToParentSound ==
  ASSUME TypeOK, FamilyInv, NEW p, NEW f, NEW r, ToParent(p, f, r),
         f.parent = fibers[p].parent, f.children = fibers[p].children, AwayOK(p)'
  PROVE  FamilyInv'
<1>1. /\ p \in Slots /\ MemberOK(p) /\ InUse(p) /\ ~Scheduled(p) /\ loop = "toexec" /\ cur = p
  BY EnteredMember DEF ToParent, Inside
<1>2. /\ r \in Slots /\ r # p /\ InUse(r) /\ ~Entered(r) /\ ~Scheduled(r) /\ MemberOK(r)
      /\ fibers[r].op = "get_child" /\ HereOK(fibers[r], "step_into")
  BY <1>1, WaitsForChild DEF ToParent
<1>3. fibers'[p] = f /\ \A q \in Slots : q # p => fibers'[q] = fibers[q]
  BY <1>1 DEF ToParent, Update, TypeOK
<1>4. at' = "step_into" /\ cur' = r /\ loop' = loop
  BY DEF ToParent, EnterFiber
<1>5. \A q \in Slots : (InUse(q)' <=> InUse(q)) /\ (Scheduled(q)' <=> Scheduled(q))
  BY DEF ToParent, InUse, Scheduled
<1>6. \A q \in Slots : q # p /\ q # r => ~Entered(q) /\ ~Entered(q)'
  BY <1>1, <1>4 DEF Entered
<1>7. \A q \in Slots : q # p /\ q # r => Aside(q)
  BY <1>3, <1>5, <1>6 DEF Aside, ToParent
<1>8. Phase
  BY <1>1, <1>4 DEF Phase, Late, Inside, ToParent
<1>9. MemberOK(p)'
  <2>1. ~Entered(p)'
    BY <1>2, <1>4 DEF Entered
  <2> QED BY <1>1, <1>3, <1>5, <2>1 DEF MemberOK, ToParent
<1>10. MemberOK(r)'
  <2>1. Entered(r)'
    BY <1>4 DEF Entered
  <2> QED BY <1>2, <1>3, <1>4, <1>5, <2>1 DEF MemberOK, ToParent
<1>11. TreeInv'
  <2>1. TreeInv
    BY DEF FamilyInv
  <2> QED BY <1>3, <1>5, <2>1, TreeStays
<1>12. PendInv'
  <2>1. ASSUME NEW q \in Slots, q # p PROVE ~Pending(q)'
    <3>1. fibers'[q] = fibers[q] /\ (Pending(q)' => Pending(q))
      BY <1>3, <1>5, <2>1 DEF Pending
    <3>2. PICK s : s = fibers[q].parent
      OBVIOUS
    <3>3. Pending(q) => In(q, "stepped_out") \/ Taker(s)
      BY <3>2 DEF FamilyInv, PendInv
    <3> QED BY <1>1, <2>1, <3>1, <3>3 DEF In, Taker, ToParent
  <2>2. Taker(r)'
    BY <1>2, <1>3, <1>4 DEF Taker
  <2>3. fibers'[p].parent = r
    BY <1>3 DEF ToParent
  <2>4. Taker(fibers[p].parent)'
    BY <2>2, <2>3 DEF Taker
  <2> QED BY <2>1, <2>4 DEF PendInv
<1>13. ListsOK' /\ ControlOK'
  BY <1>1, <1>4 DEF ListsOK, ControlOK, FamilyInv, ToParent, FreeListOK, Unique, Inside
<1> QED BY <1>1, <1>2, <1>7, <1>8, <1>9, <1>10, <1>11, <1>12, <1>13, TwoMembers

\* Control goes back to the loop of run() from p, which becomes f: it waits, or
\* its slot is given back.
LEMMA LeavesMember ==
  ASSUME TypeOK, FamilyInv, Calm, NEW p, NEW f, BackInLoop(p, f), FreeListOK', Unique(toexec)',
         \A q \in Slots : q # p => (Scheduled(q)' <=> Scheduled(q)) /\ (InUse(q)' <=> InUse(q)),
         f.parent = fibers[p].parent, f.children = fibers[p].children,
         IF InUse(p)' THEN AwayOK(p)' /\ f.state # "Closed" /\ f.result = "none"
                      ELSE Vacated(f) /\ f.parent = None /\ ~Scheduled(p)',
         Scheduled(p)' => f.op # "get_child"
  PROVE  FamilyInv'
<1>1. /\ p \in Slots /\ fibers[p] \in Fiber /\ MemberOK(p) /\ InUse(p) /\ ~Scheduled(p)
      /\ loop = "toexec" /\ cur = p
  BY EnteredMember DEF BackInLoop, Inside
<1>2. fibers'[p] = f /\ \A q \in Slots : q # p => fibers'[q] = fibers[q]
  BY <1>1 DEF BackInLoop, Update, TypeOK
<1>3. at' = "toexec" /\ cur' = cur /\ loop' = "toexec"
  BY <1>1 DEF BackInLoop, Goto
<1>4. \A q \in Slots : ~Entered(q)' /\ (q # p => ~Entered(q))
  BY <1>1, <1>3 DEF Entered
<1>5. \A q \in Slots : q # p => Aside(q)
  BY <1>2, <1>4 DEF Aside, BackInLoop
<1>6. ~Late' /\ at' # "events"
  BY <1>3 DEF Late, Inside
<1>7. Phase
  BY <1>6 DEF Phase
<1>8. MemberOK(p)'
  <2>1. Scheduled(p)' => InLineOK(p)'
    BY <1>1, <1>2, <1>4, <1>6 DEF InLineOK
  <2> QED BY <1>1, <1>2, <1>4, <2>1 DEF MemberOK, BackInLoop
<1>9. ListsOK' /\ ControlOK'
  BY <1>3 DEF ListsOK, ControlOK, FamilyInv, BackInLoop, Inside
<1>10. TreeInv'
  <2>1. TreeInv
    BY DEF FamilyInv
  <2>2. CASE InUse(p)'
    <3>1. \A q \in Slots : /\ fibers'[q].parent = fibers[q].parent
                           /\ fibers'[q].children = fibers[q].children
                           /\ InUse(q)' <=> InUse(q)
      BY <1>1, <1>2, <2>2
    <3> QED BY <2>1, <3>1, TreeStays
  <2>3. CASE ~InUse(p)'
    <3>1. f.children = <<>> /\ f.parent = None
      BY <2>3 DEF Vacated
    <3>2. Range(f.children) = {} /\ DOMAIN f.children = {}
      BY <3>1 DEF Range
    <3>3. ChildrenOK(p)' /\ ParentOK(p)'
      BY <1>2, <2>3, <3>2 DEF ChildrenOK, ParentOK, Unique
    <3>4. ASSUME NEW q \in Slots, q # p PROVE ChildrenOK(q)' /\ ParentOK(q)'
      <4>1. ChildrenOK(q) /\ ParentOK(q) /\ fibers[q] \in Fiber /\ fibers'[q] = fibers[q]
            /\ (InUse(q)' <=> InUse(q)) /\ q # None /\ p # None
        BY <1>1, <1>2, <2>1, <3>4, NoneApart DEF TreeInv, TypeOK
      <4>0. \A c \in Range(fibers[q].children) : c \in Slots
        BY <4>1 DEF Fiber, Range
      <4>2. \A c \in Range(fibers[q].children) : c \in Slots /\ c # p
        BY <3>1, <4>0, <4>1 DEF ChildrenOK
      <4>3. InUse(q) => fibers[q].parent # p
        BY <3>2, <4>1 DEF ParentOK
      <4>4. fibers[q].parent \in Slots \cup {None}
        BY <4>1 DEF Fiber
      <4>5. ChildrenOK(q)'
        BY <1>2, <4>1, <4>2 DEF ChildrenOK
      <4>6. ParentOK(q)'
        BY <1>2, <4>1, <4>3, <4>4 DEF ParentOK
      <4> QED BY <4>5, <4>6
    <3> QED BY <3>3, <3>4 DEF TreeInv
  <2> QED BY <2>2, <2>3
<1>11. PendInv'
  <2>1. ~Pending(p)'
    BY <1>2 DEF Pending
  <2>2. ASSUME NEW q \in Slots, q # p PROVE ~Pending(q)'
    BY <1>2, <2>2 DEF Calm, Pending
  <2> QED BY <2>1, <2>2 DEF PendInv
<1> QED BY <1>1, <1>5, <1>7, <1>8, <1>9, <1>10, <1>11, OneMember

LEMMA StepsOutFamily ==
  ASSUME Families, TypeOK, FamilyInv,
         ClosedChild \/ ClosedOrphan \/ ChunkToParent \/ ChunkToMain \/ Waits
  PROVE  FamilyInv'
<1> USE DEF pollerVars, timerVars, sockVars, slotVars, outVars, mainVars
<1>0. PICK p : p = cur
  OBVIOUS
<1>1. /\ at = "stepped_out" /\ Inside
      /\ UNCHANGED <<timer_refs, fiber_refs, smth, timedout, nfibers, tomain_fibers>>
  BY DEF ClosedChild, ClosedOrphan, ChunkToParent, ChunkToMain, Waits, Inside
<1>2. /\ p \in Slots /\ fibers[p] \in Fiber /\ Me = fibers[p] /\ MemberOK(p)
      /\ InUse(p) /\ ~Scheduled(p) /\ HereOK(Me, "stepped_out")
  BY <1>0, <1>1, EnteredMember
<1>3. ListsOK /\ Unique(toexec) /\ FreeListOK
  BY DEF FamilyInv, ListsOK
<1>4. PICK u : u = Unstacked(p)
  OBVIOUS
<1>5. /\ u \in Fiber /\ (Me.state = "Stacked" => u = Me) /\ (Me.state # "Stacked" => u.stack = None)
      /\ u.state = Me.state /\ u.func = Me.func /\ u.sock = Me.sock /\ u.ready = Me.ready
      /\ u.parent = Me.parent /\ u.children = Me.children /\ u.result = Me.result
  BY <1>2, <1>4, UnstackedMember
<1>6. Me.state # "Closed" => TraitsOK(Me) /\ u = Me
  BY <1>2, <1>5 DEF HereOK, TraitsOK
<1>7. CASE ClosedChild
  <2>1. PICK f, r : f = [u EXCEPT !.sock = "Empty"] /\ r = Me.parent
    OBVIOUS
  <2>2. /\ Update(p, f) /\ EnterFiber(r) /\ edge' = edge \ {p} /\ r # None /\ Me.state = "Closed"
        /\ UNCHANGED <<toexec, free_fibers>>
    BY <1>0, <1>2, <1>4, <1>7, <2>1 DEF ClosedChild, SocketDropped, Live
  <2> HIDE DEF pollerVars, timerVars, sockVars, slotVars, outVars, mainVars
  <2>3. /\ f.state = "Closed" /\ f.sock = "Empty" /\ f.children = Me.children /\ f.stack = None
        /\ f.parent = Me.parent
    BY <1>5, <2>1, <2>2 DEF Fiber
  <2>4. ToParent(p, f, r)
    BY <1>0, <1>1, <1>2, <2>1, <2>2 DEF ToParent
  <2>5. fibers'[p] = f
    BY <1>2, <2>2 DEF Update, TypeOK
  <2>6. AwayOK(p)'
    BY <1>2, <2>1, <2>2, <2>3, <2>5 DEF AwayOK, HereOK
  <2> QED BY <1>2, <2>3, <2>4, <2>6, ToParentSound
<1>8. CASE ChunkToParent
  <2>1. PICK r : r = Me.parent
    OBVIOUS
  <2>2. /\ Update(p, u) /\ EnterFiber(r) /\ r # None /\ Me.state # "Closed" /\ Me.result # "none"
        /\ UNCHANGED <<toexec, free_fibers, edge>>
    BY <1>0, <1>2, <1>4, <1>8, <2>1 DEF ChunkToParent, Live, HasResult
  <2> HIDE DEF pollerVars, timerVars, sockVars, slotVars, outVars, mainVars
  <2>3. ToParent(p, u, r)
    BY <1>0, <1>1, <1>2, <1>6, <2>1, <2>2 DEF ToParent, MemberOK
  <2>4. fibers'[p] = u
    BY <1>2, <2>2 DEF Update, TypeOK
  <2>5. AwayOK(p)'
    BY <1>2, <1>6, <2>1, <2>2, <2>4 DEF AwayOK, TraitsOK
  <2> QED BY <1>2, <1>5, <2>3, <2>5, ToParentSound
<1>9. CASE ClosedOrphan
  <2>1. PICK f : f = [u EXCEPT !.sock = "Empty", !.result = "none"]
    OBVIOUS
  <2>2. /\ Update(p, f) /\ Goto(loop) /\ edge' = edge \ {p} /\ toexec' = toexec
        /\ free_fibers' = Append(free_fibers, p) /\ Me.state = "Closed" /\ Me.parent = None
    BY <1>0, <1>2, <1>4, <1>9, <2>1 DEF ClosedOrphan, SocketDropped, Live
  <2> HIDE DEF pollerVars, timerVars, sockVars, slotVars, outVars, mainVars
  <2>3. /\ f.state = "Closed" /\ f.sock = "Empty" /\ f.children = Me.children /\ f.stack = None
        /\ f.parent = Me.parent /\ f.result = "none"
    BY <1>5, <2>1, <2>2 DEF Fiber
  <2>4. BackInLoop(p, f)
    BY <1>0, <1>1, <2>2 DEF BackInLoop
  <2>5. /\ FreeListOK' /\ ~InUse(p)' /\ \A q \in Slots : q # p => (InUse(q)' <=> InUse(q))
    BY <1>1, <1>2, <1>3, <2>2, GivenBack
  <2>6. Unique(toexec)' /\ \A q \in Slots : Scheduled(q)' <=> Scheduled(q)
    BY <1>3, <2>2 DEF Unique, Scheduled
  <2>7. Vacated(f)
    BY <1>2, <2>2, <2>3 DEF Vacated, HereOK
  <2>8. Calm
    BY <1>1, <2>2, CalmLeaving
  <2> QED BY <1>2, <2>2, <2>3, <2>4, <2>5, <2>6, <2>7, <2>8, LeavesMember
<1>10. CASE ChunkToMain
  <2>1. PICK f : f = [u EXCEPT !.result = "none"]
    OBVIOUS
  <2>2. /\ Update(p, f) /\ Goto(loop) /\ edge' = edge /\ push_toexec(p)
        /\ free_fibers' = free_fibers /\ Me.state # "Closed" /\ Me.result # "none" /\ Me.parent = None
    BY <1>0, <1>2, <1>4, <1>10, <2>1 DEF ChunkToMain, Live, HasResult
  <2> HIDE DEF pollerVars, timerVars, sockVars, slotVars, outVars, mainVars
  <2>3. /\ f.func = Me.func /\ f.op = Me.op /\ f.param = Me.param /\ f.ready = Me.ready
        /\ f.sock = Me.sock /\ f.state = Me.state /\ f.result = "none" /\ f.parent = Me.parent
        /\ f.children = Me.children
    BY <1>2, <1>6, <2>1, <2>2 DEF Fiber
  <2>4. BackInLoop(p, f)
    BY <1>0, <1>1, <1>2, <2>2, <2>3 DEF BackInLoop, MemberOK
  <2>5. FreeListOK' /\ \A q \in Slots : InUse(q)' <=> InUse(q)
    BY <1>1, <1>3, <2>2 DEF FreeListOK, Unique, InUse
  <2>6. Unique(toexec)' /\ \A q : Scheduled(q)' <=> Scheduled(q) \/ q = p
    BY <1>2, <1>3, <2>2, PushesOne
  <2>7. Calm
    BY <1>1, <2>2, CalmLeaving
  <2>8. f.op = "resp_chunk"
    BY <1>6, <2>2, <2>3 DEF TraitsOK
  <2>9. fibers'[p] = f
    BY <1>2, <2>2 DEF Update, TypeOK
  <2>10. AwayOK(p)'
    BY <1>6, <2>2, <2>3, <2>6, <2>8, <2>9 DEF AwayOK, TraitsOK
  <2> QED BY <1>2, <2>2, <2>3, <2>4, <2>5, <2>6, <2>7, <2>8, <2>10, LeavesMember
<1>11. CASE Waits
  <2>1. /\ Update(p, u) /\ Goto(loop) /\ edge' = edge /\ toexec' = toexec
        /\ free_fibers' = free_fibers /\ Me.state # "Closed" /\ Me.result = "none"
    BY <1>0, <1>2, <1>4, <1>11 DEF Waits, Live, HasResult
  <2> HIDE DEF pollerVars, timerVars, sockVars, slotVars, outVars, mainVars
  <2>2. BackInLoop(p, u)
    BY <1>0, <1>1, <1>2, <1>5, <2>1 DEF BackInLoop, MemberOK
  <2>3. FreeListOK' /\ \A q \in Slots : InUse(q)' <=> InUse(q)
    BY <1>1, <1>3, <2>1 DEF FreeListOK, Unique, InUse
  <2>4. Unique(toexec)' /\ \A q \in Slots : Scheduled(q)' <=> Scheduled(q)
    BY <1>3, <2>1 DEF Unique, Scheduled
  <2>5. Calm
    BY <1>1, <2>1, CalmLeaving
  <2>6. fibers'[p] = u
    BY <1>2, <2>1 DEF Update, TypeOK
  <2>7. AwayOK(p)'
    BY <1>2, <1>6, <2>1, <2>6 DEF AwayOK, TraitsOK, HereOK
  <2> QED BY <1>2, <1>5, <2>1, <2>2, <2>3, <2>4, <2>5, <2>7, LeavesMember
<1> QED BY <1>7, <1>8, <1>9, <1>10, <1>11

-----------------------------------------------------------------------------
(* run(), poll(), the main stack and the environment.                      *)

\* Control stays on the main stack, and no fiber is touched.
LEMMA IdleFamily ==
  ASSUME TypeOK, FamilyInv, at \in OnStack, at' \in OnStack, Phase, timedout' = <<>>,
         at' = "toexec" => loop' = "toexec",
         UNCHANGED <<fibers, toexec, free_fibers, nfibers, tomain_fibers, fiber_refs, edge>>
  PROVE  FamilyInv'
<1>1. \A q \in Slots : /\ ~Entered(q) /\ ~Entered(q)'
                       /\ (InUse(q)' <=> InUse(q)) /\ (Scheduled(q)' <=> Scheduled(q))
  BY DEF Entered, InUse, Scheduled, OnStack
<1>2. \A q \in Slots : Aside(q)
  BY <1>1 DEF Aside
<1>3. ListsOK' /\ ControlOK'
  BY DEF FamilyInv, ListsOK, FreeListOK, Unique, ControlOK, Inside, OnStack
<1>4. TreeInv'
  <2>1. TreeInv
    BY DEF FamilyInv
  <2> QED BY <1>1, <2>1, TreeStays
<1>5. PendInv'
  <2>1. Calm
    BY CalmOnStack DEF Inside, OnStack
  <2>2. \A q \in Slots : ~Pending(q)'
    BY <1>1, <2>1 DEF Calm, Pending
  <2> QED BY <2>2 DEF PendInv
<1> QED BY <1>2, <1>3, <1>4, <1>5, NoMember

LEMMA ExecuteFamily ==
  ASSUME TypeOK, FamilyInv, NEW p \in Slots, Execute(p)
  PROVE  FamilyInv'
<1>1. /\ Pops(p) /\ at = "toexec" /\ at' = "step_into" /\ cur' = p /\ loop' = loop
      /\ UNCHANGED <<fibers, free_fibers, nfibers, tomain_fibers, fiber_refs, edge, timedout, smth>>
  BY DEF Execute, Pops, EnterFiber, timerVars, sockVars, runnerVars, slotVars, outVars, mainVars
<1>2. ListsOK /\ ControlOK /\ Unique(toexec) /\ MemberOK(p) /\ TreeInv /\ loop = "toexec"
  BY <1>1 DEF FamilyInv, ListsOK, ControlOK
<1>3. /\ Unique(toexec)' /\ Scheduled(p) /\ ~Scheduled(p)' /\ \A q : Scheduled(q)' => Scheduled(q)
  BY <1>1, <1>2, PopsOne
<1>4. \A q \in Slots : q # p => (Scheduled(q)' <=> Scheduled(q))
  BY <1>1, <1>3, QueuePopped
<1>5. \A q \in Slots : InUse(q)' <=> InUse(q)
  BY <1>1 DEF InUse
<1>6. \A q \in Slots : ~Entered(q) /\ (q # p => ~Entered(q)')
  BY <1>1 DEF Entered
<1>7. \A q \in Slots : q # p => Aside(q)
  BY <1>1, <1>4, <1>5, <1>6 DEF Aside
<1>8. Phase
  BY <1>1, <1>2 DEF Phase, Late, Inside
<1>9. MemberOK(p)'
  <2>1. InLineOK(p) /\ AwayOK(p) /\ InUse(p)
    BY <1>2, <1>3, <1>6 DEF MemberOK, InLineOK
  <2>2. HereOK(fibers[p], "step_into")
    BY <2>1 DEF HereOK, InLineOK, AwayOK
  <2>3. Entered(p)'
    BY <1>1 DEF Entered
  <2> QED BY <1>1, <1>2, <1>3, <1>5, <2>1, <2>2, <2>3 DEF MemberOK
<1>10. ListsOK' /\ ControlOK'
  BY <1>1, <1>2, <1>3 DEF ListsOK, FreeListOK, Unique, ControlOK
<1>11. TreeInv'
  BY <1>1, <1>2, <1>5, TreeStays
<1>12. PendInv'
  <2>1. Calm
    BY <1>1, CalmOnStack DEF Inside
  <2>2. \A q \in Slots : ~Pending(q)'
    BY <1>1, <1>5, <2>1 DEF Calm, Pending
  <2> QED BY <2>2 DEF PendInv
<1> QED BY <1>7, <1>8, <1>9, <1>10, <1>11, <1>12, OneMember

LEMMA RunFamily ==
  ASSUME Families, TypeOK, WakeInv, FamilyInv, Run
  PROVE  FamilyInv'
<1>1. ASSUME NEW p \in Slots PROVE ~NoAddress(p) /\ ~MalformedAnswer(p) /\ ~Connects(p) /\ ~ConnectFails(p)
  <2>1. ~fibers[p].connect_param
    BY DEF WakeInv, LookupOK, Families, Lookups
  <2> QED BY <2>1 DEF NoAddress, MalformedAnswer, Connects, ConnectFails
<1>2. \A p \in Slots : ~Expires(p)
  BY DEF Expires, FamilyInv, ControlOK
<1>3. \A p \in Slots : /\ ~StaleTimer(p) /\ ~LookupTick(p) /\ ~LookupExpires(p) /\ ~LookupUnderflow(p)
                       /\ ~TimerWakes(p)
  BY <1>2 DEF StaleTimer, LookupTick, LookupExpires, LookupUnderflow, TimerWakes
<1>4. ASSUME BeginRun \/ ToexecDone \/ TimedoutDone PROVE FamilyInv'
  <2> USE DEF pollerVars, timerVars, sockVars, slotVars, outVars, mainVars, runnerVars, control
  <2>1. /\ at \in OnStack /\ at' \in OnStack /\ (at' = "toexec" => loop' = "toexec")
        /\ UNCHANGED <<fibers, toexec, free_fibers, nfibers, tomain_fibers, fiber_refs, edge, timedout>>
    BY <1>4 DEF BeginRun, ToexecDone, TimedoutDone, Goto, OnStack
  <2>2. Phase
    <3>1. CASE BeginRun
      BY <3>1 DEF BeginRun, Phase, Late, Inside
    <3>2. CASE ToexecDone
      <4>1. \A q \in Slots : ~Scheduled(q)'
        BY <3>2 DEF ToexecDone, Scheduled, Range
      <4> QED BY <3>2, <4>1 DEF ToexecDone, Phase, Late, Inside
    <3>3. CASE TimedoutDone
      BY <3>3 DEF TimedoutDone, Phase, Late, Inside, Goto
    <3> QED BY <1>4, <3>1, <3>2, <3>3
  <2> HIDE DEF pollerVars, timerVars, sockVars, slotVars, outVars, mainVars, runnerVars, control
  <2>3. timedout' = <<>>
    BY <2>1 DEF FamilyInv, ControlOK
  <2> QED BY <2>1, <2>2, <2>3, IdleFamily
<1> QED BY <1>1, <1>3, <1>4, ExecuteFamily DEF Run

LEMMA PollFamily ==
  ASSUME Families, TypeOK, FamilyInv, Poll
  PROVE  FamilyInv'
<1> USE DEF pollerVars, timerVars, sockVars, slotVars, outVars, mainVars, runnerVars, control
<1>1. ASSUME BeginPoll \/ EventsDone \/ PollReturns PROVE FamilyInv'
  <2>1. /\ at \in OnStack /\ at' \in OnStack /\ at' # "toexec"
        /\ UNCHANGED <<fibers, toexec, free_fibers, nfibers, tomain_fibers, fiber_refs, edge, timedout>>
    BY <1>1 DEF BeginPoll, EventsDone, PollReturns, Goto, OnStack
  <2>2. Phase
    <3>1. CASE BeginPoll
      <4>1. ~smth
        BY <3>1 DEF BeginPoll, Families
      <4> QED BY <3>1, <4>1 DEF BeginPoll, Phase, Late, Inside, Goto
    <3>2. CASE EventsDone
      BY <3>2 DEF EventsDone, Phase, Late, Inside, Goto
    <3>3. CASE PollReturns
      BY <3>3 DEF PollReturns, Phase, Late, Inside, Goto
    <3> QED BY <1>1, <3>1, <3>2, <3>3
  <2> HIDE DEF pollerVars, timerVars, sockVars, slotVars, outVars, mainVars, runnerVars, control
  <2>3. timedout' = <<>>
    BY <2>1 DEF FamilyInv, ControlOK
  <2> QED BY <2>1, <2>2, <2>3, IdleFamily
<1>2. \A tk \in Tokens : ~PollTimer(tk)
  BY DEF PollTimer, Families
<1>3. ASSUME NEW p \in Slots, PollEvent(p) PROVE FamilyInv'
  <2>1. /\ at = "events" /\ p \in edge /\ edge' = edge \ {p}
        /\ UNCHANGED <<fibers, free_fibers, nfibers, tomain_fibers, fiber_refs, timedout, at, cur, loop>>
        /\ (push_toexec(p) /\ smth' = TRUE) \/ UNCHANGED <<toexec, smth>>
    BY <1>3 DEF PollEvent
  <2> HIDE DEF pollerVars, timerVars, sockVars, slotVars, outVars, mainVars, runnerVars, control
  <2>2. Calm /\ MemberOK(p) /\ ListsOK /\ ControlOK /\ TreeInv
    BY <2>1, CalmOnStack DEF Inside, FamilyInv
  <2>3. \A q \in Slots : ~Entered(q) /\ ~Entered(q)' /\ (InUse(q)' <=> InUse(q))
    BY <2>1 DEF Entered, InUse
  <2>4. /\ fibers[p].sock # "Empty" /\ fibers[p].ready # "none" /\ ~Scheduled(p) /\ InUse(p)
        /\ AwayOK(p)
    BY <2>1, <2>2, <2>3 DEF MemberOK, Vacated, InLineOK
  <2>5. /\ TraitsOK(fibers[p]) /\ fibers[p].state # "Closed" /\ fibers[p].op \notin {"start", "get_child"}
        /\ fibers[p].result = "none"
    BY <2>2, <2>4 DEF AwayOK, TraitsOK, Calm, Pending
  <2>6. /\ Unique(toexec)' /\ (Scheduled(p)' => smth' = TRUE)
        /\ \A q \in Slots : q # p => (Scheduled(q)' <=> Scheduled(q))
    <3>1. CASE push_toexec(p) /\ smth' = TRUE
      BY <2>2, <2>4, <3>1, PushesOne DEF ListsOK
    <3>2. CASE UNCHANGED <<toexec, smth>>
      BY <2>2, <2>4, <3>2 DEF ListsOK, Unique, Scheduled
    <3> QED BY <2>1, <3>1, <3>2
  <2>7. \A q \in Slots : q # p => Aside(q)
    BY <2>1, <2>3, <2>6 DEF Aside
  <2>8. Late' => Late /\ smth' = FALSE
    BY <2>1 DEF Late, Inside, TypeOK
  <2>9. Phase
    BY <2>1, <2>8 DEF Phase
  <2>10. MemberOK(p)'
    <3>1. AwayOK(p)'
      BY <2>1, <2>4, <2>5, <2>6 DEF AwayOK
    <3>2. Scheduled(p)' => InLineOK(p)'
      BY <2>1, <2>3, <2>4, <2>5, <2>6, <2>8 DEF InLineOK
    <3> QED BY <2>1, <2>2, <2>3, <2>4, <3>1, <3>2 DEF MemberOK
  <2>11. ListsOK' /\ ControlOK'
    BY <2>1, <2>2, <2>6 DEF ListsOK, FreeListOK, Unique, ControlOK, Inside
  <2>12. TreeInv'
    BY <2>1, <2>2, <2>3, TreeStays
  <2>13. PendInv'
    <3>1. \A q \in Slots : ~Pending(q)'
      BY <2>1, <2>2, <2>3 DEF Calm, Pending
    <3> QED BY <3>1 DEF PendInv
  <2> QED BY <2>7, <2>9, <2>10, <2>11, <2>12, <2>13, OneMember
<1> QED BY <1>1, <1>2, <1>3 DEF Poll

LEMMA MainFamily ==
  ASSUME Families, TypeOK, FamilyInv, Main
  PROVE  FamilyInv'
<1>1. CASE GetResponse
  <2>1. /\ at = "main" /\ at' = "main"
        /\ UNCHANGED <<fibers, toexec, free_fibers, nfibers, tomain_fibers, fiber_refs, edge, timedout,
                       smth>>
    BY <1>1 DEF GetResponse, pollerVars, timerVars, sockVars, slotVars, mainVars, control
  <2>2. Phase /\ at \in OnStack /\ at' \in OnStack /\ timedout' = <<>>
    BY <2>1 DEF FamilyInv, ControlOK, Phase, Late, Inside, OnStack
  <2> QED BY <2>1, <2>2, IdleFamily
<1>2. ~GetFiber
  BY DEF GetFiber, FamilyInv, ListsOK
<1>3. \A p \in Slots : ~ResumeFiber(p)
  BY DEF ResumeFiber, FamilyInv, MemberOK
<1>4. \A p \in Slots : ~DropTimerRef(p)
  BY DEF DropTimerRef, OnMain, Families
<1> QED BY <1>1, <1>2, <1>3, <1>4 DEF Main

\* Nothing changes but the events of sockets, for which there are registrations.
LEMMA EventsFamily ==
  ASSUME TypeOK, FamilyInv, at # "events",
         \A q \in Slots : q \in edge' => fibers[q].sock # "Empty" /\ fibers[q].ready # "none",
         UNCHANGED <<fibers, toexec, free_fibers, nfibers, tomain_fibers, fiber_refs, timedout, smth,
                     at, cur, loop>>
  PROVE  FamilyInv'
<1>1. /\ Late' <=> Late
      /\ \A q \in Slots : /\ (InUse(q)' <=> InUse(q)) /\ (Scheduled(q)' <=> Scheduled(q))
                          /\ (Entered(q)' <=> Entered(q))
  BY DEF Entered, InUse, Scheduled, Late, Inside
<1>2. ASSUME NEW q \in Slots PROVE MemberOK(q)'
  <2>1. MemberOK(q)
    BY DEF FamilyInv
  <2>2. AwayOK(q)' <=> AwayOK(q)
    BY <1>1 DEF AwayOK
  <2>3. Scheduled(q)' => InLineOK(q)'
    BY <1>1, <2>1 DEF MemberOK, InLineOK
  <2> QED BY <1>1, <2>1, <2>2, <2>3 DEF MemberOK
<1>3. ListsOK' /\ ControlOK'
  BY DEF FamilyInv, ListsOK, FreeListOK, Unique, ControlOK, Inside
<1>4. TreeInv'
  <2>1. TreeInv
    BY DEF FamilyInv
  <2> QED BY <1>1, <2>1, TreeStays
<1>5. PendInv'
  <2>1. PendInv
    BY DEF FamilyInv
  <2>2. \A q \in Slots : (Pending(q)' <=> Pending(q)) /\ (In(q, "stepped_out")' <=> In(q, "stepped_out"))
    BY <1>1 DEF Pending, In
  <2>3. \A q \in Slots : Taker(fibers[q].parent)' <=> Taker(fibers[q].parent)
    BY DEF Taker
  <2> QED BY <2>1, <2>2, <2>3 DEF PendInv
<1> QED BY <1>2, <1>3, <1>4, <1>5 DEF FamilyInv

LEMMA EnvironmentFamily ==
  ASSUME TypeOK, FamilyInv, Environment
  PROVE  FamilyInv'
<1>1. PICK p \in Slots, dir \in Directions : SocketReady(p, dir)
  BY DEF Environment
<1>2. /\ at # "events" /\ fibers[p].sock # "Empty"
      /\ edge' \subseteq edge \cup {p} /\ (p \in edge' => p \in edge \/ fibers[p].ready # "none")
      /\ UNCHANGED <<fibers, toexec, free_fibers, nfibers, tomain_fibers, fiber_refs, timedout, smth,
                     at, cur, loop>>
  BY <1>1 DEF SocketReady, Directions, timerVars, slotVars, outVars, mainVars, runnerVars, control
<1>3. \A q \in Slots : q \in edge => fibers[q].sock # "Empty" /\ fibers[q].ready # "none"
  BY DEF FamilyInv, MemberOK
<1> QED BY <1>2, <1>3, EventsFamily

-----------------------------------------------------------------------------
LEMMA InitFamily == Init => FamilyInv
<1> SUFFICES ASSUME Init PROVE FamilyInv
  OBVIOUS
<1>1. /\ at = "main" /\ toexec = <<>> /\ timedout = <<>> /\ free_fibers = <<>> /\ edge = {}
      /\ tomain_fibers = <<>> /\ nfibers = 0 /\ loop = "toexec"
      /\ \A p \in Slots : fibers[p] = Unallocated /\ fiber_refs[p] = 0
  BY DEF Init, PollerInit
<1>2. PICK f : f = Unallocated
  OBVIOUS
<1>3. /\ Vacated(f) /\ Range(f.children) = {} /\ DOMAIN f.children = {}
  BY <1>2 DEF Unallocated, NewFiber, Vacated, Range
<1>4. \A p \in Slots : ~InUse(p) /\ ~Entered(p) /\ ~Scheduled(p)
  BY <1>1, PollerAssumption DEF InUse, Entered, Scheduled, Slots, Range
<1>5. ListsOK /\ ControlOK
  BY <1>1 DEF ListsOK, FreeListOK, Unique, ControlOK
<1>6. \A p \in Slots : MemberOK(p)
  BY <1>1, <1>2, <1>3, <1>4 DEF MemberOK
<1>7. TreeInv
  BY <1>1, <1>2, <1>3, <1>4 DEF TreeInv, ChildrenOK, ParentOK, Unique
<1>8. PendInv
  BY <1>4 DEF PendInv, Pending
<1> QED BY <1>5, <1>6, <1>7, <1>8 DEF FamilyInv

LEMMA NextFamily ==
  ASSUME Families, TypeOK, WakeInv, FamilyInv, [Next]_vars
  PROVE  FamilyInv'
<1>1. CASE Switches
  BY <1>1, ResumesFamily, StepsOutFamily DEF Switches
<1>2. CASE Calls
  BY <1>2, SimpleCallsSound, TakeChildSound
<1>3. CASE Next
  BY <1>1, <1>2, <1>3, CreatesFamily, RunFamily, PollFamily, MainFamily, EnvironmentFamily DEF Next
<1>4. CASE UNCHANGED vars
  <2>1. UNCHANGED <<toexec, timedout, edge, fibers, nfibers, free_fibers, tomain_fibers,
                    fiber_refs, smth, at, cur, loop>>
    BY <1>4 DEF vars, pollerVars, timerVars, sockVars, runnerVars, slotVars, outVars, mainVars, control
  <2>2. CASE at = "events"
    <3>1. Phase /\ at \in OnStack /\ at' \in OnStack /\ at' # "toexec" /\ timedout' = <<>>
      BY <2>1, <2>2 DEF FamilyInv, ControlOK, Phase, Late, Inside, OnStack
    <3> QED BY <2>1, <3>1, IdleFamily
  <2>3. CASE at # "events"
    <3>1. \A q \in Slots : q \in edge' => fibers[q].sock # "Empty" /\ fibers[q].ready # "none"
      BY <2>1 DEF FamilyInv, MemberOK
    <3> QED BY <2>1, <2>3, <3>1, EventsFamily
  <2> QED BY <2>2, <2>3
<1> QED BY <1>3, <1>4

LEMMA AlwaysFamily == ASSUME Families PROVE Spec => [](TypeOK /\ WakeInv /\ FamilyInv)
<1>1. NoStaleParent
  BY DEF Families, NoStaleParent, Lookups
<1>2. Spec => []WakeInv
  BY <1>1, AlwaysWake
<1>3. TypeOK /\ WakeInv /\ FamilyInv /\ [Next]_vars => FamilyInv'
  BY NextFamily
<1> QED BY <1>2, <1>3, InitFamily, TypeCorrect, PTL DEF Spec

\* A fiber that has a child is alive.
LEMMA ParentLives ==
  ASSUME FamilyInv, NEW p \in Slots, NEW c \in Range(fibers[p].children)
  PROVE  Live(p) /\ InUse(p)
<1>1. fibers[p].children # <<>>
  BY DEF Range
<1>2. MemberOK(p)
  BY DEF FamilyInv
<1>3. InUse(p)
  BY <1>1, <1>2 DEF MemberOK, Vacated
<1> QED BY <1>1, <1>2, <1>3 DEF MemberOK, HereOK, AwayOK, Live

\* The panics of FiberFn being called twice, of a slot reused under the running
\* fiber and of the lookup count do not occur in families either, however deep
\* they are and in whatever order children answer, close and are taken.
THEOREM FamiliesNeverPanic == ASSUME Families PROVE Spec => []NoPanic
<1>1. FamilyInv => NoPanic
  BY DEF FamilyInv, ControlOK, NoPanic
<1> QED BY <1>1, AlwaysFamily, PTL

\* resp_chunk returns only once the parent's get_child or the main stack has the
\* chunk: a fiber that runs has none left in its slot.
THEOREM ChunkAlwaysReceived == ASSUME Families PROVE Spec => []ChunkReceived
<1>1. TypeOK /\ FamilyInv => ChunkReceived
  <2> SUFFICES ASSUME TypeOK, FamilyInv, at = "fiber" PROVE Me.result # "chunk"
    BY DEF ChunkReceived
  <2>1. PICK p : p = cur
    OBVIOUS
  <2>2. HereOK(Me, "fiber")
    BY <2>1, EnteredMember DEF Inside
  <2> QED BY <2>2 DEF HereOK
<1> QED BY <1>1, AlwaysFamily, PTL

\* Parent and child agree in every state: a child is in its parent's list once,
\* and the parent of a living child is alive and has it there, although slots are
\* given back by child_iter and stepped_out and reused at once.
THEOREM FamilyTreeKept == ASSUME Families PROVE Spec => []FamilyTree
<1>1. TypeOK /\ FamilyInv => FamilyTree
  <2> SUFFICES ASSUME TypeOK, FamilyInv PROVE FamilyTree
    OBVIOUS
  <2>1. ASSUME NEW p \in Slots, NEW c \in Range(fibers[p].children)
        PROVE  fibers[c].parent = p /\ Once(fibers[p].children, c)
    <3>1. ChildrenOK(p)
      BY DEF FamilyInv, TreeInv
    <3>2. PICK i \in DOMAIN fibers[p].children : fibers[p].children[i] = c
      BY DEF Range
    <3> QED BY <3>1, <3>2 DEF ChildrenOK, Unique, Once
  <2>2. ASSUME NEW c \in Slots, Live(c), fibers[c].parent # None
        PROVE  Live(fibers[c].parent) /\ c \in Range(fibers[fibers[c].parent].children)
    <3>1. PICK p : p = fibers[c].parent
      OBVIOUS
    <3>2. InUse(c)
      BY <2>2 DEF FamilyInv, MemberOK, Vacated, Live
    <3>3. fibers[c] \in Fiber
      BY DEF TypeOK
    <3>4. p \in Slots /\ c \in Range(fibers[p].children)
      BY <2>2, <3>1, <3>2, <3>3 DEF FamilyInv, TreeInv, ParentOK, Fiber
    <3>5. Live(p)
      BY <3>4, ParentLives
    <3> QED BY <3>1, <3>4, <3>5
  <2> QED BY <2>1, <2>2 DEF FamilyTree
<1> QED BY <1>1, AlwaysFamily, PTL

\* No slot leaks and none is free twice: every slot below fibers.len() is free
\* once, or alive, or a closed fiber in stepped_out, or a closed child that its
\* living parent still has to take.
THEOREM SlotsAlwaysAccounted == ASSUME Families PROVE Spec => []SlotsAccounted
<1>1. TypeOK /\ FamilyInv => SlotsAccounted
  <2> SUFFICES ASSUME TypeOK, FamilyInv PROVE SlotsAccounted
    OBVIOUS
  <2>1. ASSUME NEW p \in Range(free_fibers)
        PROVE  Once(free_fibers, p) /\ ~Scheduled(p) /\ fibers[p].stack = None
    <3>1. PICK i \in DOMAIN free_fibers : free_fibers[i] = p
      BY DEF Range
    <3>2. p \in Slots /\ ~InUse(p)
      BY <3>1 DEF TypeOK, InUse
    <3>3. Once(free_fibers, p)
      BY <3>1 DEF FamilyInv, ListsOK, FreeListOK, Unique, Once
    <3> QED BY <3>2, <3>3 DEF FamilyInv, MemberOK, InLineOK, Vacated
  <2>2. ASSUME NEW p \in 1 .. nfibers, ~Live(p), p \notin Range(free_fibers),
               ~(at = "stepped_out" /\ cur = p), NEW r, r = fibers[p].parent
        PROVE  r # None /\ Live(r) /\ p \in Range(fibers[r].children)
    <3>1. p \in Slots /\ InUse(p)
      BY <2>2, PollerAssumption DEF TypeOK, Slots, InUse
    <3>2. MemberOK(p) /\ ParentOK(p) /\ fibers[p] \in Fiber
      BY <3>1 DEF FamilyInv, TreeInv, TypeOK
    <3>3. ~Entered(p)
      BY <2>2, <3>1, <3>2 DEF MemberOK, HereOK, Entered, Live
    <3>4. r # None
      BY <2>2, <3>1, <3>2, <3>3 DEF MemberOK, AwayOK, Live
    <3>5. r \in Slots /\ p \in Range(fibers[r].children)
      BY <2>2, <3>1, <3>2, <3>4 DEF ParentOK, Fiber
    <3> QED BY <3>4, <3>5, ParentLives
  <2> QED BY <2>1, <2>2 DEF SlotsAccounted
<1> QED BY <1>1, AlwaysFamily, PTL

\* No fiber of a family is forgotten: one that is switched out is queued, has its
\* socket registered for what it waits for, has a result its parent will take, or
\* waits for a child that is alive or just closed.
THEOREM NoneEverForgotten == ASSUME Families PROVE Spec => []NoneForgotten
<1>1. TypeOK /\ WakeInv /\ FamilyInv => NoneForgotten
  <2> SUFFICES ASSUME TypeOK, WakeInv, FamilyInv, NEW p \in Slots, Waiting(p) PROVE WillWake(p)
    BY DEF NoneForgotten
  <2>1. /\ InUse(p) /\ ~Entered(p) /\ SwitchedOut(p) /\ fibers[p].state # "Closed"
    BY DEF Waiting, InUse, Entered, SwitchedOut, Live
  <2>2. /\ AwayOK(p) /\ ParentOK(p) /\ ChildrenOK(p) /\ fibers[p] \in Fiber
    BY <2>1 DEF FamilyInv, TreeInv, MemberOK, TypeOK
  <2>3. LookupOK(p) /\ EventOK(p) /\ ~fibers[p].connect_param
    BY DEF WakeInv, LookupOK, Families, Lookups
  <2>4. TraitsOK(fibers[p]) /\ fibers[p].op \in Ops
    BY <2>1, <2>2 DEF AwayOK, Fiber
  <2>5. CASE fibers[p].op \in {"start", "resp_chunk"}
    <3>1. CASE Scheduled(p)
      BY <2>3, <3>1 DEF WillWake
    <3>2. CASE ~Scheduled(p)
      <4>1. HasResult(p) /\ fibers[p].parent # None
        BY <2>1, <2>2, <2>5, <3>2 DEF AwayOK, HasResult
      <4>2. p \in Range(fibers[fibers[p].parent].children)
        BY <2>1, <2>2, <4>1 DEF ParentOK
      <4> QED BY <4>1, <4>2 DEF WillWake
    <3> QED BY <3>1, <3>2
  <2>6. CASE fibers[p].op \in {"read", "write", "handshake"}
    <3>1. fibers[p].op \in SocketOps /\ fibers[p].sock # "Empty"
      BY <2>4, <2>6 DEF TraitsOK, SocketOps
    <3>2. fibers[p].ready = WaitsFor(fibers[p].op)
      BY <2>1, <2>3, <3>1 DEF EventOK
    <3> QED BY <3>1, <3>2 DEF WillWake
  <2>7. CASE fibers[p].op = "get_child"
    <3>1. fibers[p].children # <<>> /\ fibers[p].children \in Seq(Slots)
      BY <2>1, <2>2, <2>7 DEF AwayOK, Fiber
    <3>2. PICK c \in Slots : c \in Range(fibers[p].children)
      <4>1. 1 \in DOMAIN fibers[p].children
        BY <3>1
      <4> QED BY <3>1, <4>1 DEF Range
    <3>3. InUse(c) /\ fibers[c].parent = p
      BY <2>2, <3>2 DEF ChildrenOK
    <3>4. Pending(c) => In(c, "stepped_out") \/ Taker(p)
      BY <3>3 DEF FamilyInv, PendInv
    <3>5. ~Taker(p)
      BY <2>1 DEF Taker, Entered
    <3>6. Live(c) \/ (cur = c /\ at = "stepped_out")
      BY <3>3, <3>4, <3>5, NoneApart DEF Pending, In, Live
    <3> QED BY <2>7, <3>2, <3>6 DEF WillWake
  <2> QED BY <2>1, <2>2, <2>4, <2>5, <2>6, <2>7 DEF AwayOK, TraitsOK, Ops
<1> QED BY <1>1, AlwaysFamily, PTL

=============================================================================
