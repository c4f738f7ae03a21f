---------------------------- MODULE RunnerProofs ----------------------------
(***************************************************************************)
(* Type correctness of the runner, that its stacks stay apart, and that no *)
(* wakeup is lost, for every value of the constants.  TypeOK is inductive  *)
(* as it stands, and StacksDistinct together with it; each proof has one   *)
(* lemma per group of actions of Next and, under it, one step per action.  *)
(***************************************************************************)
EXTENDS RunnerProps, FiniteSetTheorems, TLAPS

\* The fiber control is in is a FiberInt in the vector.
LEMMA MeType == TypeOK => cur \in Slots /\ Me \in Fiber
  BY DEF TypeOK, Me

\* Replacing one slot by a well-typed FiberInt keeps the vector well typed.
LEMMA UpdateType ==
  ASSUME TypeOK, NEW p \in Slots, NEW f \in Fiber, Update(p, f)
  PROVE  fibers' \in [Slots -> Fiber]
  BY DEF TypeOK, Update

\* Zero and one tick are within the u8, as timed_out uses them for its flag.
LEMMA FewTicks == 0 \in 0 .. MaxTicks /\ 1 \in 0 .. MaxTicks
  BY RunnerAssumption

\* What register() builds is a FiberInt.
LEMMA NewFiberType ==
  ASSUME NEW func \in BOOLEAN, NEW sock \in Socks, NEW param \in BOOLEAN, NEW parent \in Slots \cup {None}
  PROVE  NewFiber(func, sock, param, parent) \in Fiber
  BY RunnerAssumption DEF NewFiber, Fiber, States, Results, Ops, Directions

\* A fiber stays well typed when a child is pushed to its list.
LEMMA AppendChild ==
  ASSUME NEW f \in Fiber, NEW c \in Slots
  PROVE  [f EXCEPT !.children = Append(@, c)] \in Fiber
  BY DEF Fiber

\* register() takes a slot of the vector (a free one or the next), also when
\* it is called from the fiber whose slot it takes, and keeps every type.
LEMMA RegisterType ==
  ASSUME TypeOK, NEW f \in Fiber, NEW schedule \in BOOLEAN, register(f, schedule)
  PROVE  /\ fibers' \in [Slots -> Fiber]
         /\ nfibers' \in 0 .. NumSlots
         /\ free_fibers' \in Seq(Slots)
         /\ toexec' \in Seq(Slots)
         /\ avail' \in [Slots -> SUBSET Directions]
         /\ edge' \subseteq Slots
         /\ at' \in Places
         /\ cur' = cur
         /\ loop' = loop
<1>1. NewSlot \in Slots
  BY DEF register, TakeSlot, SlotLeft
<1>2. fibers' \in [Slots -> Fiber]
  <2> DEFINE g == [fibers EXCEPT ![NewSlot] = f]
  <2>1. g \in [Slots -> Fiber] /\ f.parent \in Slots \cup {None}
    BY <1>1 DEF TypeOK, Fiber
  <2>2. CASE f.parent = None
    BY <2>1, <2>2 DEF register, WithParent
  <2>3. CASE f.parent \in Slots /\ f.parent # None
    <3>1. [g[f.parent] EXCEPT !.children = Append(g[f.parent].children, NewSlot)] \in Fiber
      BY <1>1, <2>1, <2>3, AppendChild
    <3> HIDE DEF g
    <3>2. [g EXCEPT ![f.parent] = [g[f.parent] EXCEPT !.children = Append(g[f.parent].children, NewSlot)]] \in [Slots -> Fiber]
      BY <2>1, <2>3, <3>1
    <3> USE DEF g
    <3> QED BY <2>3, <3>2 DEF register, WithParent
  <2> QED BY <2>1, <2>2, <2>3
<1>3. nfibers' \in 0 .. NumSlots
  <2>1. CASE free_fibers = <<>>
    BY <2>1, <1>1, PollerAssumption DEF register, TakeSlot, TypeOK, NewSlot, Slots
  <2>2. CASE free_fibers # <<>>
    BY <2>2 DEF register, TakeSlot, TypeOK
  <2> QED BY <2>1, <2>2
<1>4. free_fibers' \in Seq(Slots)
  BY DEF register, FreeLeft, TypeOK
<1>7. toexec' \in Seq(Slots)
  <2>1. Append(toexec, NewSlot) \in Seq(Slots)
    BY <1>1 DEF TypeOK
  <2> QED BY <2>1 DEF register, TypeOK, push_toexec
<1>5. avail' \in [Slots -> SUBSET Directions] /\ edge' \subseteq Slots
  BY <1>1 DEF register, TakeSlot, SocketDropped, TypeOK
<1>6. at' \in Places /\ cur' = cur /\ loop' = loop
  BY DEF register, TakeSlot, TypeOK, Goto, Places
<1> QED
  BY <1>2, <1>3, <1>4, <1>5, <1>6, <1>7

\* timer_reg hands out a token of the slab or None.
LEMMA TimerRegType ==
  ASSUME TypeOK, NEW p \in Slots, timer_reg(p)
  PROVE  /\ slab' \in [Tokens -> Slots \cup {None}]
         /\ vacant' \in Seq(Tokens)
         /\ NextToken \in Tokens \cup {None}
<1>1. CASE vacant = <<>>
  BY <1>1 DEF TypeOK, timer_reg, NextToken
<1>2. CASE vacant # <<>>
  <2>1. Head(vacant) \in Tokens /\ Tail(vacant) \in Seq(Tokens)
    BY <1>2 DEF TypeOK
  <2> QED BY <1>2, <2>1 DEF TypeOK, timer_reg, NextToken
<1> QED BY <1>1, <1>2

\* timer_cancel keeps the slab well typed whatever token it is given.
LEMMA TimerCancelType ==
  ASSUME TypeOK, NEW tk, timer_cancel(tk)
  PROVE  /\ slab' \in [Tokens -> Slots \cup {None}]
         /\ vacant' \in Seq(Tokens)
<1>1. ASSUME tk \in Tokens
      PROVE  <<tk>> \o vacant \in Seq(Tokens)
  BY <1>1 DEF TypeOK
<1> QED BY <1>1 DEF TypeOK, timer_cancel

\* The calls that create fibers keep the types.
LEMMA CreatesType ==
  ASSUME TypeOK, Creates
  PROVE  TypeOK'
<1> USE DEF pollerVars, timerVars, sockVars, slotVars, outVars, mainVars, runnerVars, control
<1>1. ASSUME NEW sock \in Socks, NEW call, New(sock, call)
      PROVE  TypeOK'
  <2>1. NewFiber(TRUE, sock, TRUE, None) \in Fiber
    BY NewFiberType
  <2> QED BY <1>1, <2>1, RegisterType DEF New, TypeOK
<1>2. ASSUME NEW sock \in Socks, NEW call, Join(sock, call)
      PROVE  TypeOK'
  <2>1. NewFiber(TRUE, sock, TRUE, cur) \in Fiber
    BY NewFiberType DEF TypeOK
  <2> QED BY <1>2, <2>1, RegisterType DEF Join, TypeOK
<1>3. ASSUME NEW func \in BOOLEAN, NewTimer(func)
      PROVE  TypeOK'
  <2> DEFINE f == [NewFiber(func, "Empty", func, None) EXCEPT
                      !.result = IF func THEN "none" ELSE "chunk",
                      !.wtoken = NextToken]
  <2>1. NewSlot \in Slots
    BY <1>3 DEF NewTimer, register, TakeSlot, SlotLeft
  <2>2. /\ slab' \in [Tokens -> Slots \cup {None}]
        /\ vacant' \in Seq(Tokens)
        /\ NextToken \in Tokens \cup {None}
    BY <1>3, <2>1, TimerRegType DEF NewTimer
  <2>3. NewFiber(func, "Empty", func, None) \in Fiber
    BY NewFiberType DEF Socks
  <2>4. f \in Fiber
    BY <2>2, <2>3 DEF Fiber, Results
  <2>5. timer_refs' \in [Slots -> Nat]
    BY <1>3, <2>1 DEF NewTimer, TypeOK
  <2>6. register(f, FALSE)
    BY <1>3 DEF NewTimer
  <2> HIDE DEF f
  <2> QED BY <1>3, <2>2, <2>4, <2>5, <2>6, RegisterType DEF NewTimer, TypeOK
<1>4. ASSUME NEW parent \in Slots \cup {None}, Resolve(parent)
      PROVE  TypeOK'
  <2> DEFINE f(ticks) == [NewFiber(TRUE, "Udp", TRUE, parent) EXCEPT
                             !.connect_param = TRUE, !.ready = "readable",
                             !.wtoken = NextToken, !.timed_out = ticks]
  <2>1. PICK ticks \in TimeoutTicks : register(f(ticks), FALSE)
    BY <1>4 DEF Resolve
  <2>2. NewSlot \in Slots
    BY <2>1 DEF register, TakeSlot, SlotLeft
  <2>3. /\ slab' \in [Tokens -> Slots \cup {None}]
        /\ vacant' \in Seq(Tokens)
        /\ NextToken \in Tokens \cup {None}
    BY <1>4, <2>2, TimerRegType DEF Resolve
  <2>4. NewFiber(TRUE, "Udp", TRUE, parent) \in Fiber
    BY NewFiberType DEF Socks
  <2>5. f(ticks) \in Fiber
    <3>1. ticks \in 0 .. MaxTicks
      BY <2>1, RunnerAssumption DEF TimeoutTicks
    <3> QED BY <2>3, <2>4, <3>1 DEF Fiber, Directions
  <2> HIDE DEF f
  <2> QED BY <1>4, <2>1, <2>3, <2>5, RegisterType DEF Resolve, TypeOK
<1>5. CASE ResolveFails
  <2> DEFINE f(ticks) == [NewFiber(TRUE, "Empty", FALSE, None) EXCEPT
                             !.timed_out = ticks]
  <2>1. PICK ticks \in TimeoutTicks : Update(NewSlot, f(ticks))
    BY <1>5 DEF ResolveFails
  <2>2. NewSlot \in Slots
    BY <1>5 DEF ResolveFails, TakeSlot, SlotLeft
  <2>3. NewFiber(TRUE, "Empty", FALSE, None) \in Fiber
    BY NewFiberType DEF Socks
  <2>4. f(ticks) \in Fiber
    <3>1. ticks \in 0 .. MaxTicks
      BY <2>1, RunnerAssumption DEF TimeoutTicks
    <3> QED BY <2>3, <3>1 DEF Fiber
  <2>5. fibers' \in [Slots -> Fiber]
    BY <2>1, <2>2, <2>4, UpdateType
  <2>6. nfibers' \in 0 .. NumSlots
    <3>1. CASE free_fibers = <<>>
      BY <1>5, <3>1, <2>2, PollerAssumption
         DEF ResolveFails, TakeSlot, TypeOK, NewSlot, Slots
    <3>2. CASE free_fibers # <<>>
      BY <1>5, <3>2 DEF ResolveFails, TakeSlot, TypeOK
    <3> QED BY <3>1, <3>2
  <2>7. free_fibers' \in Seq(Slots)
    <3>1. FreeLeft \in Seq(Slots)
      BY DEF FreeLeft, TypeOK
    <3> QED BY <1>5, <2>2, <3>1 DEF ResolveFails
  <2>8. avail' \in [Slots -> SUBSET Directions] /\ edge' \subseteq Slots
    BY <1>5, <2>2 DEF ResolveFails, TakeSlot, SocketDropped, TypeOK
  <2>9. at' \in Places /\ cur' = cur /\ loop' = loop
    BY <1>5 DEF ResolveFails, TakeSlot, TypeOK, Goto, Places
  <2> QED BY <1>5, <2>5, <2>6, <2>7, <2>8, <2>9 DEF ResolveFails, TypeOK
<1>6. cur \in Slots
  BY DEF TypeOK
<1>7. {"Tcp", "Udp", "Listener", "Empty"} \subseteq Socks
  BY DEF Socks
<1>8. CASE ListenerFails
  <2>1. free_fibers' \in Seq(Slots)
    BY <1>8 DEF ListenerFails, TypeOK
  <2> QED BY <1>8, <2>1 DEF ListenerFails, TypeOK, pollerVars, timerVars, sockVars, outVars,
                            mainVars, control
<1> QED BY <1>1, <1>2, <1>3, <1>4, <1>5, <1>6, <1>7, <1>8
       DEF Creates, NewResolve, JoinResolve

\* child_iter keeps the types when it takes a child: swap_remove_front
\* leaves a list of slots.
LEMMA TakeChildType ==
  ASSUME TypeOK, NEW i \in DOMAIN Me.children, TakeChild(i)
  PROVE  TypeOK'
<1> USE DEF pollerVars, timerVars, sockVars, slotVars, outVars, mainVars, runnerVars, control
<1> DEFINE c == Me.children[i]
           op == IF HasResult(c) THEN "user" ELSE "get_child"
<1>1. cur \in Slots /\ Me \in Fiber
  BY MeType
<1>2. Me.children \in Seq(Slots) /\ c \in Slots
  BY <1>1 DEF Fiber
<1>3. SwapRemoveFront(Me.children, i) \in Seq(Slots)
  <2>1. Me.children # <<>> /\ Me.children[1] \in Slots
    BY <1>2
  <2>2. [Me.children EXCEPT ![i] = Me.children[1]] \in Seq(Slots)
    BY <1>2, <2>1
  <2>3. [Me.children EXCEPT ![i] = Me.children[1]] # <<>>
    BY <1>2, <2>1
  <2> QED BY <2>2, <2>3 DEF SwapRemoveFront
<1>4. ASSUME NEW f \in Fiber, Took(c, f)
      PROVE  fibers' \in [Slots -> Fiber]
  <2> DEFINE g == [fibers EXCEPT ![cur] = f]
  <2>1. g \in [Slots -> Fiber]
    BY <1>1, <1>4 DEF TypeOK
  <2>2. fibers' = [g EXCEPT ![c] = [g[c] EXCEPT !.result = "none"]]
    BY <1>4 DEF Took
  <2> HIDE DEF g
  <2>3. [g[c] EXCEPT !.result = "none"] \in Fiber
    BY <1>2, <2>1 DEF Fiber, Results
  <2> QED BY <1>2, <2>1, <2>2, <2>3
<1>5. [Me EXCEPT !.op = op] \in Fiber
  BY <1>1 DEF Fiber, Ops
<1>6. [Me EXCEPT !.op = op, !.children = SwapRemoveFront(@, i)] \in Fiber
  BY <1>1, <1>3 DEF Fiber, Ops
<1>7. fibers' \in [Slots -> Fiber]
  <2>1. CASE Live(c)
    BY <2>1, <1>4, <1>5 DEF TakeChild
  <2>2. CASE ~Live(c)
    BY <2>2, <1>4, <1>6 DEF TakeChild
  <2> QED BY <2>1, <2>2
<1>8. toexec' \in Seq(Slots) /\ free_fibers' \in Seq(Slots)
  <2>1. Append(toexec, c) \in Seq(Slots) /\ Append(free_fibers, c) \in Seq(Slots)
    BY <1>2 DEF TypeOK
  <2> QED BY <2>1 DEF TakeChild, push_toexec, TypeOK
<1> QED BY <1>7, <1>8 DEF TakeChild, TypeOK

\* The calls of a running fiber keep the types.
LEMMA CallsType ==
  ASSUME TypeOK, Calls
  PROVE  TypeOK'
<1> USE DEF pollerVars, timerVars, sockVars, slotVars, outVars, mainVars, runnerVars, control
<1>0. cur \in Slots /\ Me \in Fiber
  BY MeType
<1>1. CASE SocketTimeout
  <2>1. [Me EXCEPT !.timeout = ~@] \in Fiber
    BY <1>0 DEF Fiber
  <2>2. fibers' \in [Slots -> Fiber]
    BY <1>0, <1>1, <2>1, UpdateType DEF SocketTimeout
  <2> QED BY <1>1, <2>2 DEF SocketTimeout, OnlyFibers, TypeOK
<1>2. ASSUME NEW call, NEW dir \in Directions, IoReturns(call, dir)
      PROVE  TypeOK'
  <2>1. [Me EXCEPT !.op = "user"] \in Fiber
    BY <1>0 DEF Fiber, Ops
  <2>2. fibers' \in [Slots -> Fiber]
    BY <1>0, <1>2, <2>1, UpdateType DEF IoReturns
  <2>3. avail' \in [Slots -> SUBSET Directions]
    BY <1>0, <1>2 DEF IoReturns, TypeOK
  <2> QED BY <1>2, <2>2, <2>3 DEF IoReturns, TypeOK
<1>3. ASSUME NEW call \in Ops, NEW dir \in Directions, IoBlocks(call, dir)
      PROVE  TypeOK'
  <2> DEFINE rdy == IF MustRegister(dir) THEN dir ELSE Me.ready
             tk == IF Armed(call) THEN NextToken ELSE Me.wtoken
             out == IF Armed(call) THEN 0 ELSE Me.timed_out
             f == [Me EXCEPT !.op = call, !.ready = rdy, !.wtoken = tk,
                             !.timed_out = out]
  <2>1. NextToken \in Tokens \cup {None}
    BY DEF NextToken, TypeOK
  <2>2. /\ rdy \in Directions \cup {"none"}
        /\ tk \in Tokens \cup {None}
        /\ out \in 0 .. MaxTicks
    BY <1>0, <2>1, RunnerAssumption DEF Fiber
  <2>3. fibers' \in [Slots -> Fiber]
    <3>1. Update(cur, f)
      BY <1>3 DEF IoBlocks
    <3> HIDE DEF rdy, tk, out
    <3>2. f \in Fiber
      BY <1>0, <2>2 DEF Fiber
    <3> QED BY <1>0, <3>1, <3>2, UpdateType
  <2>4. slab' \in [Tokens -> Slots \cup {None}] /\ vacant' \in Seq(Tokens)
    BY <1>0, <1>3, TimerRegType DEF IoBlocks, TypeOK
  <2>5. edge' \subseteq Slots
    BY <1>0, <1>3 DEF IoBlocks, Registered, TypeOK
  <2>6. avail' \in [Slots -> SUBSET Directions]
    BY <1>0, <1>3 DEF IoBlocks, WouldBlock, TypeOK
  <2> QED BY <1>3, <2>3, <2>4, <2>5, <2>6 DEF IoBlocks, Goto, Places, TypeOK
<1>4. CASE RespChunk
  <2>1. [Me EXCEPT !.result = "chunk", !.op = "resp_chunk"] \in Fiber
    BY <1>0 DEF Fiber, Ops, Results
  <2>2. fibers' \in [Slots -> Fiber]
    BY <1>0, <1>4, <2>1, UpdateType DEF RespChunk
  <2> QED BY <1>4, <2>2 DEF RespChunk, OnlyFibers, Goto, Places, TypeOK
<1>5. CASE JoinMain
  <2>1. [Me EXCEPT !.op = "join_main"] \in Fiber
    BY <1>0 DEF Fiber, Ops
  <2>2. fibers' \in [Slots -> Fiber]
    BY <1>0, <1>5, <2>1, UpdateType DEF JoinMain
  <2> QED BY <1>0, <1>5, <2>2 DEF JoinMain, Goto, Places, TypeOK
<1>6. CASE NoChildren
  <2>1. [Me EXCEPT !.op = "user"] \in Fiber
    BY <1>0 DEF Fiber, Ops
  <2>2. fibers' \in [Slots -> Fiber]
    BY <1>0, <1>6, <2>1, UpdateType DEF NoChildren
  <2> QED BY <1>6, <2>2 DEF NoChildren, OnlyFibers, TypeOK
<1>7. CASE ChildBlocks
  <2>1. [Me EXCEPT !.op = "get_child"] \in Fiber
    BY <1>0 DEF Fiber, Ops
  <2>2. fibers' \in [Slots -> Fiber]
    BY <1>0, <1>7, <2>1, UpdateType DEF ChildBlocks
  <2> QED BY <1>7, <2>2 DEF ChildBlocks, OnlyFibers, Goto, Places, TypeOK
<1>8. CASE HibernateForRead
  <2> DEFINE fails == Me.sock \notin Evented /\ MustRegister("readable")
             f == [Me EXCEPT !.state = "Unstacked",
                             !.ready = IF fails THEN @ ELSE "readable"]
  <2>1. f \in Fiber
    BY <1>0 DEF Fiber, States, Directions
  <2>2. fibers' \in [Slots -> Fiber]
    BY <1>0, <1>8, <2>1, UpdateType DEF HibernateForRead
  <2>3. edge' \subseteq Slots
    BY <1>0, <1>8 DEF HibernateForRead, Registered, TypeOK
  <2> QED BY <1>8, <2>2, <2>3 DEF HibernateForRead, Goto, Places, TypeOK
<1>9. CASE HibernateJoinMain
  <2>1. [Me EXCEPT !.state = "Unstacked"] \in Fiber
    BY <1>0 DEF Fiber, States
  <2>2. fibers' \in [Slots -> Fiber]
    BY <1>0, <1>9, <2>1, UpdateType DEF HibernateJoinMain
  <2> QED BY <1>0, <1>9, <2>2 DEF HibernateJoinMain, Goto, Places, TypeOK
<1>10. CASE Return
  <2>1. PICK r \in {"none", "chunk"} :
          Update(cur, [Me EXCEPT !.result = r, !.state = "Closed"])
    BY <1>10 DEF Return
  <2>2. [Me EXCEPT !.result = r, !.state = "Closed"] \in Fiber
    BY <1>0 DEF Fiber, States, Results
  <2>3. fibers' \in [Slots -> Fiber]
    BY <1>0, <2>1, <2>2, UpdateType
  <2> QED BY <1>10, <2>3 DEF Return, OnlyFibers, Goto, Places, TypeOK
<1>11. {"read", "write", "accept"} \subseteq Ops
       /\ {"readable", "writable"} \subseteq Directions
  BY DEF Ops, Directions
<1>12. ASSUME NEW call, NEW dir \in Directions, IoUnregistered(call, dir)
       PROVE  TypeOK'
  <2>1. /\ [Me EXCEPT !.op = "user"] \in Fiber
        /\ [Me EXCEPT !.op = "user", !.ready = dir] \in Fiber
    BY <1>0 DEF Fiber, Ops
  <2>2. fibers' \in [Slots -> Fiber]
    BY <1>0, <1>12, <2>1, UpdateType DEF IoUnregistered
  <2>3. avail' \in [Slots -> SUBSET Directions]
    BY <1>0, <1>12 DEF IoUnregistered, WouldBlock, TypeOK
  <2> QED BY <1>12, <2>2, <2>3 DEF IoUnregistered, TypeOK
<1>13. CASE HandshakeFails
  <2>1. [Me EXCEPT !.sock = "Empty", !.op = "user"] \in Fiber
    BY <1>0 DEF Fiber, Ops, Socks
  <2>2. fibers' \in [Slots -> Fiber]
    BY <1>0, <1>13, <2>1, UpdateType DEF HandshakeFails
  <2>3. avail' \in [Slots -> SUBSET Directions] /\ edge' \subseteq Slots
    BY <1>0, <1>13 DEF HandshakeFails, SocketDropped, TypeOK
  <2> QED BY <1>13, <2>2, <2>3 DEF HandshakeFails, TypeOK
<1>14. ASSUME NEW left \in SUBSET Directions, Used(left)
       PROVE  avail' \in [Slots -> SUBSET Directions]
  BY <1>0, <1>14 DEF Used, TypeOK
<1>15. CASE HandshakeDone
  <2>1. [Me EXCEPT !.sock = "Tls", !.op = "user"] \in Fiber
    BY <1>0 DEF Fiber, Ops, Socks
  <2>2. fibers' \in [Slots -> Fiber]
    BY <1>0, <1>15, <2>1, UpdateType DEF HandshakeDone
  <2>3. avail' \in [Slots -> SUBSET Directions]
    BY <1>14, <1>15 DEF HandshakeDone
  <2> QED BY <1>15, <2>2, <2>3 DEF HandshakeDone, TypeOK
<1>16. CASE HandshakeBlocks
  <2> DEFINE tk == IF Armed("handshake") THEN NextToken ELSE Me.wtoken
             out == IF Armed("handshake") THEN 0 ELSE Me.timed_out
             f == [Me EXCEPT !.op = "handshake", !.sock = "TlsTemp",
                             !.ready = "readable", !.wtoken = tk,
                             !.timed_out = out]
  <2>1. tk \in Tokens \cup {None} /\ out \in 0 .. MaxTicks
    <3>1. NextToken \in Tokens \cup {None}
      BY DEF NextToken, TypeOK
    <3> QED BY <1>0, <3>1, RunnerAssumption DEF Fiber
  <2>2. fibers' \in [Slots -> Fiber]
    <3>1. Update(cur, f)
      BY <1>16 DEF HandshakeBlocks
    <3> HIDE DEF tk, out
    <3>2. f \in Fiber
      BY <1>0, <2>1 DEF Fiber, Ops, Socks, Directions
    <3> QED BY <1>0, <3>1, <3>2, UpdateType
  <2>3. PICK left \in SUBSET Directions :
           /\ Used(left)
           /\ edge' = IF "readable" \in left THEN edge \cup {cur} ELSE edge \ {cur}
    BY <1>16 DEF HandshakeBlocks
  <2>4. avail' \in [Slots -> SUBSET Directions] /\ edge' \subseteq Slots
    BY <1>0, <1>14, <2>3 DEF TypeOK
  <2>5. slab' \in [Tokens -> Slots \cup {None}] /\ vacant' \in Seq(Tokens)
    BY <1>0, <1>16, TimerRegType DEF HandshakeBlocks, TypeOK
  <2> QED BY <1>16, <2>2, <2>4, <2>5 DEF HandshakeBlocks, Goto, Places, TypeOK
<1> QED BY <1>1, <1>2, <1>3, <1>4, <1>5, <1>6, <1>7, <1>8, <1>9, <1>10, <1>11,
           <1>12, <1>13, <1>15, <1>16, TakeChildType
       DEF Calls

\* When the pool is empty and the fiber has no stack, there is one that no
\* fiber holds: there are as many stacks as slots (a pigeonhole argument).
LEMMA FreshStack ==
  ASSUME TypeOK, Me.stack = None, free_stacks = <<>>
  PROVE  PoppedStack(StacksInUse) \in Stacks \ StacksInUse
<1> DEFINE D == Slots \ {cur}
           h == [q \in D |-> fibers[q].stack]
           T == {h[q] : q \in D}
<1>1. cur \in Slots /\ Slots = 1 .. NumSlots /\ Stacks = 1 .. NumSlots
      /\ NumSlots \in Nat \ {0}
  BY PollerAssumption DEF TypeOK, Slots, Stacks
<1>2. IsFiniteSet(Slots) /\ Cardinality(Slots) = NumSlots
  BY <1>1, FS_Interval
<1>3. IsFiniteSet(D) /\ Cardinality(D) = NumSlots - 1
  BY <1>1, <1>2, FS_RemoveElement
<1>4. h \in Surjection(D, T)
  BY DEF Surjection
<1>5. IsFiniteSet(T) /\ Cardinality(T) <= NumSlots - 1
  <2> HIDE DEF D, h, T
  <2> QED BY <1>3, <1>4, FS_Surjection
<1>6. IsFiniteSet(Stacks) /\ Cardinality(Stacks) = NumSlots
  BY <1>1, FS_Interval
<1>7. \E s \in Stacks : s \notin T
  <2>1. SUFFICES ASSUME Stacks \subseteq T PROVE FALSE
    OBVIOUS
  <2>2. Cardinality(Stacks) <= Cardinality(T)
    BY <1>5, <2>1, FS_Subset
  <2>3. Cardinality(T) \in Nat
    BY <1>5, FS_CardinalityType
  <2> QED BY <1>1, <1>5, <1>6, <2>2, <2>3
<1>8. StacksInUse \subseteq T
  BY DEF StacksInUse, Me
<1>9. \E s \in Stacks : s \notin StacksInUse
  BY <1>7, <1>8
<1> QED BY <1>9 DEF PoppedStack

\* step_into keeps the types: the stack it gives the fiber is a stack.
LEMMA StepIntoType ==
  ASSUME TypeOK, StepInto
  PROVE  TypeOK'
<1> USE DEF pollerVars, timerVars, sockVars, slotVars, outVars, mainVars, runnerVars, control
<1>0. cur \in Slots /\ Me \in Fiber
  BY MeType
<1>1. PICK s \in Stacks : Me.stack = None => s = PoppedStack(StacksInUse)
  <2>1. CASE free_stacks = <<>> /\ Me.stack = None
    BY <2>1, FreshStack
  <2>2. CASE free_stacks # <<>>
    BY <2>2 DEF PoppedStack, TypeOK
  <2>3. 1 \in Stacks
    BY PollerAssumption DEF Stacks
  <2> QED BY <2>1, <2>2, <2>3
<1>2. [Me EXCEPT !.stack = s] \in Fiber /\ [Me EXCEPT !.state = "Closed"] \in Fiber
  BY <1>0 DEF Fiber, States
<1>3. fibers' \in [Slots -> Fiber]
  <2>1. CASE Me.func /\ Me.stack = None
    <3>1. Update(cur, [Me EXCEPT !.stack = s])
      BY <1>1, <2>1 DEF StepInto
    <3> QED BY <1>0, <1>2, <3>1, UpdateType
  <2>2. CASE Me.func /\ Me.stack # None
    BY <2>2 DEF StepInto, TypeOK
  <2>3. CASE ~Me.func
    BY <1>0, <1>2, <2>3, UpdateType DEF StepInto
  <2> QED BY <2>1, <2>2, <2>3
<1>4. free_stacks' \in Seq(Stacks)
  <2>1. free_stacks \in Seq(Stacks)
    BY DEF TypeOK
  <2>2. free_stacks # <<>> => Tail(free_stacks) \in Seq(Stacks)
    BY <2>1
  <2>3. free_stacks' = free_stacks \/ stack_pop
    BY DEF StepInto
  <2> QED BY <2>1, <2>2, <2>3 DEF stack_pop
<1> QED BY <1>3, <1>4 DEF StepInto, Goto, Places, TypeOK

\* unstack returns a stack to the pool and leaves a well-typed fiber.
LEMMA UnstackType ==
  ASSUME TypeOK, NEW p \in Slots, unstack(p)
  PROVE  Unstacked(p) \in Fiber /\ free_stacks' \in Seq(Stacks)
<1>1. fibers[p] \in Fiber
  BY DEF TypeOK
<1>2. Unstacked(p) \in Fiber
  <2>1. [fibers[p] EXCEPT !.stack = None, !.op = "start"] \in Fiber
    BY <1>1 DEF Fiber, Ops
  <2> QED BY <1>1, <2>1 DEF Unstacked
<1>3. CASE Unstacks(p)
  <2>1. fibers[p].stack \in Stacks
    BY <1>1, <1>3 DEF Unstacks, Fiber
  <2>2. <<fibers[p].stack>> \o free_stacks \in Seq(Stacks)
    BY <2>1 DEF TypeOK
  <2> QED BY <1>2, <1>3, <2>2 DEF unstack, stack_push
<1>4. CASE ~Unstacks(p)
  BY <1>2, <1>4 DEF unstack, TypeOK
<1> QED BY <1>3, <1>4

\* take_result moves a response, and only a response, to the main stack.
LEMMA TakeResultType ==
  ASSUME TypeOK, NEW p \in Slots, take_result(p)
  PROVE  results' \in Seq(Results)
<1>1. fibers[p].result \in Results
  BY DEF TypeOK, Fiber
<1>2. Append(results, fibers[p].result) \in Seq(Results)
  BY <1>1 DEF TypeOK
<1> QED BY <1>2 DEF take_result, TypeOK

\* The context switches keep the types.
LEMMA SwitchesType ==
  ASSUME TypeOK, Switches
  PROVE  TypeOK'
<1> USE DEF pollerVars, timerVars, sockVars, slotVars, outVars, mainVars, runnerVars, control
<1>0. cur \in Slots /\ Me \in Fiber /\ Append(toexec, cur) \in Seq(Slots)
      /\ Append(free_fibers, cur) \in Seq(Slots)
      /\ loop \in Places
  BY MeType DEF TypeOK, Places
<1>1. CASE Start
  <2>1. [Me EXCEPT !.state = "Stacked", !.param = FALSE, !.op = "user"] \in Fiber
    BY <1>0 DEF Fiber, Ops, States
  <2>2. fibers' \in [Slots -> Fiber]
    BY <1>0, <1>1, <2>1, UpdateType DEF Start
  <2> QED BY <1>1, <2>2 DEF Start, OnlyFibers, Goto, Places, TypeOK
<1>2. CASE ResumeIo
  <2>1. [Me EXCEPT !.wtoken = None, !.timed_out = 0,
                   !.op = IF Me.timed_out > 0 THEN "user" ELSE @] \in Fiber
    <3> DEFINE op == IF Me.timed_out > 0 THEN "user" ELSE Me.op
    <3>1. op \in Ops /\ 0 \in 0 .. MaxTicks
      BY <1>0, RunnerAssumption DEF Fiber, Ops
    <3> HIDE DEF op
    <3>2. [Me EXCEPT !.wtoken = None, !.timed_out = 0, !.op = op] \in Fiber
      BY <1>0, <3>1 DEF Fiber
    <3> QED BY <3>2 DEF op
  <2>2. fibers' \in [Slots -> Fiber]
    BY <1>0, <1>2, <2>1, UpdateType DEF ResumeIo
  <2>3. slab' \in [Tokens -> Slots \cup {None}] /\ vacant' \in Seq(Tokens)
    BY <1>2, TimerCancelType DEF ResumeIo
  <2> QED BY <1>2, <2>2, <2>3 DEF ResumeIo, Goto, Places, TypeOK
<1>3. CASE ResumeJoinMain
  <2>1. [Me EXCEPT !.result = "none", !.op = "user"] \in Fiber
    BY <1>0 DEF Fiber, Ops, Results
  <2>2. fibers' \in [Slots -> Fiber]
    BY <1>0, <1>3, <2>1, UpdateType DEF ResumeJoinMain
  <2> QED BY <1>3, <2>2 DEF ResumeJoinMain, OnlyFibers, Goto, Places, TypeOK
<1>4. CASE Resume
  <2>1. [Me EXCEPT !.op = IF @ = "resp_chunk" THEN "user" ELSE @] \in Fiber
    BY <1>0 DEF Fiber, Ops
  <2>2. fibers' \in [Slots -> Fiber]
    BY <1>0, <1>4, <2>1, UpdateType DEF Resume
  <2> QED BY <1>4, <2>2 DEF Resume, OnlyFibers, Goto, Places, TypeOK
<1>5. unstack(cur) => Unstacked(cur) \in Fiber /\ free_stacks' \in Seq(Stacks)
  BY <1>0, UnstackType
<1>6. SocketDropped(cur) => avail' \in [Slots -> SUBSET Directions]
                            /\ edge' \subseteq Slots
  BY <1>0 DEF SocketDropped, TypeOK
<1>7. CASE ClosedChild
  <2>1. Unstacked(cur) \in Fiber /\ free_stacks' \in Seq(Stacks)
    BY <1>5, <1>7 DEF ClosedChild
  <2>2. [Unstacked(cur) EXCEPT !.sock = "Empty"] \in Fiber
    BY <2>1 DEF Fiber, Socks
  <2>3. fibers' \in [Slots -> Fiber]
    BY <1>0, <1>7, <2>2, UpdateType DEF ClosedChild
  <2>4. Me.parent # None => Me.parent \in Slots
    BY <1>0 DEF Fiber
  <2> QED BY <1>6, <1>7, <2>1, <2>3, <2>4
         DEF ClosedChild, EnterFiber, Places, TypeOK
<1>8. CASE ClosedOrphan
  <2>1. Unstacked(cur) \in Fiber /\ free_stacks' \in Seq(Stacks)
    BY <1>5, <1>8 DEF ClosedOrphan
  <2>2. [Unstacked(cur) EXCEPT !.sock = "Empty", !.result = "none"] \in Fiber
    BY <2>1 DEF Fiber, Socks, Results
  <2>3. fibers' \in [Slots -> Fiber]
    BY <1>0, <1>8, <2>2, UpdateType DEF ClosedOrphan
  <2>4. results' \in Seq(Results)
    BY <1>0, <1>8, TakeResultType DEF ClosedOrphan
  <2> QED BY <1>0, <1>6, <1>8, <2>1, <2>3, <2>4
         DEF ClosedOrphan, Goto, TypeOK
<1>9. CASE ChunkToParent
  <2>1. Unstacked(cur) \in Fiber /\ free_stacks' \in Seq(Stacks)
    BY <1>5, <1>9 DEF ChunkToParent
  <2>2. fibers' \in [Slots -> Fiber]
    BY <1>0, <1>9, <2>1, UpdateType DEF ChunkToParent
  <2>3. Me.parent # None => Me.parent \in Slots
    BY <1>0 DEF Fiber
  <2> QED BY <1>9, <2>1, <2>2, <2>3 DEF ChunkToParent, EnterFiber, Places, TypeOK
<1>10. CASE ChunkToMain
  <2>1. Unstacked(cur) \in Fiber /\ free_stacks' \in Seq(Stacks)
    BY <1>5, <1>10 DEF ChunkToMain
  <2>2. [Unstacked(cur) EXCEPT !.result = "none"] \in Fiber
    BY <2>1 DEF Fiber, Results
  <2>3. fibers' \in [Slots -> Fiber]
    BY <1>0, <1>10, <2>2, UpdateType DEF ChunkToMain
  <2>4. results' \in Seq(Results)
    BY <1>0, <1>10, TakeResultType DEF ChunkToMain
  <2> QED BY <1>0, <1>10, <2>1, <2>3, <2>4
         DEF ChunkToMain, push_toexec, Goto, TypeOK
<1>11. CASE Waits
  <2>1. Unstacked(cur) \in Fiber /\ free_stacks' \in Seq(Stacks)
    BY <1>5, <1>11 DEF Waits
  <2>2. fibers' \in [Slots -> Fiber]
    BY <1>0, <1>11, <2>1, UpdateType DEF Waits
  <2> QED BY <1>0, <1>11, <2>1, <2>2 DEF Waits, Goto, TypeOK
<1> QED BY StepIntoType, <1>1, <1>2, <1>3, <1>4, <1>7, <1>8, <1>9, <1>10, <1>11
       DEF Switches

\* run() keeps the types: in particular the tick that a lookup counts down
\* is taken from a positive u8.
LEMMA RunType ==
  ASSUME TypeOK, Run
  PROVE  TypeOK'
<1> USE DEF pollerVars, timerVars, sockVars, slotVars, outVars, mainVars, runnerVars, control
<1>1. CASE BeginRun
  BY <1>1 DEF BeginRun, Places, TypeOK
<1>2. CASE ToexecDone
  BY <1>2 DEF ToexecDone, Places, TypeOK
<1>3. CASE TimedoutDone
  BY <1>3 DEF TimedoutDone, Goto, Places, TypeOK
<1>4. ASSUME NEW p \in Slots PROVE fibers[p] \in Fiber
  BY DEF TypeOK
<1>5. ASSUME NEW p \in Slots, Pops(p)
      PROVE  toexec' \in Seq(Slots)
  BY <1>5 DEF Pops, TypeOK
<1>6. ASSUME NEW p \in Slots, Expires(p)
      PROVE  timedout' \in Seq(Slots)
  BY <1>6 DEF Expires, TypeOK
<1>7. ASSUME NEW p \in Slots, SocketDropped(p)
      PROVE  avail' \in [Slots -> SUBSET Directions] /\ edge' \subseteq Slots
  BY <1>7 DEF SocketDropped, TypeOK
<1>8. ASSUME NEW p \in Slots, Execute(p)
      PROVE  TypeOK'
  BY <1>5, <1>8 DEF Execute, EnterFiber, Places, TypeOK
<1>9. ASSUME NEW p \in Slots, NoAddress(p)
      PROVE  TypeOK'
  <2>1. toexec' \in Seq(Slots)
    BY <1>5, <1>9 DEF NoAddress
  <2>2. avail' \in [Slots -> SUBSET Directions]
    BY <1>9 DEF NoAddress, TypeOK
  <2> QED BY <1>9, <2>1, <2>2 DEF NoAddress, TypeOK
<1>10. ASSUME NEW p \in Slots, MalformedAnswer(p)
       PROVE  TypeOK'
  BY <1>5, <1>10 DEF MalformedAnswer, Goto, Places, TypeOK
<1>11. ASSUME NEW p \in Slots, Connects(p)
       PROVE  TypeOK'
  <2>1. ASSUME NEW sock \in {"Tcp", "Udp"}
        PROVE  [fibers[p] EXCEPT !.wtoken = None, !.timed_out = 0,
                   !.connect_param = FALSE, !.sock = sock, !.ready = "writable"] \in Fiber
    <3>1. fibers[p] \in Fiber
      BY <1>4
    <3> QED BY <3>1, FewTicks DEF Fiber, Socks, Directions
  <2>2. fibers' \in [Slots -> Fiber]
    BY <1>11, <2>1, UpdateType DEF Connects
  <2>3. slab' \in [Tokens -> Slots \cup {None}] /\ vacant' \in Seq(Tokens)
    BY <1>11, TimerCancelType DEF Connects
  <2> QED BY <1>5, <1>7, <1>11, <2>2, <2>3 DEF Connects, TypeOK
<1>12. ASSUME NEW p \in Slots, ConnectFails(p)
       PROVE  TypeOK'
  <2>1. ASSUME NEW sock \in {"Empty", "Tcp", "Udp"}
        PROVE  [fibers[p] EXCEPT !.wtoken = None, !.timed_out = 0, !.connect_param = FALSE,
                   !.sock = sock, !.ready = IF sock = "Empty" THEN "none" ELSE "writable"] \in Fiber
    <3>1. fibers[p] \in Fiber
      BY <1>4
    <3>2. PICK ready \in Directions \cup {"none"} :
            ready = IF sock = "Empty" THEN "none" ELSE "writable"
      BY DEF Directions
    <3>3. [fibers[p] EXCEPT !.wtoken = None, !.timed_out = 0, !.connect_param = FALSE,
                            !.sock = sock, !.ready = ready] \in Fiber
      BY <3>1, FewTicks DEF Fiber, Socks
    <3> QED BY <3>2, <3>3
  <2>2. fibers' \in [Slots -> Fiber]
    BY <1>12, <2>1, UpdateType DEF ConnectFails
  <2>3. slab' \in [Tokens -> Slots \cup {None}] /\ vacant' \in Seq(Tokens)
    BY <1>12, TimerCancelType DEF ConnectFails
  <2> QED BY <1>5, <1>7, <1>12, <2>2, <2>3
         DEF ConnectFails, EnterFiber, Places, TypeOK
<1>13. ASSUME NEW p \in Slots, StaleTimer(p)
       PROVE  TypeOK'
  BY <1>6, <1>13 DEF StaleTimer, TypeOK
<1>14. ASSUME NEW p \in Slots, LookupTick(p)
       PROVE  TypeOK'
  <2>1. /\ slab' \in [Tokens -> Slots \cup {None}]
        /\ vacant' \in Seq(Tokens)
        /\ NextToken \in Tokens \cup {None}
    BY <1>14, TimerRegType DEF LookupTick
  <2>2. fibers[p].timed_out - 1 \in 0 .. MaxTicks
    <3>1. fibers[p].timed_out \in 0 .. MaxTicks /\ fibers[p].timed_out > 1
      BY <1>4, <1>14 DEF LookupTick, Fiber
    <3> QED BY <3>1, RunnerAssumption
  <2>3. [fibers[p] EXCEPT !.timed_out = @ - 1, !.wtoken = NextToken] \in Fiber
    <3>1. fibers[p] \in Fiber
      BY <1>4
    <3> QED BY <2>1, <2>2, <3>1 DEF Fiber
  <2>4. fibers' \in [Slots -> Fiber]
    BY <1>14, <2>3, UpdateType DEF LookupTick
  <2> QED BY <1>6, <1>14, <2>1, <2>4 DEF LookupTick, TypeOK
<1>15. ASSUME NEW p \in Slots, LookupExpires(p)
       PROVE  TypeOK'
  <2>1. [fibers[p] EXCEPT !.timed_out = 0, !.wtoken = None, !.sock = "Empty"] \in Fiber
    <3>1. fibers[p] \in Fiber
      BY <1>4
    <3> QED BY <3>1, FewTicks DEF Fiber, Socks
  <2>2. fibers' \in [Slots -> Fiber]
    BY <1>15, <2>1, UpdateType DEF LookupExpires
  <2> QED BY <1>6, <1>7, <1>15, <2>2 DEF LookupExpires, EnterFiber, Places, TypeOK
<1>16. ASSUME NEW p \in Slots, LookupUnderflow(p)
       PROVE  TypeOK'
  BY <1>6, <1>16 DEF LookupUnderflow, Goto, Places, TypeOK
<1>17. ASSUME NEW p \in Slots, TimerWakes(p)
       PROVE  TypeOK'
  <2>1. [fibers[p] EXCEPT !.wtoken = None, !.timed_out = 1] \in Fiber
    <3>1. fibers[p] \in Fiber
      BY <1>4
    <3> QED BY <3>1, FewTicks DEF Fiber
  <2>2. fibers' \in [Slots -> Fiber]
    BY <1>17, <2>1, UpdateType DEF TimerWakes
  <2> QED BY <1>6, <1>17, <2>2 DEF TimerWakes, EnterFiber, Places, TypeOK
<1> QED BY <1>1, <1>2, <1>3, <1>8, <1>9, <1>10, <1>11, <1>12, <1>13, <1>14, <1>15,
           <1>16, <1>17
       DEF Run

\* poll() keeps the types: what it queues are slots.
LEMMA PollType ==
  ASSUME TypeOK, Poll
  PROVE  TypeOK'
<1> USE DEF pollerVars, timerVars, sockVars, slotVars, outVars, mainVars, runnerVars, control
<1>1. CASE BeginPoll
  BY <1>1 DEF BeginPoll, Goto, Places, TypeOK
<1>2. CASE EventsDone
  BY <1>2 DEF EventsDone, Goto, Places, TypeOK
<1>3. CASE PollReturns
  BY <1>3 DEF PollReturns, Goto, Places, TypeOK
<1>4. ASSUME NEW p \in Slots, PollEvent(p)
      PROVE  TypeOK'
  <2>1. Append(toexec, p) \in Seq(Slots)
    BY DEF TypeOK
  <2> QED BY <1>4, <2>1 DEF PollEvent, push_toexec, TypeOK
<1>5. ASSUME NEW tk \in Tokens, PollTimer(tk)
      PROVE  TypeOK'
  <2>1. slab[tk] \in Slots
    BY <1>5 DEF PollTimer, TimerFires, TypeOK
  <2>2. Append(timedout, slab[tk]) \in Seq(Slots)
    BY <2>1 DEF TypeOK
  <2>3. <<tk>> \o vacant \in Seq(Tokens)
    BY DEF TypeOK
  <2>4. slab' \in [Tokens -> Slots \cup {None}]
    BY <1>5 DEF PollTimer, TimerFires, TypeOK
  <2> QED BY <1>5, <2>2, <2>3, <2>4 DEF PollTimer, TimerFires, TypeOK
<1> QED BY <1>1, <1>2, <1>3, <1>4, <1>5 DEF Poll

\* The main stack keeps the types: FiberRefs and TimerRefs are never
\* used more often than they exist.
LEMMA MainType ==
  ASSUME TypeOK, Main
  PROVE  TypeOK'
<1> USE DEF pollerVars, timerVars, sockVars, slotVars, outVars, mainVars, runnerVars, control
<1>1. CASE GetResponse
  BY <1>1 DEF GetResponse, TypeOK
<1>2. CASE GetFiber
  <2>1. Head(tomain_fibers) \in Slots /\ Tail(tomain_fibers) \in Seq(Slots)
    BY <1>2 DEF GetFiber, TypeOK
  <2>2. fiber_refs' \in [Slots -> Nat]
    <3>1. \A n \in Nat : n + 1 \in Nat
      OBVIOUS
    <3> QED BY <1>2, <2>1, <3>1 DEF GetFiber, TypeOK
  <2> QED BY <1>2, <2>1, <2>2 DEF GetFiber, TypeOK
<1>3. ASSUME NEW p \in Slots PROVE fibers[p] \in Fiber
  BY DEF TypeOK
<1>4. ASSUME NEW p \in Slots, ResumeFiber(p)
      PROVE  TypeOK'
  <2>1. PICK r \in {"none", "reply"} : Update(p, [fibers[p] EXCEPT !.result = r])
    BY <1>4 DEF ResumeFiber
  <2>2. [fibers[p] EXCEPT !.result = r] \in Fiber
    BY <1>3 DEF Fiber, Results
  <2>3. fibers' \in [Slots -> Fiber]
    BY <2>1, <2>2, UpdateType
  <2>4. Append(toexec, p) \in Seq(Slots)
    BY DEF TypeOK
  <2>5. fiber_refs' \in [Slots -> Nat]
    BY <1>4 DEF ResumeFiber, TypeOK
  <2> QED BY <1>4, <2>3, <2>4, <2>5 DEF ResumeFiber, push_toexec, TypeOK
<1>5. ASSUME NEW p \in Slots, DropTimerRef(p)
      PROVE  TypeOK'
  <2>1. [fibers[p] EXCEPT !.wtoken = None, !.result = "none", !.param = FALSE] \in Fiber
    BY <1>3 DEF Fiber, Results
  <2>2. fibers' \in [Slots -> Fiber]
    BY <1>5, <2>1, UpdateType DEF DropTimerRef, TypeOK
  <2>3. Append(free_fibers, p) \in Seq(Slots)
    BY DEF TypeOK
  <2>4. timer_refs' \in [Slots -> Nat]
    BY <1>5 DEF DropTimerRef, TypeOK
  <2>5. slab' \in [Tokens -> Slots \cup {None}] /\ vacant' \in Seq(Tokens)
    BY <1>5, TimerCancelType DEF DropTimerRef, TypeOK
  <2> QED BY <1>5, <2>2, <2>3, <2>4, <2>5 DEF DropTimerRef, TypeOK
<1> QED BY <1>1, <1>2, <1>4, <1>5 DEF Main

\* A runner without fibers is well typed.
LEMMA InitType == Init => TypeOK
<1> SUFFICES ASSUME Init PROVE TypeOK
  OBVIOUS
<1>1. Unallocated \in Fiber
  <2>1. NewFiber(FALSE, "Empty", FALSE, None) \in Fiber
    BY NewFiberType DEF Socks
  <2> QED BY <2>1 DEF Unallocated, Fiber, States
<1>2. vacant \in Seq(Tokens)
  BY PollerAssumption DEF Init, PollerInit, Tokens
<1>3. 1 \in Slots /\ 0 \in 0 .. NumSlots
  BY PollerAssumption DEF Slots
<1>4. /\ fibers \in [Slots -> Fiber]
      /\ slab \in [Tokens -> Slots \cup {None}]
      /\ avail \in [Slots -> SUBSET Directions]
      /\ fiber_refs \in [Slots -> Nat]
      /\ timer_refs \in [Slots -> Nat]
  BY <1>1 DEF Init, PollerInit
<1>5. /\ toexec \in Seq(Slots) /\ timedout \in Seq(Slots)
      /\ free_stacks \in Seq(Stacks) /\ free_fibers \in Seq(Slots)
      /\ tomain_fibers \in Seq(Slots) /\ results \in Seq(Results)
  BY DEF Init, PollerInit
<1>6. edge \subseteq Slots /\ smth \in BOOLEAN /\ nfibers \in 0 .. NumSlots
      /\ cur \in Slots /\ at \in Places /\ loop \in {"toexec", "timedout"}
  BY <1>3 DEF Init, PollerInit, Places
<1> QED BY <1>2, <1>4, <1>5, <1>6 DEF TypeOK

\* The runner stays well typed, for any number of slots, tokens and ticks
\* and for every program (every value of Usage): no index leaves the fibers
\* vector (fibers[pos], panics otherwise), no token leaves the slab, and the
\* u8 of a lookup stays within the ticks it was given.
THEOREM TypeCorrect == Spec => []TypeOK
<1>1. TypeOK /\ [Next]_vars => TypeOK'
  <2> SUFFICES ASSUME TypeOK, [Next]_vars PROVE TypeOK'
    OBVIOUS
  <2>1. CASE Environment
    BY <2>1 DEF Environment, SocketReady, TypeOK, pollerVars, timerVars,
                runnerVars, slotVars, outVars, mainVars, control
  <2>2. CASE UNCHANGED vars
    BY <2>2 DEF vars, pollerVars, timerVars, sockVars, runnerVars, slotVars,
                outVars, mainVars, control, TypeOK
  <2> QED BY <2>1, <2>2, CreatesType, CallsType, SwitchesType, RunType, PollType,
             MainType
         DEF Next
<1> QED BY <1>1, InitType, PTL DEF Spec

-----------------------------------------------------------------------------
(* No stack of the pool is ever in two places.                             *)

\* A step that leaves the pool alone and gives no fiber a stack it did not
\* have keeps the stacks apart.
LEMMA StacksKept ==
  ASSUME TypeOK, StacksDistinct, UNCHANGED free_stacks,
         \A p \in Slots : fibers'[p].stack \in {fibers[p].stack, None}
  PROVE  StacksDistinct'
<1>1. \A i \in DOMAIN free_stacks : free_stacks[i] # None
  BY PollerAssumption DEF TypeOK, Stacks, None
<1>2. \A p \in Slots : fibers[p].stack \notin Range(free_stacks)
  BY DEF StacksDistinct
<1>3. \A p \in Slots : fibers'[p].stack \notin Range(free_stacks')
  BY <1>1, <1>2 DEF Range
<1> QED BY <1>3 DEF StacksDistinct

\* The common case: one fiber changes and keeps its stack.
LEMMA UpdateKeeps ==
  ASSUME TypeOK, StacksDistinct, UNCHANGED free_stacks,
         NEW p \in Slots, NEW f, Update(p, f), f.stack = fibers[p].stack
  PROVE  StacksDistinct'
<1>1. \A q \in Slots : fibers'[q].stack = fibers[q].stack
  BY DEF Update, TypeOK
<1> QED BY <1>1, StacksKept

\* stepped_out: the stack moves from the fiber to the front of the pool.
LEMMA UnstackKeeps ==
  ASSUME TypeOK, StacksDistinct, NEW p \in Slots, unstack(p),
         NEW f, Update(p, f), f.stack = Unstacked(p).stack
  PROVE  StacksDistinct'
<1>0. fibers[p] \in Fiber /\ free_stacks \in Seq(Stacks)
  BY DEF TypeOK
<1>1. CASE ~Unstacks(p)
  BY <1>1, UpdateKeeps DEF unstack, Unstacked
<1>2. CASE Unstacks(p)
  <2> DEFINE s == fibers[p].stack
  <2>1. s \in Stacks /\ s # None
    BY <1>0, <1>2 DEF Unstacks, Fiber
  <2>2. free_stacks' = <<s>> \o free_stacks
    BY <1>2 DEF unstack, stack_push
  <2>3. f.stack = None
    BY <1>0, <1>2 DEF Unstacked, Fiber
  <2>4. /\ fibers'[p].stack = None
        /\ \A q \in Slots \ {p} : fibers'[q].stack = fibers[q].stack
    BY <2>3 DEF Update, TypeOK
  <2>5. /\ DOMAIN free_stacks' = 1 .. (Len(free_stacks) + 1)
        /\ free_stacks'[1] = s
        /\ \A i \in DOMAIN free_stacks' : i # 1 =>
              i - 1 \in DOMAIN free_stacks /\ free_stacks'[i] = free_stacks[i - 1]
    BY <1>0, <2>1, <2>2
  <2>6. \A q \in Slots : fibers[q].stack \notin Range(free_stacks)
    BY DEF StacksDistinct
  <2>7. \A i \in DOMAIN free_stacks : free_stacks[i] \in Stacks /\ free_stacks[i] # s
    BY <1>0, <2>6 DEF Range
  <2>8. None \notin Stacks
    BY DEF None, Stacks
  <2>9. \A q \in Slots : q # p => fibers[q].stack # s
    BY <2>1 DEF StacksDistinct
  <2>10. ASSUME NEW q \in Slots, NEW i \in DOMAIN free_stacks'
         PROVE  fibers'[q].stack # free_stacks'[i]
    <3>1. CASE q = p
      BY <3>1, <2>1, <2>4, <2>5, <2>7, <2>8
    <3>2. CASE q # p
      <4>1. \A j \in DOMAIN free_stacks : fibers[q].stack # free_stacks[j]
        BY <2>6 DEF Range
      <4> QED BY <3>2, <4>1, <2>4, <2>5, <2>9
    <3> QED BY <3>1, <3>2
  <2>11. ASSUME NEW i \in DOMAIN free_stacks', NEW j \in DOMAIN free_stacks', i # j
         PROVE  free_stacks'[i] # free_stacks'[j]
    <3>1. \A k, l \in DOMAIN free_stacks : k # l => free_stacks[k] # free_stacks[l]
      BY DEF StacksDistinct
    <3>2. i \in Nat /\ j \in Nat
      BY <2>5
    <3>3. i # 1 /\ j # 1 => i - 1 # j - 1
      BY <2>11, <3>2
    <3> QED BY <2>5, <2>7, <2>11, <3>1, <3>3
  <2>12. \A q, r \in Slots : q # r /\ fibers'[q].stack # None
            => fibers'[q].stack # fibers'[r].stack
    BY <2>4 DEF StacksDistinct
  <2>13. \A q \in Slots : fibers'[q].stack \notin Range(free_stacks')
    BY <2>10 DEF Range
  <2> QED BY <2>11, <2>12, <2>13 DEF StacksDistinct
<1> QED BY <1>1, <1>2

\* step_into: the stack comes off the pool, or is one that nobody has.
LEMMA StepIntoKeeps ==
  ASSUME TypeOK, StacksDistinct, StepInto
  PROVE  StacksDistinct'
<1>0. cur \in Slots /\ Me \in Fiber /\ Me = fibers[cur] /\ free_stacks \in Seq(Stacks)
  BY MeType DEF TypeOK, Me
<1>1. CASE ~Me.func
  <2>1. [Me EXCEPT !.state = "Closed"].stack = fibers[cur].stack
    BY <1>0 DEF Fiber
  <2> QED BY <1>0, <1>1, <2>1, UpdateKeeps DEF StepInto
<1>2. CASE Me.func /\ Me.stack # None
  BY <1>2, StacksKept DEF StepInto
<1>3. CASE Me.func /\ Me.stack = None
  <2> DEFINE s == PoppedStack(StacksInUse)
  <2>1. /\ fibers'[cur].stack = s
        /\ \A q \in Slots \ {cur} : fibers'[q].stack = fibers[q].stack
    <3>1. [Me EXCEPT !.stack = s].stack = s
      BY <1>0 DEF Fiber
    <3>2. Update(cur, [Me EXCEPT !.stack = s])
      BY <1>3 DEF StepInto
    <3> HIDE DEF s
    <3> QED BY <1>0, <3>1, <3>2 DEF Update, TypeOK
  <2>2. stack_pop
    BY <1>3 DEF StepInto
  <2>3. \A q \in Slots : fibers[q].stack # None => fibers[q].stack # s
    <3>1. CASE free_stacks = <<>>
      <4>1. s \notin StacksInUse
        BY <1>3, <3>1, FreshStack
      <4> QED BY <4>1 DEF StacksInUse
    <3>2. CASE free_stacks # <<>>
      <4>1. s = free_stacks[1] /\ 1 \in DOMAIN free_stacks
        BY <1>0, <3>2 DEF PoppedStack
      <4> QED BY <4>1 DEF StacksDistinct, Range
    <3> QED BY <3>1, <3>2
  <2>4. \A i \in DOMAIN free_stacks' :
           /\ i + 1 \in DOMAIN free_stacks
           /\ i + 1 # 1
           /\ free_stacks'[i] = free_stacks[i + 1]
    <3>1. CASE free_stacks = <<>>
      BY <2>2, <3>1 DEF stack_pop
    <3>2. CASE free_stacks # <<>>
      BY <1>0, <2>2, <3>2 DEF stack_pop
    <3> QED BY <3>1, <3>2
  <2>5. \A i \in DOMAIN free_stacks' : free_stacks'[i] # s
    <3>1. CASE free_stacks = <<>>
      BY <2>4, <3>1
    <3>2. CASE free_stacks # <<>>
      <4>1. s = free_stacks[1] /\ 1 \in DOMAIN free_stacks
        BY <1>0, <3>2 DEF PoppedStack
      <4> HIDE DEF s
      <4> QED BY <2>4, <4>1 DEF StacksDistinct
    <3> QED BY <3>1, <3>2
  <2> HIDE DEF s
  <2>6. ASSUME NEW q \in Slots, NEW i \in DOMAIN free_stacks'
        PROVE  fibers'[q].stack # free_stacks'[i]
    <3>1. CASE q = cur
      BY <2>1, <2>5, <3>1
    <3>2. CASE q # cur
      BY <2>1, <2>4, <3>2 DEF StacksDistinct, Range
    <3> QED BY <3>1, <3>2
  <2>7. \A q, r \in Slots : q # r /\ fibers'[q].stack # None
           => fibers'[q].stack # fibers'[r].stack
    BY <2>1, <2>3 DEF StacksDistinct
  <2>8. \A i, j \in DOMAIN free_stacks' : i # j => free_stacks'[i] # free_stacks'[j]
    <3>1. \A i, j \in DOMAIN free_stacks' : i # j => i + 1 # j + 1
      <4>1. free_stacks' \in Seq(Stacks)
        BY <1>0, <2>2 DEF stack_pop
      <4> QED BY <4>1
    <3> QED BY <2>4, <3>1 DEF StacksDistinct
  <2>9. \A q \in Slots : fibers'[q].stack \notin Range(free_stacks')
    BY <2>6 DEF Range
  <2> QED BY <2>7, <2>8, <2>9 DEF StacksDistinct
<1> QED BY <1>1, <1>2, <1>3

\* register: the slot it overwrites has no stack afterwards.
LEMMA RegisterKeeps ==
  ASSUME TypeOK, StacksDistinct, UNCHANGED free_stacks,
         NEW f \in Fiber, f.stack = None, NEW schedule, register(f, schedule)
  PROVE  StacksDistinct'
<1> DEFINE g == [fibers EXCEPT ![NewSlot] = f]
<1>1. NewSlot \in Slots /\ f.parent \in Slots \cup {None}
  BY DEF register, TakeSlot, SlotLeft, Fiber
<1>2. /\ g \in [Slots -> Fiber]
      /\ \A p \in Slots : g[p].stack \in {fibers[p].stack, None}
  BY <1>1 DEF TypeOK
<1>3. fibers' = WithParent(f.parent, g)
  BY DEF register
<1> HIDE DEF g
<1>4. \A p \in Slots : fibers'[p].stack = g[p].stack
  <2>1. CASE f.parent = None
    BY <1>3, <2>1 DEF WithParent
  <2>2. CASE f.parent \in Slots /\ f.parent # None
    <3> DEFINE h == [g[f.parent] EXCEPT
                        !.children = Append(g[f.parent].children, NewSlot)]
    <3>1. g[f.parent] \in Fiber
      BY <1>2, <2>2
    <3>2. h.stack = g[f.parent].stack
      BY <3>1 DEF Fiber
    <3>3. fibers' = [g EXCEPT ![f.parent] = h]
      BY <1>3, <2>2 DEF WithParent
    <3> HIDE DEF h
    <3> QED BY <1>2, <2>2, <3>2, <3>3
  <2> QED BY <1>1, <2>1, <2>2
<1> QED BY <1>2, <1>4, StacksKept

\* A new fiber has no stack, so creating one keeps the stacks apart, even in
\* a slot whose fiber had one (it is unmapped with it).
LEMMA CreatesKeep ==
  ASSUME TypeOK, StacksDistinct, Creates
  PROVE  StacksDistinct'
<1>0. cur \in Slots /\ {"Tcp", "Udp", "Listener", "Empty"} \subseteq Socks
  BY DEF TypeOK, Socks
<1>1. ASSUME NEW func \in BOOLEAN, NEW sock \in Socks, NEW param \in BOOLEAN,
             NEW parent \in Slots \cup {None}
      PROVE  /\ NewFiber(func, sock, param, parent) \in Fiber
             /\ NewFiber(func, sock, param, parent).stack = None
  BY NewFiberType DEF NewFiber
<1>2. ASSUME NEW sock \in Socks, NEW call, New(sock, call)
      PROVE  StacksDistinct'
  BY <1>1, <1>2, RegisterKeeps DEF New
<1>3. ASSUME NEW sock \in Socks, NEW call, Join(sock, call)
      PROVE  StacksDistinct'
  BY <1>0, <1>1, <1>3, RegisterKeeps DEF Join
<1>4. NextToken \in Tokens \cup {None}
  BY DEF NextToken, TypeOK
<1>5. ASSUME NEW func \in BOOLEAN, NewTimer(func)
      PROVE  StacksDistinct'
  <2> DEFINE f == [NewFiber(func, "Empty", func, None) EXCEPT
                      !.result = IF func THEN "none" ELSE "chunk",
                      !.wtoken = NextToken]
  <2>1. NewFiber(func, "Empty", func, None) \in Fiber
        /\ NewFiber(func, "Empty", func, None).stack = None
    BY <1>0, <1>1
  <2>2. f \in Fiber /\ f.stack = None
    BY <1>4, <2>1 DEF Fiber, Results
  <2>3. register(f, FALSE) /\ UNCHANGED free_stacks
    BY <1>5 DEF NewTimer
  <2> HIDE DEF f
  <2> QED BY <2>2, <2>3, RegisterKeeps
<1>6. ASSUME NEW parent \in Slots \cup {None}, Resolve(parent)
      PROVE  StacksDistinct'
  <2> DEFINE f(ticks) == [NewFiber(TRUE, "Udp", TRUE, parent) EXCEPT
                             !.connect_param = TRUE, !.ready = "readable",
                             !.wtoken = NextToken, !.timed_out = ticks]
  <2>1. PICK ticks \in TimeoutTicks : register(f(ticks), FALSE)
    BY <1>6 DEF Resolve
  <2>2. NewFiber(TRUE, "Udp", TRUE, parent) \in Fiber
        /\ NewFiber(TRUE, "Udp", TRUE, parent).stack = None
    BY <1>0, <1>1
  <2>3. f(ticks) \in Fiber /\ f(ticks).stack = None
    <3>1. ticks \in 0 .. MaxTicks
      BY <2>1, RunnerAssumption DEF TimeoutTicks
    <3> QED BY <1>4, <2>2, <3>1 DEF Fiber, Directions
  <2> HIDE DEF f
  <2> QED BY <1>6, <2>1, <2>3, RegisterKeeps DEF Resolve
<1>7. CASE ResolveFails
  <2> DEFINE f(ticks) == [NewFiber(TRUE, "Empty", FALSE, None) EXCEPT !.timed_out = ticks]
  <2>1. PICK ticks \in TimeoutTicks : Update(NewSlot, f(ticks))
    BY <1>7 DEF ResolveFails
  <2>2. NewFiber(TRUE, "Empty", FALSE, None) \in Fiber
        /\ NewFiber(TRUE, "Empty", FALSE, None).stack = None
    BY <1>0, <1>1
  <2>3. f(ticks).stack = None
    BY <2>2 DEF Fiber
  <2> HIDE DEF f
  <2>4. \A p \in Slots : fibers'[p].stack \in {fibers[p].stack, None}
    BY <2>1, <2>3 DEF Update, TypeOK
  <2> QED BY <1>7, <2>4, StacksKept DEF ResolveFails
<1>8. CASE ListenerFails
  BY <1>8, StacksKept DEF ListenerFails, pollerVars
<1> QED BY <1>0, <1>2, <1>3, <1>5, <1>6, <1>7, <1>8 DEF Creates, NewResolve, JoinResolve

\* No call of a running fiber touches a stack: those move in the switches.
LEMMA CallsKeep ==
  ASSUME TypeOK, StacksDistinct, Calls
  PROVE  StacksDistinct'
<1> USE DEF pollerVars, timerVars, OnlyFibers
<1>0. cur \in Slots /\ Me \in Fiber /\ Me = fibers[cur]
  BY MeType DEF Me
<1>1. CASE SocketTimeout
  <2>1. [Me EXCEPT !.timeout = ~@].stack = Me.stack
    BY <1>0 DEF Fiber
  <2> QED BY <1>0, <1>1, <2>1, UpdateKeeps DEF SocketTimeout
<1>2. ASSUME NEW call, NEW dir, IoReturns(call, dir)
      PROVE  StacksDistinct'
  <2>1. [Me EXCEPT !.op = "user"].stack = Me.stack
    BY <1>0 DEF Fiber
  <2> QED BY <1>0, <1>2, <2>1, UpdateKeeps DEF IoReturns
<1>3. ASSUME NEW call, NEW dir, IoBlocks(call, dir)
      PROVE  StacksDistinct'
  <2> DEFINE rdy == IF MustRegister(dir) THEN dir ELSE Me.ready
             tk == IF Armed(call) THEN NextToken ELSE Me.wtoken
             out == IF Armed(call) THEN 0 ELSE Me.timed_out
             f == [Me EXCEPT !.op = call, !.ready = rdy, !.wtoken = tk,
                             !.timed_out = out]
  <2>1. Update(cur, f) /\ UNCHANGED free_stacks
    BY <1>3 DEF IoBlocks
  <2> HIDE DEF rdy, tk, out
  <2>2. f.stack = Me.stack
    BY <1>0 DEF Fiber
  <2> HIDE DEF f
  <2> QED BY <1>0, <2>1, <2>2, UpdateKeeps
<1>4. CASE RespChunk
  <2>1. [Me EXCEPT !.result = "chunk", !.op = "resp_chunk"].stack = Me.stack
    BY <1>0 DEF Fiber
  <2> QED BY <1>0, <1>4, <2>1, UpdateKeeps DEF RespChunk
<1>5. CASE JoinMain
  <2>1. [Me EXCEPT !.op = "join_main"].stack = Me.stack
    BY <1>0 DEF Fiber
  <2> QED BY <1>0, <1>5, <2>1, UpdateKeeps DEF JoinMain
<1>6. CASE NoChildren
  <2>1. [Me EXCEPT !.op = "user"].stack = Me.stack
    BY <1>0 DEF Fiber
  <2> QED BY <1>0, <1>6, <2>1, UpdateKeeps DEF NoChildren
<1>7. CASE ChildBlocks
  <2>1. [Me EXCEPT !.op = "get_child"].stack = Me.stack
    BY <1>0 DEF Fiber
  <2> QED BY <1>0, <1>7, <2>1, UpdateKeeps DEF ChildBlocks
<1>8. ASSUME NEW i \in DOMAIN Me.children, TakeChild(i)
      PROVE  StacksDistinct'
  <2> DEFINE c == Me.children[i]
  <2>1. c \in Slots
    BY <1>0 DEF Fiber
  <2>2. PICK f : /\ Took(c, f)
                 /\ \E op, ch : f = [Me EXCEPT !.op = op, !.children = ch]
    <3> DEFINE op == IF HasResult(c) THEN "user" ELSE "get_child"
    <3>1. [Me EXCEPT !.op = op] = [Me EXCEPT !.op = op, !.children = Me.children]
      BY <1>0 DEF Fiber
    <3> HIDE DEF op
    <3>2. \/ Took(c, [Me EXCEPT !.op = op, !.children = Me.children])
          \/ Took(c, [Me EXCEPT !.op = op, !.children = SwapRemoveFront(Me.children, i)])
      BY <1>8, <3>1 DEF TakeChild, op
    <3> QED BY <3>2
  <2>3. f.stack = Me.stack
    BY <1>0, <2>2 DEF Fiber
  <2>4. \A p \in Slots : fibers'[p].stack = fibers[p].stack
    <3> DEFINE g == [fibers EXCEPT ![cur] = f]
    <3>1. DOMAIN g = Slots /\ \A p \in Slots : g[p].stack = fibers[p].stack
      BY <1>0, <2>3 DEF TypeOK
    <3>2. fibers' = [g EXCEPT ![c] = [g[c] EXCEPT !.result = "none"]]
      BY <2>2 DEF Took
    <3>3. [g[c] EXCEPT !.result = "none"].stack = g[c].stack
      <4>1. g[c] \in Fiber \/ \E op, ch : g[c] = [Me EXCEPT !.op = op, !.children = ch]
        BY <1>0, <2>1, <2>2 DEF TypeOK
      <4> HIDE DEF g
      <4> QED BY <1>0, <4>1 DEF Fiber
    <3> HIDE DEF g
    <3> QED BY <2>1, <3>1, <3>2, <3>3
  <2> QED BY <1>8, <2>4, StacksKept DEF TakeChild
<1>9. CASE HibernateForRead
  <2>1. \A r : [Me EXCEPT !.state = "Unstacked", !.ready = r].stack = Me.stack
    BY <1>0 DEF Fiber
  <2> QED BY <1>0, <1>9, <2>1, UpdateKeeps DEF HibernateForRead
<1>10. CASE HibernateJoinMain
  <2>1. [Me EXCEPT !.state = "Unstacked"].stack = Me.stack
    BY <1>0 DEF Fiber
  <2> QED BY <1>0, <1>10, <2>1, UpdateKeeps DEF HibernateJoinMain
<1>11. CASE Return
  <2>1. \A r : [Me EXCEPT !.result = r, !.state = "Closed"].stack = Me.stack
    BY <1>0 DEF Fiber
  <2>2. PICK r \in {"none", "chunk"} :
          Update(cur, [Me EXCEPT !.result = r, !.state = "Closed"])
    BY <1>11 DEF Return
  <2> QED BY <1>0, <1>11, <2>1, <2>2, UpdateKeeps DEF Return
<1>12. ASSUME NEW call, NEW dir, IoUnregistered(call, dir)
       PROVE  StacksDistinct'
  <2>1. /\ [Me EXCEPT !.op = "user"].stack = Me.stack
        /\ [Me EXCEPT !.op = "user", !.ready = dir].stack = Me.stack
    BY <1>0 DEF Fiber
  <2> QED BY <1>0, <1>12, <2>1, UpdateKeeps DEF IoUnregistered
<1>13. CASE HandshakeFails \/ HandshakeDone
  <2>1. \A s : [Me EXCEPT !.sock = s, !.op = "user"].stack = Me.stack
    BY <1>0 DEF Fiber
  <2> QED BY <1>0, <1>13, <2>1, UpdateKeeps DEF HandshakeFails, HandshakeDone
<1>14. CASE HandshakeBlocks
  <2>1. \A tk, out : [Me EXCEPT !.op = "handshake", !.sock = "TlsTemp",
                         !.ready = "readable", !.wtoken = tk,
                         !.timed_out = out].stack = Me.stack
    BY <1>0 DEF Fiber
  <2> QED BY <1>0, <1>14, <2>1, UpdateKeeps DEF HandshakeBlocks
<1> QED BY <1>1, <1>2, <1>3, <1>4, <1>5, <1>6, <1>7, <1>8, <1>9, <1>10, <1>11,
           <1>12, <1>13, <1>14
       DEF Calls

\* The rest of the context switches.
LEMMA SwitchesKeep ==
  ASSUME TypeOK, StacksDistinct, Switches
  PROVE  StacksDistinct'
<1> USE DEF pollerVars, timerVars, OnlyFibers
<1>0. cur \in Slots /\ Me \in Fiber /\ Me = fibers[cur]
  BY MeType DEF Me
<1>1. CASE Start
  <2>1. [Me EXCEPT !.state = "Stacked", !.param = FALSE, !.op = "user"].stack = Me.stack
    BY <1>0 DEF Fiber
  <2> QED BY <1>0, <1>1, <2>1, UpdateKeeps DEF Start
<1>2. CASE ResumeIo
  <2> DEFINE op == IF Me.timed_out > 0 THEN "user" ELSE Me.op
             f == [Me EXCEPT !.wtoken = None, !.timed_out = 0, !.op = op]
  <2>1. Update(cur, f) /\ UNCHANGED free_stacks
    BY <1>2 DEF ResumeIo
  <2> HIDE DEF op
  <2>2. f.stack = Me.stack
    BY <1>0 DEF Fiber
  <2> HIDE DEF f
  <2> QED BY <1>0, <2>1, <2>2, UpdateKeeps
<1>3. CASE ResumeJoinMain
  <2>1. [Me EXCEPT !.result = "none", !.op = "user"].stack = Me.stack
    BY <1>0 DEF Fiber
  <2> QED BY <1>0, <1>3, <2>1, UpdateKeeps DEF ResumeJoinMain
<1>4. CASE Resume
  <2>1. [Me EXCEPT !.op = IF @ = "resp_chunk" THEN "user" ELSE @].stack = Me.stack
    BY <1>0 DEF Fiber
  <2> QED BY <1>0, <1>4, <2>1, UpdateKeeps DEF Resume
<1>5. unstack(cur) => Unstacked(cur) \in Fiber
  BY <1>0, UnstackType
<1>6. CASE ClosedChild
  <2>1. [Unstacked(cur) EXCEPT !.sock = "Empty"].stack = Unstacked(cur).stack
    BY <1>5, <1>6 DEF ClosedChild, Fiber
  <2> QED BY <1>0, <1>6, <2>1, UnstackKeeps DEF ClosedChild
<1>7. CASE ClosedOrphan
  <2>1. [Unstacked(cur) EXCEPT !.sock = "Empty", !.result = "none"].stack
           = Unstacked(cur).stack
    BY <1>5, <1>7 DEF ClosedOrphan, Fiber
  <2> QED BY <1>0, <1>7, <2>1, UnstackKeeps DEF ClosedOrphan
<1>8. CASE ChunkToParent
  BY <1>0, <1>8, UnstackKeeps DEF ChunkToParent
<1>9. CASE ChunkToMain
  <2>1. [Unstacked(cur) EXCEPT !.result = "none"].stack = Unstacked(cur).stack
    BY <1>5, <1>9 DEF ChunkToMain, Fiber
  <2> QED BY <1>0, <1>9, <2>1, UnstackKeeps DEF ChunkToMain
<1>10. CASE Waits
  BY <1>0, <1>10, UnstackKeeps DEF Waits
<1> QED BY StepIntoKeeps, <1>1, <1>2, <1>3, <1>4, <1>6, <1>7, <1>8, <1>9, <1>10
       DEF Switches

\* run(), poll() and the main stack never touch a stack themselves.
LEMMA MainKeeps ==
  ASSUME TypeOK, StacksDistinct, Run \/ Poll \/ Main
  PROVE  StacksDistinct'
<1> USE DEF pollerVars, timerVars, runnerVars
<1>0. \A p \in Slots : fibers[p] \in Fiber
  BY DEF TypeOK
<1>1. ASSUME NEW p \in Slots, UNCHANGED free_stacks,
             NEW f, Update(p, f), f.stack = fibers[p].stack
      PROVE  StacksDistinct'
  BY <1>1, UpdateKeeps
<1>2. ASSUME UNCHANGED <<fibers, free_stacks>>
      PROVE  StacksDistinct'
  BY <1>2, StacksKept
<1>3. CASE BeginRun \/ ToexecDone \/ TimedoutDone \/ Poll \/ GetResponse \/ GetFiber
  BY <1>2, <1>3 DEF BeginRun, ToexecDone, TimedoutDone, Poll, BeginPoll, EventsDone,
       PollReturns, PollEvent, PollTimer, GetResponse, GetFiber
<1>4. ASSUME NEW p \in Slots,
             Execute(p) \/ NoAddress(p) \/ MalformedAnswer(p) \/ StaleTimer(p)
                \/ LookupUnderflow(p)
      PROVE  StacksDistinct'
  BY <1>2, <1>4 DEF Execute, NoAddress, MalformedAnswer, StaleTimer, LookupUnderflow
<1>5. ASSUME NEW p \in Slots, Connects(p) \/ ConnectFails(p)
      PROVE  StacksDistinct'
  <2>1. \A s, r : [fibers[p] EXCEPT !.wtoken = None, !.timed_out = 0,
             !.connect_param = FALSE, !.sock = s, !.ready = r].stack = fibers[p].stack
    BY <1>0 DEF Fiber
  <2> QED BY <1>1, <1>5, <2>1 DEF Connects, ConnectFails
<1>6. ASSUME NEW p \in Slots, LookupTick(p)
      PROVE  StacksDistinct'
  <2>1. [fibers[p] EXCEPT !.timed_out = @ - 1, !.wtoken = NextToken].stack
           = fibers[p].stack
    BY <1>0 DEF Fiber
  <2> QED BY <1>1, <1>6, <2>1 DEF LookupTick
<1>7. ASSUME NEW p \in Slots, LookupExpires(p)
      PROVE  StacksDistinct'
  <2>1. [fibers[p] EXCEPT !.timed_out = 0, !.wtoken = None, !.sock = "Empty"].stack
           = fibers[p].stack
    BY <1>0 DEF Fiber
  <2> QED BY <1>1, <1>7, <2>1 DEF LookupExpires
<1>8. ASSUME NEW p \in Slots, TimerWakes(p)
      PROVE  StacksDistinct'
  <2>1. [fibers[p] EXCEPT !.wtoken = None, !.timed_out = 1].stack = fibers[p].stack
    BY <1>0 DEF Fiber
  <2> QED BY <1>1, <1>8, <2>1 DEF TimerWakes
<1>9. ASSUME NEW p \in Slots, ResumeFiber(p)
      PROVE  StacksDistinct'
  <2>1. PICK r \in {"none", "reply"} : Update(p, [fibers[p] EXCEPT !.result = r])
    BY <1>9 DEF ResumeFiber
  <2>2. [fibers[p] EXCEPT !.result = r].stack = fibers[p].stack
    BY <1>0 DEF Fiber
  <2> QED BY <1>1, <1>9, <2>1, <2>2 DEF ResumeFiber
<1>10. ASSUME NEW p \in Slots, DropTimerRef(p)
       PROVE  StacksDistinct'
  <2>1. [fibers[p] EXCEPT !.wtoken = None, !.result = "none", !.param = FALSE].stack
           = fibers[p].stack
    BY <1>0 DEF Fiber
  <2> QED BY <1>1, <1>2, <1>10, <2>1 DEF DropTimerRef
<1> QED BY <1>3, <1>4, <1>5, <1>6, <1>7, <1>8, <1>9, <1>10 DEF Run, Main

\* Whatever the program does, no two fibers of a runner ever share a stack and
\* the pool never hands out one that a fiber still has: stack_pop in
\* step_into and stack_push in unstack.
THEOREM StacksStayDistinct == Spec => []StacksDistinct
<1>1. Init => StacksDistinct
  BY NewFiberType DEF Init, PollerInit, StacksDistinct, Range, Unallocated, NewFiber
<1>2. TypeOK /\ StacksDistinct /\ [Next]_vars => StacksDistinct'
  <2> SUFFICES ASSUME TypeOK, StacksDistinct, [Next]_vars PROVE StacksDistinct'
    OBVIOUS
  <2>1. CASE Environment
    BY <2>1, StacksKept DEF Environment, SocketReady, runnerVars
  <2>2. CASE UNCHANGED vars
    BY <2>2, StacksKept DEF vars, runnerVars, pollerVars
  <2> QED BY <2>1, <2>2, CreatesKeep, CallsKeep, SwitchesKeep, MainKeeps DEF Next
<1> QED BY <1>1, <1>2, TypeCorrect, PTL DEF Spec

-----------------------------------------------------------------------------
(***************************************************************************)
(* No event of a socket is lost and no lookup runs early, for any number   *)
(* of fibers.  The program may do all that Usage can name, except that one *)
(* with lookups has no children: a child that outlives its parent steps    *)
(* into whatever has the parent's slot by then (stepped_out), and that may *)
(* be a fiber in a lookup.  And mio registers what it is given: FiberInt's *)
(* register() sets `ready' also when mio refuses, and no event comes.      *)
(***************************************************************************)

\* The calls that make children, and those that start a lookup.
Joins == {"join_tcp", "join_udp", "join_resolve"}
Lookups == {"new_resolve", "join_resolve"}

NoStaleParent ==
    /\ Joins \cap Usage = {} \/ Lookups \cap Usage = {}
    /\ "register_error" \notin Usage

-----------------------------------------------------------------------------
(* The inductive invariant.                                                *)

\* Control is in p, on its way into it or out of it.
Entered(p) == cur = p /\ at \in {"step_into", "resumed", "fiber", "stepped_out"}

\* A fiber in a lookup has not run, unless the lookup is over and its socket
\* gone, and no child leads into it.
LookupOK(p) ==
    LET f == fibers[p] IN
    /\ Joins \cap Usage = {} => f.parent = None
    /\ Lookups \cap Usage = {} => ~f.connect_param
    /\ f.connect_param /\ f.sock # "Empty" => f.op = "start" /\ ~Entered(p)
    /\ f.connect_param /\ f.wtoken # None => f.timed_out > 0

\* A blocked call has its socket registered for what it waits for, and an event
\* of that kind is on its way to the fiber.
EventOK(p) ==
    LET f == fibers[p] IN
    /\ ~f.func => f.op = "start"
    /\ SwitchedOut(p) /\ f.op \in SocketOps =>
         /\ f.ready = WaitsFor(f.op)
         /\ ~f.connect_param /\ f.ready \in avail[p] => p \in edge \/ Scheduled(p)

\* A fiber that runs has a function.
RunsFunc == at \in {"resumed", "fiber"} => Me.func

WakeInv == RunsFunc /\ \A p \in Slots : LookupOK(p) /\ EventOK(p)

-----------------------------------------------------------------------------
(* Steps that change one slot.                                             *)

\* The fields that the invariant reads are the same.
Alike(f, g) ==
    /\ f.parent = g.parent /\ f.connect_param = g.connect_param /\ f.sock = g.sock
    /\ f.op = g.op /\ f.wtoken = g.wtoken /\ f.timed_out = g.timed_out
    /\ f.func = g.func /\ f.ready = g.ready

\* Control comes no closer to q.
Quiet(q) == (SwitchedOut(q)' => SwitchedOut(q)) /\ (Entered(q)' => Entered(q))

\* The socket of q stays as it is, and no event of it is lost.
Undisturbed(q) ==
    /\ avail'[q] = avail[q]
    /\ q \in edge => q \in edge'
    /\ Scheduled(q) => Scheduled(q)'

LEMMA SlotKept ==
  ASSUME WakeInv, NEW q \in Slots, Alike(fibers'[q], fibers[q]), Quiet(q), Undisturbed(q)
  PROVE  LookupOK(q)' /\ EventOK(q)'
<1>1. LookupOK(q) /\ EventOK(q)
  BY DEF WakeInv
<1>2. LookupOK(q)'
  BY <1>1 DEF LookupOK, Alike, Quiet
<1>3. EventOK(q)'
  BY <1>1 DEF EventOK, Alike, Quiet, Undisturbed
<1> QED BY <1>2, <1>3

\* One slot changes.
LEMMA OneSlot ==
  ASSUME WakeInv, TypeOK, NEW p \in Slots, NEW f, Update(p, f),
         \A q \in Slots : q # p => Quiet(q) /\ Undisturbed(q),
         LookupOK(p)', EventOK(p)', RunsFunc'
  PROVE  WakeInv'
<1>1. ASSUME NEW q \in Slots, q # p PROVE LookupOK(q)' /\ EventOK(q)'
  <2>1. fibers'[q] = fibers[q]
    BY <1>1 DEF Update, TypeOK
  <2>2. Alike(fibers'[q], fibers[q])
    BY <2>1 DEF Alike
  <2> QED BY <1>1, <2>2, SlotKept
<1> QED BY <1>1 DEF WakeInv

\* None does.
LEMMA NoSlot ==
  ASSUME WakeInv, UNCHANGED fibers, \A q \in Slots : Quiet(q) /\ Undisturbed(q), RunsFunc'
  PROVE  WakeInv'
<1>1. ASSUME NEW q \in Slots PROVE LookupOK(q)' /\ EventOK(q)'
  <2>1. Alike(fibers'[q], fibers[q])
    BY DEF Alike
  <2> QED BY <2>1, SlotKept
<1> QED BY <1>1 DEF WakeInv

\* Where control goes.
OnStack == {"main", "events", "timers", "toexec", "timedout"}

LEMMA Stays == ASSUME UNCHANGED control PROVE \A q \in Slots : Quiet(q)
  BY DEF control, Quiet, SwitchedOut, Entered

LEMMA Goes == ASSUME NEW place, Goto(place) PROVE \A q \in Slots : q # cur => Quiet(q)
  BY DEF Goto, Quiet, SwitchedOut, Entered

LEMMA Enters ==
  ASSUME NEW p, EnterFiber(p), at \in {"toexec", "timedout", "stepped_out"}
  PROVE  \A q \in Slots : q # p => Quiet(q)
  BY DEF EnterFiber, Quiet, SwitchedOut, Entered

LEMMA StaysOnStack ==
  ASSUME cur' = cur, at \in OnStack, at' \in OnStack \cup {"panic"}
  PROVE  \A q \in Slots : Quiet(q)
  BY DEF OnStack, Quiet, SwitchedOut, Entered

\* What becomes of the queue and of the sockets.
LEMMA QueueSame == ASSUME UNCHANGED toexec PROVE \A q : Scheduled(q) => Scheduled(q)'
  BY DEF Scheduled

LEMMA QueuePushed ==
  ASSUME TypeOK, NEW p \in Slots, push_toexec(p)
  PROVE  Scheduled(p)' /\ \A q : Scheduled(q) => Scheduled(q)'
<1>1. toexec \in Seq(Slots) /\ toexec' = Append(toexec, p)
  BY DEF TypeOK, push_toexec
<1>2. /\ DOMAIN toexec' = 1 .. Len(toexec) + 1 /\ toexec'[Len(toexec) + 1] = p
      /\ \A i \in DOMAIN toexec : i \in DOMAIN toexec' /\ toexec'[i] = toexec[i]
  BY <1>1
<1>3. Len(toexec) + 1 \in DOMAIN toexec'
  BY <1>1, <1>2
<1> QED BY <1>2, <1>3 DEF Scheduled, Range

LEMMA QueuePopped ==
  ASSUME TypeOK, NEW p \in Slots, Pops(p)
  PROVE  \A q : q # p /\ Scheduled(q) => Scheduled(q)'
<1>1. /\ toexec \in Seq(Slots) /\ toexec # <<>> /\ toexec' = Tail(toexec) /\ p = toexec[1]
  BY DEF TypeOK, Pops
<1>2. \A i \in DOMAIN toexec : i # 1 => i - 1 \in DOMAIN toexec' /\ toexec'[i - 1] = toexec[i]
  BY <1>1
<1>3. ASSUME NEW q, q # p, Scheduled(q) PROVE Scheduled(q)'
  <2>1. PICK i \in DOMAIN toexec : toexec[i] = q
    BY <1>3 DEF Scheduled, Range
  <2>2. i - 1 \in DOMAIN toexec' /\ toexec'[i - 1] = q
    BY <1>1, <1>2, <1>3, <2>1
  <2> QED BY <2>2 DEF Scheduled, Range
<1> QED BY <1>3

LEMMA SocketsSame ==
  ASSUME UNCHANGED <<avail, edge>>, \A q : Scheduled(q) => Scheduled(q)'
  PROVE  \A q \in Slots : Undisturbed(q)
  BY DEF Undisturbed

\* The socket of p is closed.
LEMMA SocketClosed ==
  ASSUME TypeOK, NEW p \in Slots, SocketDropped(p),
         \A q : q # p /\ Scheduled(q) => Scheduled(q)'
  PROVE  avail'[p] = {} /\ \A q \in Slots : q # p => Undisturbed(q)
  BY DEF SocketDropped, Undisturbed, TypeOK

-----------------------------------------------------------------------------
(* Creating fibers.                                                        *)

\* register(): the new fiber is as it is given, and its parent has one child more.
LEMMA RegisterFields ==
  ASSUME TypeOK, NEW f \in Fiber, NEW schedule, register(f, schedule)
  PROVE  /\ NewSlot \in Slots /\ Alike(fibers'[NewSlot], f)
         /\ \A q \in Slots : q # NewSlot => Alike(fibers'[q], fibers[q])
<1> DEFINE g == [fibers EXCEPT ![NewSlot] = f]
<1>1. NewSlot \in Slots /\ f.parent \in Slots \cup {None}
  BY DEF register, TakeSlot, SlotLeft, Fiber
<1>2. /\ g \in [Slots -> Fiber] /\ g[NewSlot] = f
      /\ \A q \in Slots : q # NewSlot => g[q] = fibers[q]
  BY <1>1 DEF TypeOK
<1>3. fibers' = WithParent(f.parent, g)
  BY DEF register
<1> HIDE DEF g
<1>4. \A q \in Slots : Alike(fibers'[q], g[q])
  <2>1. CASE f.parent = None
    BY <1>3, <2>1 DEF WithParent, Alike
  <2>2. CASE f.parent \in Slots /\ f.parent # None
    <3> DEFINE h == [g[f.parent] EXCEPT
                        !.children = Append(g[f.parent].children, NewSlot)]
    <3>1. g[f.parent] \in Fiber
      BY <1>2, <2>2
    <3>2. Alike(h, g[f.parent])
      BY <3>1 DEF Fiber, Alike
    <3>3. fibers' = [g EXCEPT ![f.parent] = h]
      BY <1>3, <2>2 DEF WithParent
    <3>4. \A q \in Slots : Alike(g[q], g[q])
      BY DEF Alike
    <3> HIDE DEF h
    <3> QED BY <1>2, <2>2, <3>2, <3>3, <3>4
  <2> QED BY <1>1, <2>1, <2>2
<1> QED BY <1>1, <1>2, <1>4

\* TakeSlot closes the socket that the slot had; overwriting the running fiber
\* is a panic.
LEMMA TakesSlot ==
  ASSUME TypeOK, TakeSlot, at \in {"main", "fiber"}, NEW n, n = NewSlot,
         UNCHANGED toexec \/ push_toexec(n)
  PROVE  /\ n \in Slots /\ ~Entered(n)' /\ avail'[n] = {}
         /\ \A q \in Slots : q # n => Quiet(q) /\ Undisturbed(q)
         /\ at' \in {"resumed", "fiber"} => at = "fiber" /\ cur' = cur /\ cur # n
<1>1. n \in Slots /\ SocketDropped(n) /\ cur' = cur
      /\ at' = IF at = "fiber" /\ n = cur THEN "panic" ELSE at
  BY DEF TakeSlot, SlotLeft, Goto
<1>2. \A q : Scheduled(q) => Scheduled(q)'
  BY <1>1, QueueSame, QueuePushed
<1>3. avail'[n] = {} /\ \A q \in Slots : q # n => Undisturbed(q)
  BY <1>1, <1>2, SocketClosed
<1>4. \A q \in Slots : q # n => Quiet(q)
  BY <1>1 DEF Quiet, SwitchedOut, Entered
<1>5. ~Entered(n)'
  BY <1>1 DEF Entered
<1> QED BY <1>1, <1>3, <1>4, <1>5

\* A new fiber is as the invariant wants it, with a lookup or without.
Fresh(f) ==
    /\ f.op = "start"
    /\ Joins \cap Usage = {} => f.parent = None
    /\ Lookups \cap Usage = {} => ~f.connect_param
    /\ f.connect_param => f.timed_out > 0

LEMMA FreshOK ==
  ASSUME NEW n \in Slots, NEW f, Fresh(f), Alike(fibers'[n], f), ~Entered(n)'
  PROVE  LookupOK(n)' /\ EventOK(n)'
  BY DEF Fresh, Alike, LookupOK, EventOK, SocketOps

LEMMA RegisterKeepsWake ==
  ASSUME TypeOK, WakeInv, NEW f \in Fiber, NEW schedule, register(f, schedule),
         at \in {"main", "fiber"}, Fresh(f)
  PROVE  WakeInv'
<1>1. PICK n : n = NewSlot
  OBVIOUS
<1>2. TakeSlot /\ (UNCHANGED toexec \/ push_toexec(n))
  BY <1>1 DEF register
<1>3. /\ n \in Slots /\ ~Entered(n)'
      /\ \A q \in Slots : q # n => Quiet(q) /\ Undisturbed(q)
      /\ at' \in {"resumed", "fiber"} => at = "fiber" /\ cur' = cur /\ cur # n
  BY <1>1, <1>2, TakesSlot
<1>4. Alike(fibers'[n], f) /\ \A q \in Slots : q # n => Alike(fibers'[q], fibers[q])
  BY <1>1, RegisterFields
<1>5. LookupOK(n)' /\ EventOK(n)'
  BY <1>3, <1>4, FreshOK
<1>6. \A q \in Slots : q # n => LookupOK(q)' /\ EventOK(q)'
  BY <1>3, <1>4, SlotKept
<1>7. RunsFunc'
  <2>1. cur \in Slots
    BY DEF TypeOK
  <2>2. ASSUME at' \in {"resumed", "fiber"} PROVE fibers'[cur'].func
    BY <1>3, <1>4, <2>1, <2>2 DEF WakeInv, RunsFunc, Me, Alike
  <2> QED BY <2>2 DEF RunsFunc, Me
<1> QED BY <1>5, <1>6, <1>7 DEF WakeInv

LEMMA CreatesWake ==
  ASSUME NoStaleParent, TypeOK, WakeInv, Creates
  PROVE  WakeInv'
<1>0. cur \in Slots /\ {"Tcp", "Udp", "Listener", "Empty"} \subseteq Socks
  BY DEF TypeOK, Socks
<1>1. ASSUME NEW func \in BOOLEAN, NEW sock \in Socks, NEW param \in BOOLEAN,
             NEW parent \in Slots \cup {None}, parent = None \/ Joins \cap Usage # {}
      PROVE  /\ NewFiber(func, sock, param, parent) \in Fiber
             /\ Fresh(NewFiber(func, sock, param, parent))
  BY <1>1, NewFiberType DEF NewFiber, Fresh
<1>2. NextToken \in Tokens \cup {None}
  BY DEF NextToken, TypeOK
<1>3. ASSUME NEW sock \in Socks, NEW call, New(sock, call) PROVE WakeInv'
  <2>1. at \in {"main", "fiber"}
    BY <1>3 DEF New, OnMain, InFiber
  <2> QED BY <1>1, <1>3, <2>1, RegisterKeepsWake DEF New
<1>4. ASSUME NEW sock \in Socks, NEW call \in Joins, Join(sock, call) PROVE WakeInv'
  <2>1. at \in {"main", "fiber"} /\ Joins \cap Usage # {}
    BY <1>4 DEF Join, InFiber
  <2> QED BY <1>0, <1>1, <1>4, <2>1, RegisterKeepsWake DEF Join
<1>5. ASSUME NEW func \in BOOLEAN, NewTimer(func) PROVE WakeInv'
  <2> DEFINE e == NewFiber(func, "Empty", func, None)
             f == [e EXCEPT !.result = IF func THEN "none" ELSE "chunk", !.wtoken = NextToken]
  <2>1. e \in Fiber /\ Fresh(e) /\ ~e.connect_param
    BY <1>0, <1>1 DEF NewFiber
  <2>2. register(f, FALSE) /\ at \in {"main", "fiber"}
    BY <1>5 DEF NewTimer, OnMain
  <2> HIDE DEF e
  <2>3. f \in Fiber
    BY <1>2, <2>1 DEF Fiber, Results
  <2>4. Fresh(f)
    BY <2>1 DEF Fresh, Fiber
  <2> HIDE DEF f
  <2> QED BY <2>2, <2>3, <2>4, RegisterKeepsWake
<1>6. ASSUME NEW parent \in Slots \cup {None}, Resolve(parent), at \in {"main", "fiber"},
             parent = None \/ Joins \cap Usage # {}, Lookups \cap Usage # {}
      PROVE  WakeInv'
  <2> DEFINE e == NewFiber(TRUE, "Udp", TRUE, parent)
             f(ticks) == [e EXCEPT !.connect_param = TRUE, !.ready = "readable",
                             !.wtoken = NextToken, !.timed_out = ticks]
  <2>1. PICK ticks \in TimeoutTicks : register(f(ticks), FALSE)
    BY <1>6 DEF Resolve
  <2>2. e \in Fiber /\ Fresh(e)
    BY <1>0, <1>1, <1>6
  <2> HIDE DEF e
  <2>3. ticks \in 0 .. MaxTicks /\ ticks > 0
    BY <2>1, RunnerAssumption DEF TimeoutTicks
  <2>4. f(ticks) \in Fiber
    BY <1>2, <2>2, <2>3 DEF Fiber, Directions
  <2>5. Fresh(f(ticks))
    BY <1>6, <2>2, <2>3 DEF Fresh, Fiber
  <2> HIDE DEF f
  <2> QED BY <1>6, <2>1, <2>4, <2>5, RegisterKeepsWake
<1>7. CASE ResolveFails
  <2> DEFINE e == NewFiber(TRUE, "Empty", FALSE, None)
             f(ticks) == [e EXCEPT !.timed_out = ticks]
  <2>0. PICK n : n = NewSlot
    OBVIOUS
  <2>1. PICK ticks \in TimeoutTicks : Update(n, f(ticks))
    BY <1>7, <2>0 DEF ResolveFails
  <2>2. e \in Fiber /\ Fresh(e) /\ ~e.connect_param
    BY <1>0, <1>1 DEF NewFiber
  <2> HIDE DEF e
  <2>3. Fresh(f(ticks))
    BY <2>2 DEF Fresh, Fiber
  <2>4. TakeSlot /\ UNCHANGED toexec /\ at \in {"main", "fiber"}
    BY <1>7 DEF ResolveFails, OnMain, InFiber
  <2>5. /\ n \in Slots /\ ~Entered(n)'
        /\ \A q \in Slots : q # n => Quiet(q) /\ Undisturbed(q)
        /\ at' \in {"resumed", "fiber"} => at = "fiber" /\ cur' = cur /\ cur # n
    BY <2>0, <2>4, TakesSlot
  <2> HIDE DEF f
  <2>6. fibers'[n] = f(ticks) /\ \A q \in Slots : q # n => fibers'[q] = fibers[q]
    BY <2>1, <2>5 DEF Update, TypeOK
  <2>7. LookupOK(n)' /\ EventOK(n)'
    BY <2>3, <2>5, <2>6, FreshOK DEF Alike
  <2>8. RunsFunc'
    <3>1. ASSUME at' \in {"resumed", "fiber"} PROVE fibers'[cur'].func
      BY <1>0, <2>5, <2>6, <3>1 DEF WakeInv, RunsFunc, Me
    <3> QED BY <3>1 DEF RunsFunc, Me
  <2> QED BY <2>1, <2>5, <2>7, <2>8, OneSlot
<1>8. ASSUME NewResolve PROVE WakeInv'
  BY <1>6, <1>8 DEF NewResolve, OnMain, InFiber, Lookups
<1>9. ASSUME JoinResolve PROVE WakeInv'
  BY <1>0, <1>6, <1>9 DEF JoinResolve, InFiber, Lookups, Joins
<1>10. ~ListenerFails
  BY DEF ListenerFails, NoStaleParent
<1> QED BY <1>0, <1>3, <1>4, <1>5, <1>7, <1>8, <1>9, <1>10 DEF Creates, Joins

-----------------------------------------------------------------------------
(* Calls of a running fiber.                                               *)

\* What is known of the fiber that control is in.
LEMMA Running ==
  ASSUME TypeOK, WakeInv, NEW p, p = cur, at \in {"step_into", "resumed", "fiber", "stepped_out"}
  PROVE  /\ p \in Slots /\ fibers[p] \in Fiber /\ Me = fibers[p] /\ LookupOK(p) /\ EventOK(p)
         /\ fibers[p].connect_param => fibers[p].sock = "Empty"
         /\ at \in {"resumed", "fiber"} => fibers[p].func
<1>1. p \in Slots /\ fibers[p] \in Fiber /\ Me = fibers[p]
  BY DEF TypeOK, Me
<1> QED BY <1>1 DEF WakeInv, RunsFunc, LookupOK, Entered

\* The running fiber goes on, or steps out in a call that is not on a socket.
LEMMA GoesOn ==
  ASSUME TypeOK, WakeInv, NEW p, p = cur, at \in {"resumed", "fiber"}, NEW f, Update(p, f),
         cur' = cur, at' \in {"fiber", "stepped_out", "panic"},
         f.parent = fibers[p].parent, f.connect_param = fibers[p].connect_param,
         f.func = fibers[p].func, f.sock # "Empty" => fibers[p].sock # "Empty",
         f.wtoken \in {fibers[p].wtoken, None},
         f.timed_out = fibers[p].timed_out \/ f.wtoken = None,
         at' = "stepped_out" => f.op \notin SocketOps,
         \A q \in Slots : q # p => Undisturbed(q)
  PROVE  WakeInv'
<1>1. /\ p \in Slots /\ fibers[p] \in Fiber /\ LookupOK(p)
      /\ fibers[p].connect_param => fibers[p].sock = "Empty"
      /\ fibers[p].func
  BY Running
<1>2. fibers'[p] = f
  BY <1>1 DEF Update, TypeOK
<1>3. LookupOK(p)'
  BY <1>1, <1>2 DEF LookupOK
<1>4. EventOK(p)'
  BY <1>1, <1>2 DEF EventOK, SwitchedOut
<1>5. RunsFunc'
  BY <1>1, <1>2 DEF RunsFunc, Me
<1>6. \A q \in Slots : q # p => Quiet(q)
  BY DEF Quiet, SwitchedOut, Entered
<1> QED BY <1>1, <1>3, <1>4, <1>5, <1>6, OneSlot

\* It blocks in a call on its socket, which is registered for what it waits for
\* and not ready for it, or has the event.
LEMMA Blocks ==
  ASSUME TypeOK, WakeInv, NEW p, p = cur, at = "fiber", NEW f, Update(p, f),
         Goto("stepped_out"), fibers[p].sock # "Empty",
         f.parent = fibers[p].parent, f.connect_param = fibers[p].connect_param,
         f.func = fibers[p].func, f.ready = WaitsFor(f.op),
         f.ready \in avail'[p] => p \in edge',
         \A q \in Slots : q # p => Undisturbed(q)
  PROVE  WakeInv'
<1>1. /\ p \in Slots /\ fibers[p] \in Fiber /\ LookupOK(p) /\ ~fibers[p].connect_param
      /\ fibers[p].func
  BY Running DEF Fiber
<1>2. fibers'[p] = f
  BY <1>1 DEF Update, TypeOK
<1>3. LookupOK(p)'
  BY <1>1, <1>2 DEF LookupOK
<1>4. EventOK(p)'
  BY <1>1, <1>2 DEF EventOK
<1>5. RunsFunc'
  BY DEF RunsFunc, Goto
<1> QED BY <1>1, <1>3, <1>4, <1>5, Goes, OneSlot

\* Only the socket of the running fiber changes.
LEMMA OwnSocket ==
  ASSUME TypeOK, NEW p \in Slots, \A q \in Slots : q # p => avail'[q] = avail[q],
         edge \ {p} \subseteq edge', UNCHANGED toexec
  PROVE  \A q \in Slots : q # p => Undisturbed(q)
  BY QueueSame DEF Undisturbed

LEMMA TakeChildWake ==
  ASSUME TypeOK, WakeInv, NEW i \in DOMAIN Me.children, TakeChild(i)
  PROVE  WakeInv'
<1>0. PICK p : p = cur
  OBVIOUS
<1>1. /\ at = "fiber" /\ p \in Slots /\ Me = fibers[p] /\ Me \in Fiber
      /\ UNCHANGED <<avail, edge, control>> /\ fibers[p].func /\ LookupOK(p) /\ EventOK(p)
      /\ fibers[p].connect_param => fibers[p].sock = "Empty"
  <2>1. at = "fiber" /\ UNCHANGED <<avail, edge, control>>
    BY DEF TakeChild, InLoop, InFiber, sockVars, control
  <2> QED BY <1>0, <2>1, Running
<1>2. PICK c \in Slots : c = Me.children[i]
  BY <1>1 DEF Fiber
<1>3. \E op \in {"user", "get_child"} :
        \E ch : Took(c, [Me EXCEPT !.op = op, !.children = ch])
  <2>0. PICK o : o = IF HasResult(c) THEN "user" ELSE "get_child"
    OBVIOUS
  <2>1. [Me EXCEPT !.op = o] = [Me EXCEPT !.op = o, !.children = Me.children]
    BY <1>1 DEF Fiber
  <2>2. o \in {"user", "get_child"}
    BY <2>0
  <2>3. \/ Took(c, [Me EXCEPT !.op = o])
        \/ Took(c, [Me EXCEPT !.op = o, !.children = SwapRemoveFront(Me.children, i)])
    BY <1>2, <2>0 DEF TakeChild
  <2>4. \E ch : Took(c, [Me EXCEPT !.op = o, !.children = ch])
    BY <2>1, <2>3, Zenon
  <2> WITNESS o \in {"user", "get_child"}
  <2> QED BY <2>4
<1>3a. PICK op \in {"user", "get_child"} :
         \E ch : Took(c, [Me EXCEPT !.op = op, !.children = ch])
  BY <1>3
<1>3b. PICK ch : Took(c, [Me EXCEPT !.op = op, !.children = ch])
  BY <1>3a
<1>4. PICK f : f = [Me EXCEPT !.op = op, !.children = ch]
  OBVIOUS
<1>5. /\ f.parent = Me.parent /\ f.connect_param = Me.connect_param /\ f.sock = Me.sock
      /\ f.op = op /\ f.wtoken = Me.wtoken /\ f.timed_out = Me.timed_out
      /\ f.func = Me.func /\ f.ready = Me.ready /\ DOMAIN f = DOMAIN Me
  BY <1>1, <1>4 DEF Fiber
<1>6. PICK g : g = [fibers EXCEPT ![p] = f]
  OBVIOUS
<1>7. g[p] = f /\ DOMAIN g = Slots /\ \A q \in Slots : q # p => g[q] = fibers[q]
  BY <1>1, <1>6 DEF TypeOK
<1>8. fibers' = [g EXCEPT ![c] = [g[c] EXCEPT !.result = "none"]]
  BY <1>0, <1>3b, <1>4, <1>6 DEF Took
<1>9. DOMAIN g[c] = DOMAIN fibers[c] /\ fibers[c] \in Fiber
  BY <1>1, <1>5, <1>7 DEF TypeOK
<1>10. \A q \in Slots : Alike(fibers'[q], g[q])
  <2>1. Alike([g[c] EXCEPT !.result = "none"], g[c])
    BY <1>9 DEF Alike, Fiber
  <2>2. \A q \in Slots : Alike(g[q], g[q])
    BY DEF Alike
  <2> QED BY <1>7, <1>8, <2>1, <2>2
<1>11. \A q \in Slots : Quiet(q) /\ Undisturbed(q)
  <2>1. UNCHANGED toexec \/ push_toexec(c)
    BY <1>2 DEF TakeChild
  <2>2. \A q : Scheduled(q) => Scheduled(q)'
    BY <2>1, QueueSame, QueuePushed
  <2> QED BY <1>1, <2>2, Stays, SocketsSame
<1>12. ASSUME NEW q \in Slots, q # p PROVE LookupOK(q)' /\ EventOK(q)'
  BY <1>7, <1>10, <1>11, <1>12, SlotKept
<1>13. Alike(fibers'[p], f)
  BY <1>1, <1>7, <1>10
<1>14. LookupOK(p)'
  BY <1>1, <1>5, <1>13 DEF LookupOK, Alike
<1>15. EventOK(p)'
  <2>1. fibers'[p].func /\ fibers'[p].op \notin SocketOps
    BY <1>1, <1>3, <1>5, <1>13 DEF Alike, SocketOps
  <2> QED BY <2>1 DEF EventOK
<1>16. RunsFunc'
  BY <1>0, <1>1, <1>5, <1>13 DEF RunsFunc, Me, Alike, control
<1> QED BY <1>12, <1>14, <1>15, <1>16 DEF WakeInv

LEMMA CallsWake ==
  ASSUME NoStaleParent, TypeOK, WakeInv, Calls
  PROVE  WakeInv'
<1> USE DEF pollerVars, timerVars, sockVars, OnlyFibers, control
<1>0. PICK p : p = cur
  OBVIOUS
<1>1. ASSUME at = "fiber"
      PROVE  /\ p \in Slots /\ fibers[p] \in Fiber /\ Me = fibers[p] /\ at \in {"resumed", "fiber"}
             /\ fibers[p].func
  BY <1>0, <1>1, Running
<1>2. CASE SocketTimeout
  <2>1. at = "fiber" /\ Update(p, [Me EXCEPT !.timeout = ~@]) /\ at' = at /\ cur' = cur
        /\ UNCHANGED <<toexec, avail, edge>>
    BY <1>0, <1>2 DEF SocketTimeout, InFiber
  <2>2. PICK f : f = [Me EXCEPT !.timeout = ~@]
    OBVIOUS
  <2>3. Alike(f, fibers[p])
    BY <1>1, <2>1, <2>2 DEF Alike, Fiber
  <2>4. \A q \in Slots : q # p => Undisturbed(q)
    BY <1>1, <2>1, OwnSocket
  <2>5. Update(p, f) /\ at \in {"resumed", "fiber"} /\ cur' = cur /\ at' = "fiber"
    BY <2>1, <2>2
  <2> HIDE DEF pollerVars, timerVars, sockVars, OnlyFibers, control
  <2> QED BY <1>0, <2>3, <2>4, <2>5, GoesOn DEF Alike
<1>3. ASSUME NEW call, NEW dir,
             IoReturns(call, dir) \/ IoUnregistered(call, dir) \/ HandshakeFails \/ HandshakeDone
               \/ NoChildren
      PROVE  WakeInv'
  <2>1. /\ at = "fiber" /\ at' = at /\ cur' = cur /\ UNCHANGED toexec
        /\ \E s : /\ Update(p, [Me EXCEPT !.sock = s, !.op = "user"])
                  /\ s # "Empty" => Me.sock # "Empty"
    <3>1. Me \in Fiber => [Me EXCEPT !.op = "user"] = [Me EXCEPT !.sock = Me.sock, !.op = "user"]
      BY DEF Fiber
    <3>2. Me \in Fiber
      BY MeType
    <3>3. HandshakeSock # "Empty"
      BY DEF HandshakeSock
    <3>4. CASE IoReturns(call, dir)
      BY <1>0, <3>1, <3>2, <3>4 DEF IoReturns, InLoop, InFiber
    <3>5. CASE IoUnregistered(call, dir)
      BY <1>0, <3>1, <3>2, <3>5 DEF IoUnregistered, WouldBlock, InLoop, InFiber, NoStaleParent
    <3>6. CASE HandshakeFails \/ HandshakeDone
      BY <1>0, <3>3, <3>6 DEF HandshakeFails, HandshakeDone, InLoop, InFiber
    <3>7. CASE NoChildren
      BY <1>0, <3>1, <3>2, <3>7 DEF NoChildren, InLoop, InFiber
    <3> QED BY <1>3, <3>4, <3>5, <3>6, <3>7
  <2>2. PICK s : Update(p, [Me EXCEPT !.sock = s, !.op = "user"]) /\ (s # "Empty" => Me.sock # "Empty")
    BY <2>1
  <2>3. PICK f : f = [Me EXCEPT !.sock = s, !.op = "user"]
    OBVIOUS
  <2>4. /\ f.parent = fibers[p].parent /\ f.connect_param = fibers[p].connect_param
        /\ f.func = fibers[p].func /\ f.sock = s /\ f.wtoken = fibers[p].wtoken
        /\ f.timed_out = fibers[p].timed_out
    BY <1>1, <2>1, <2>3 DEF Fiber
  <2>5. \A q \in Slots : q # p => Undisturbed(q)
    <3>1. (\A q \in Slots : q # p => avail'[q] = avail[q]) /\ edge \ {p} \subseteq edge'
      <4>1. CASE IoReturns(call, dir)
        BY <1>0, <4>1 DEF IoReturns, TypeOK
      <4>2. CASE IoUnregistered(call, dir)
        BY <1>0, <4>2 DEF IoUnregistered, WouldBlock, TypeOK
      <4>3. CASE HandshakeFails
        BY <1>0, <4>3 DEF HandshakeFails, SocketDropped, TypeOK
      <4>4. CASE HandshakeDone
        BY <1>0, <4>4 DEF HandshakeDone, Used, TypeOK
      <4>5. CASE NoChildren
        BY <4>5 DEF NoChildren
      <4> QED BY <1>3, <4>1, <4>2, <4>3, <4>4, <4>5
    <3> QED BY <1>1, <2>1, <3>1, OwnSocket
  <2> QED BY <1>0, <1>1, <2>1, <2>2, <2>3, <2>4, <2>5, GoesOn
<1>4. ASSUME NEW call, NEW dir, dir = WaitsFor(call), IoBlocks(call, dir) PROVE WakeInv'
  <2> DEFINE tk == IF Armed(call) THEN NextToken ELSE Me.wtoken
             out == IF Armed(call) THEN 0 ELSE Me.timed_out
             rd == IF MustRegister(dir) THEN dir ELSE Me.ready
  <2>1. PICK f : f = [Me EXCEPT !.op = call, !.ready = rd, !.wtoken = tk, !.timed_out = out]
    OBVIOUS
  <2>2. /\ at = "fiber" /\ Update(p, f) /\ Goto("stepped_out") /\ Me.sock \in SocksFor(call)
        /\ avail' = [avail EXCEPT ![p] = @ \ {dir}] /\ UNCHANGED toexec
    BY <1>0, <1>4, <2>1 DEF IoBlocks, WouldBlock, InLoop, InFiber
  <2>3. rd = dir
    BY DEF MustRegister
  <2> HIDE DEF tk, out, rd
  <2>4. /\ f.parent = fibers[p].parent /\ f.connect_param = fibers[p].connect_param
        /\ f.func = fibers[p].func /\ f.op = call /\ f.ready = rd
    BY <1>1, <2>1, <2>2 DEF Fiber
  <2>5. fibers[p].sock # "Empty"
    BY <1>1, <2>2 DEF SocksFor
  <2>6. p \in Slots /\ dir \notin avail'[p] /\ \A q \in Slots : q # p => avail'[q] = avail[q]
    BY <1>1, <2>2 DEF TypeOK
  <2>7. edge \ {p} \subseteq edge'
    BY <1>0, <1>4 DEF IoBlocks, Registered
  <2>8. \A q \in Slots : q # p => Undisturbed(q)
    BY <2>2, <2>6, <2>7, OwnSocket
  <2> QED BY <1>0, <1>4, <2>2, <2>3, <2>4, <2>5, <2>6, <2>8, Blocks
<1>5. CASE HandshakeBlocks
  <2> DEFINE tk == IF Armed("handshake") THEN NextToken ELSE Me.wtoken
             out == IF Armed("handshake") THEN 0 ELSE Me.timed_out
  <2>1. PICK f : f = [Me EXCEPT !.op = "handshake", !.sock = "TlsTemp",
                         !.ready = "readable", !.wtoken = tk, !.timed_out = out]
    OBVIOUS
  <2>2. /\ at = "fiber" /\ Update(p, f) /\ Goto("stepped_out") /\ Me.sock = HandshakeSock
        /\ UNCHANGED toexec
    BY <1>0, <1>5, <2>1 DEF HandshakeBlocks, InLoop, InFiber
  <2> HIDE DEF tk, out
  <2>3. /\ f.parent = fibers[p].parent /\ f.connect_param = fibers[p].connect_param
        /\ f.func = fibers[p].func /\ f.op = "handshake" /\ f.ready = "readable"
    BY <1>1, <2>1, <2>2 DEF Fiber
  <2>4. fibers[p].sock # "Empty"
    BY <1>1, <2>2 DEF HandshakeSock
  <2>5. PICK left \in SUBSET Directions :
          /\ avail' = [avail EXCEPT ![p] = left]
          /\ edge' = IF "readable" \in left THEN edge \cup {p} ELSE edge \ {p}
    BY <1>0, <1>5 DEF HandshakeBlocks, Used
  <2>6. /\ p \in Slots
        /\ "readable" \in avail'[p] => p \in edge'
        /\ \A q \in Slots : q # p => avail'[q] = avail[q]
        /\ edge \ {p} \subseteq edge'
    BY <1>1, <2>2, <2>5 DEF TypeOK
  <2>7. \A q \in Slots : q # p => Undisturbed(q)
    BY <2>2, <2>6, OwnSocket
  <2> QED BY <1>0, <2>2, <2>3, <2>4, <2>6, <2>7, Blocks DEF WaitsFor
<1>6. ASSUME RespChunk \/ JoinMain \/ ChildBlocks \/ HibernateJoinMain \/ HibernateForRead \/ Return
      PROVE  WakeInv'
  <2>1. /\ at = "fiber" /\ at' \in {"fiber", "stepped_out"} /\ cur' = cur
        /\ UNCHANGED <<toexec, avail>> /\ edge \ {p} \subseteq edge'
    BY <1>0, <1>6 DEF RespChunk, JoinMain, ChildBlocks, HibernateJoinMain, HibernateForRead, Return,
                 InFiber, InLoop, Goto, Registered
  <2>2. PICK f : /\ Update(p, f) /\ f.op \notin SocketOps
                 /\ f.parent = fibers[p].parent /\ f.connect_param = fibers[p].connect_param
                 /\ f.func = fibers[p].func /\ f.sock = fibers[p].sock
                 /\ f.wtoken = fibers[p].wtoken /\ f.timed_out = fibers[p].timed_out
    <3>1. CASE RespChunk
      <4>1. PICK f : f = [Me EXCEPT !.result = "chunk", !.op = "resp_chunk"]
        OBVIOUS
      <4>2. /\ f.op = "resp_chunk"
            /\ f.parent = Me.parent /\ f.connect_param = Me.connect_param
            /\ f.func = Me.func /\ f.sock = Me.sock
            /\ f.wtoken = Me.wtoken /\ f.timed_out = Me.timed_out
        BY <1>1, <2>1, <4>1 DEF Fiber
      <4>3. Update(p, f)
        BY <1>0, <3>1, <4>1 DEF RespChunk
      <4> QED BY <1>1, <2>1, <4>2, <4>3 DEF SocketOps
    <3>2. CASE JoinMain
      <4>1. PICK f : f = [Me EXCEPT !.op = "join_main"]
        OBVIOUS
      <4> QED BY <1>0, <1>1, <2>1, <3>2, <4>1 DEF JoinMain, Fiber, SocketOps
    <3>3. CASE ChildBlocks
      <4>1. PICK f : f = [Me EXCEPT !.op = "get_child"]
        OBVIOUS
      <4> QED BY <1>0, <1>1, <2>1, <3>3, <4>1 DEF ChildBlocks, Fiber, SocketOps
    <3>4. CASE HibernateJoinMain
      <4>1. PICK f : f = [Me EXCEPT !.state = "Unstacked"]
        OBVIOUS
      <4> QED BY <1>0, <1>1, <2>1, <3>4, <4>1 DEF HibernateJoinMain, InFiber, Fiber, SocketOps
    <3>5. CASE HibernateForRead
      <4>1. PICK r : Update(p, [Me EXCEPT !.state = "Unstacked", !.ready = r])
        BY <1>0, <3>5 DEF HibernateForRead
      <4>2. PICK f : f = [Me EXCEPT !.state = "Unstacked", !.ready = r]
        OBVIOUS
      <4>3. /\ f.op = Me.op
            /\ f.parent = Me.parent /\ f.connect_param = Me.connect_param
            /\ f.func = Me.func /\ f.sock = Me.sock
            /\ f.wtoken = Me.wtoken /\ f.timed_out = Me.timed_out
        BY <1>1, <2>1, <4>2 DEF Fiber
      <4>4. Me.op = "user"
        BY <3>5 DEF HibernateForRead, InFiber
      <4> QED BY <1>1, <2>1, <4>1, <4>2, <4>3, <4>4 DEF SocketOps
    <3>6. CASE Return
      <4>1. PICK r : Update(p, [Me EXCEPT !.result = r, !.state = "Closed"])
        BY <1>0, <3>6 DEF Return
      <4>2. PICK f : f = [Me EXCEPT !.result = r, !.state = "Closed"]
        OBVIOUS
      <4>3. /\ f.op = Me.op
            /\ f.parent = Me.parent /\ f.connect_param = Me.connect_param
            /\ f.func = Me.func /\ f.sock = Me.sock
            /\ f.wtoken = Me.wtoken /\ f.timed_out = Me.timed_out
        BY <1>1, <2>1, <4>2 DEF Fiber
      <4>4. Me.op = "user"
        BY <3>6 DEF Return
      <4> QED BY <1>1, <2>1, <4>1, <4>2, <4>3, <4>4 DEF SocketOps
    <3> QED BY <1>6, <3>1, <3>2, <3>3, <3>4, <3>5, <3>6
  <2>3. \A q \in Slots : q # p => Undisturbed(q)
    BY <1>1, <2>1, OwnSocket
  <2> QED BY <1>0, <1>1, <2>1, <2>2, <2>3, GoesOn
<1>7. ASSUME NEW i \in DOMAIN Me.children, TakeChild(i) PROVE WakeInv'
  BY <1>7, TakeChildWake
<1>8. "readable" = WaitsFor("read") /\ "writable" = WaitsFor("write") /\ "readable" = WaitsFor("accept")
  BY DEF WaitsFor
<1> QED BY <1>2, <1>3, <1>4, <1>5, <1>6, <1>7, <1>8 DEF Calls


-----------------------------------------------------------------------------
(* Context switches.                                                       *)

\* stepped_out: the fiber keeps all that the invariant reads, except that it may
\* have to start over and its socket may be closed.
Left(f, g) ==
    /\ f.parent = g.parent /\ f.connect_param = g.connect_param
    /\ f.sock \in {g.sock, "Empty"} /\ f.op \in {g.op, "start"}
    /\ f.wtoken = g.wtoken /\ f.timed_out = g.timed_out
    /\ f.func = g.func /\ f.ready = g.ready

LEMMA UnstackedLeft ==
  ASSUME TypeOK, NEW p \in Slots
  PROVE  /\ Left(Unstacked(p), fibers[p])
         /\ Left([Unstacked(p) EXCEPT !.sock = "Empty"], fibers[p])
         /\ Left([Unstacked(p) EXCEPT !.sock = "Empty", !.result = "none"], fibers[p])
         /\ Left([Unstacked(p) EXCEPT !.result = "none"], fibers[p])
<1>1. PICK f : f = fibers[p]
  OBVIOUS
<1>2. PICK g : g = [f EXCEPT !.stack = None, !.op = "start"]
  OBVIOUS
<1>3. f \in Fiber
  BY <1>1 DEF TypeOK
<1>4. PICK u : u = Unstacked(p)
  OBVIOUS
<1>5. u \in {f, g}
  BY <1>1, <1>2, <1>4 DEF Unstacked
<1>6. DOMAIN g = DOMAIN f /\ Left(g, f)
  BY <1>2, <1>3 DEF Fiber, Left
<1>7. Left(f, f)
  BY DEF Left
<1>8. Left(u, f) /\ DOMAIN u = DOMAIN f
  BY <1>5, <1>6, <1>7
<1>9. DOMAIN f = {"state", "func", "param", "connect_param", "sock", "ready", "stack",
                  "parent", "children", "result", "wtoken", "timeout", "timed_out", "op"}
  BY <1>3 DEF Fiber
<1>10. Left([u EXCEPT !.sock = "Empty"], f)
  BY <1>8, <1>9 DEF Left
<1>11. Left([u EXCEPT !.sock = "Empty", !.result = "none"], f)
  BY <1>8, <1>9 DEF Left
<1>12. Left([u EXCEPT !.result = "none"], f)
  BY <1>8, <1>9 DEF Left
<1> QED BY <1>1, <1>4, <1>8, <1>10, <1>11, <1>12

LEMMA Leaves ==
  ASSUME TypeOK, WakeInv, NEW p, p = cur, at = "stepped_out", NEW f, Update(p, f),
         Left(f, fibers[p]), at' \in {"toexec", "timedout", "step_into"},
         at' = "step_into" => Lookups \cap Usage = {},
         \A q \in Slots : q # p => Undisturbed(q),
         Undisturbed(p) \/ avail'[p] = {}
  PROVE  WakeInv'
<1>1. /\ p \in Slots /\ LookupOK(p) /\ EventOK(p)
      /\ fibers[p].connect_param => fibers[p].sock = "Empty"
  BY Running
<1>2. fibers'[p] = f /\ \A q \in Slots : q # p => fibers'[q] = fibers[q]
  BY <1>1 DEF Update, TypeOK
<1>3. ASSUME NEW q \in Slots PROVE Left(fibers'[q], fibers[q]) /\ LookupOK(q) /\ EventOK(q)
  BY <1>2 DEF Left, WakeInv
<1>4. ASSUME NEW q \in Slots PROVE LookupOK(q)'
  <2>1. Lookups \cap Usage = {} => ~fibers'[q].connect_param
    BY <1>3 DEF Left, LookupOK
  <2>2. Entered(q)' => Lookups \cap Usage = {}
    BY DEF Entered
  <2>3. q # p => fibers'[q] = fibers[q]
    BY <1>2
  <2>4. fibers'[q].connect_param /\ fibers'[q].sock # "Empty" => fibers'[q].op = "start"
    BY <1>3 DEF Left, LookupOK
  <2> QED BY <1>3, <2>1, <2>2, <2>4 DEF Left, LookupOK
<1>5. ASSUME NEW q \in Slots PROVE EventOK(q)'
  <2>1. SwitchedOut(q)
    BY DEF SwitchedOut
  <2>2. Undisturbed(q) \/ avail'[q] = {}
    OBVIOUS
  <2>3. "start" \notin SocketOps
    BY DEF SocketOps
  <2>4. ~fibers'[q].func => fibers'[q].op = "start"
    BY <1>3 DEF Left, EventOK
  <2>5. ASSUME fibers'[q].op \in SocketOps
        PROVE  /\ fibers[q].op = fibers'[q].op /\ fibers'[q].ready = WaitsFor(fibers'[q].op)
               /\ fibers'[q].ready = fibers[q].ready
               /\ fibers'[q].connect_param = fibers[q].connect_param
    BY <1>3, <2>1, <2>3, <2>5 DEF Left, EventOK
  <2>6. ASSUME fibers'[q].op \in SocketOps, ~fibers'[q].connect_param,
               fibers'[q].ready \in avail'[q]
        PROVE  q \in edge' \/ Scheduled(q)'
    BY <1>3, <2>1, <2>2, <2>5, <2>6 DEF EventOK, Undisturbed
  <2> QED BY <2>4, <2>5, <2>6 DEF EventOK
<1>6. RunsFunc'
  BY DEF RunsFunc
<1> QED BY <1>4, <1>5, <1>6 DEF WakeInv


LEMMA StepIntoWake ==
  ASSUME TypeOK, WakeInv, StepInto
  PROVE  WakeInv'
<1>0. PICK p : p = cur
  OBVIOUS
<1>1. /\ at = "step_into" /\ cur' = cur /\ UNCHANGED <<toexec, avail, edge>>
      /\ at' = IF Me.func THEN "resumed" ELSE "stepped_out"
  BY DEF StepInto, Goto, sockVars
<1>2. p \in Slots /\ fibers[p] \in Fiber /\ Me = fibers[p] /\ LookupOK(p) /\ EventOK(p)
  BY <1>0, <1>1, Running
<1>3. \E f : Alike(f, fibers[p]) /\ Update(p, f)
  <2>1. CASE ~Me.func
    <3>1. PICK f : f = [Me EXCEPT !.state = "Closed"]
      OBVIOUS
    <3>2. Update(p, f)
      BY <1>0, <2>1, <3>1 DEF StepInto
    <3>3. Alike(f, fibers[p])
      BY <1>2, <3>1 DEF Alike, Fiber
    <3> QED BY <3>2, <3>3
  <2>2. CASE Me.func /\ Me.stack = None
    <3>1. PICK f : f = [Me EXCEPT !.stack = PoppedStack(StacksInUse)]
      OBVIOUS
    <3>2. Update(p, f)
      BY <1>0, <2>2, <3>1 DEF StepInto
    <3>3. Alike(f, fibers[p])
      BY <1>2, <3>1 DEF Alike, Fiber
    <3> QED BY <3>2, <3>3
  <2>3. CASE Me.func /\ Me.stack # None
    <3>1. UNCHANGED fibers
      BY <2>3 DEF StepInto
    <3>2. Update(p, fibers[p]) /\ Alike(fibers[p], fibers[p])
      BY <3>1 DEF Update, Alike, TypeOK
    <3> QED BY <3>2
  <2> QED BY <2>1, <2>2, <2>3
<1>4. PICK f : Alike(f, fibers[p]) /\ Update(p, f)
  BY <1>3
<1>5. fibers'[p] = f
  BY <1>2, <1>4 DEF Update, TypeOK
<1>6. \A q \in Slots : q # p => Quiet(q) /\ Undisturbed(q)
  <2>1. \A q \in Slots : Undisturbed(q)
    BY <1>1, QueueSame, SocketsSame
  <2>2. \A q \in Slots : q # p => Quiet(q)
    BY <1>0, <1>1 DEF Quiet, SwitchedOut, Entered
  <2> QED BY <2>1, <2>2
<1>7. LookupOK(p)'
  <2>1. Entered(p)
    BY <1>0, <1>1 DEF Entered
  <2> QED BY <1>2, <1>4, <1>5, <2>1 DEF LookupOK, Alike
<1>8. EventOK(p)'
  <2>1. CASE Me.func
    <3>1. ~SwitchedOut(p)'
      BY <1>0, <1>1, <2>1 DEF SwitchedOut
    <3>2. fibers'[p].func
      BY <1>2, <1>4, <1>5, <2>1 DEF Alike
    <3> QED BY <3>1, <3>2 DEF EventOK
  <2>2. CASE ~Me.func
    <3>1. fibers'[p].op = "start"
      BY <1>2, <1>4, <1>5, <2>2 DEF Alike, EventOK
    <3> QED BY <3>1 DEF EventOK, SocketOps
  <2> QED BY <2>1, <2>2
<1>9. RunsFunc'
  <2>1. ASSUME Me.func PROVE fibers'[cur'].func
    BY <1>0, <1>1, <1>2, <1>4, <1>5, <2>1 DEF Alike
  <2> QED BY <1>1, <2>1 DEF RunsFunc, Me
<1> QED BY <1>2, <1>4, <1>6, <1>7, <1>8, <1>9, OneSlot

LEMMA SwitchesWake ==
  ASSUME NoStaleParent, TypeOK, WakeInv, Switches
  PROVE  WakeInv'
<1> USE DEF pollerVars, timerVars, sockVars, OnlyFibers
<1>0. PICK p : p = cur
  OBVIOUS
<1>1. p \in Slots /\ fibers[p] \in Fiber /\ Me = fibers[p]
  BY <1>0, MeType DEF Me
<1>2. ASSUME Start \/ ResumeIo \/ ResumeJoinMain \/ Resume PROVE WakeInv'
  <2>1. /\ at = "resumed" /\ at' \in {"fiber", "panic"} /\ cur' = cur
        /\ UNCHANGED <<toexec, avail, edge>>
    BY <1>2 DEF Start, ResumeIo, ResumeJoinMain, Resume, Goto
  <2>2. \E f : /\ Update(p, f)
               /\ f.parent = Me.parent /\ f.connect_param = Me.connect_param
               /\ f.func = Me.func /\ f.sock = Me.sock
               /\ f.wtoken \in {Me.wtoken, None}
               /\ (f.timed_out = Me.timed_out \/ f.wtoken = None)
    <3>1. CASE Start
      <4>1. PICK f : f = [Me EXCEPT !.state = "Stacked", !.param = FALSE, !.op = "user"]
        OBVIOUS
      <4>2. Update(p, f)
        BY <1>0, <3>1, <4>1 DEF Start
      <4>3. Alike(f, [Me EXCEPT !.op = "user"])
        BY <1>1, <4>1 DEF Alike, Fiber
      <4> QED BY <1>1, <4>2, <4>3 DEF Alike, Fiber
    <3>2. CASE ResumeIo
      <4>1. PICK o : o = IF Me.timed_out > 0 THEN "user" ELSE Me.op
        OBVIOUS
      <4>2. PICK f : f = [Me EXCEPT !.wtoken = None, !.timed_out = 0, !.op = o]
        OBVIOUS
      <4>3. Update(p, f)
        BY <1>0, <3>2, <4>1, <4>2 DEF ResumeIo
      <4>4. /\ f.parent = Me.parent /\ f.connect_param = Me.connect_param
            /\ f.func = Me.func /\ f.sock = Me.sock /\ f.wtoken = None
        BY <1>1, <4>2 DEF Fiber
      <4> QED BY <4>3, <4>4
    <3>3. CASE ResumeJoinMain
      <4>1. PICK f : f = [Me EXCEPT !.result = "none", !.op = "user"]
        OBVIOUS
      <4>2. Update(p, f)
        BY <1>0, <3>3, <4>1 DEF ResumeJoinMain
      <4>3. /\ f.parent = Me.parent /\ f.connect_param = Me.connect_param
            /\ f.func = Me.func /\ f.sock = Me.sock /\ f.wtoken = Me.wtoken
            /\ f.timed_out = Me.timed_out
        BY <1>1, <4>1 DEF Fiber
      <4> QED BY <4>2, <4>3
    <3>4. CASE Resume
      <4>1. PICK o : o = IF Me.op = "resp_chunk" THEN "user" ELSE Me.op
        OBVIOUS
      <4>2. PICK f : f = [Me EXCEPT !.op = o]
        OBVIOUS
      <4>3. Update(p, f)
        BY <1>0, <3>4, <4>1, <4>2 DEF Resume
      <4>4. /\ f.parent = Me.parent /\ f.connect_param = Me.connect_param
            /\ f.func = Me.func /\ f.sock = Me.sock /\ f.wtoken = Me.wtoken
            /\ f.timed_out = Me.timed_out
        BY <1>1, <4>2 DEF Fiber
      <4> QED BY <4>3, <4>4
    <3> QED BY <1>2, <3>1, <3>2, <3>3, <3>4
  <2>3. PICK f : /\ Update(p, f)
                 /\ f.parent = fibers[p].parent /\ f.connect_param = fibers[p].connect_param
                 /\ f.func = fibers[p].func /\ f.sock = fibers[p].sock
                 /\ f.wtoken \in {fibers[p].wtoken, None}
                 /\ (f.timed_out = fibers[p].timed_out \/ f.wtoken = None)
    BY <1>1, <2>2
  <2>4. \A q \in Slots : q # p => Undisturbed(q)
    BY <1>1, <2>1, QueueSame, SocketsSame
  <2>5. /\ at \in {"resumed", "fiber"} /\ at' \in {"fiber", "stepped_out", "panic"}
        /\ at' # "stepped_out"
    BY <2>1
  <2> QED BY <1>0, <2>1, <2>3, <2>4, <2>5, GoesOn
<1>3. ASSUME at = "stepped_out", Me.parent # None PROVE Lookups \cap Usage = {}
  <2>1. LookupOK(p)
    BY <1>1 DEF WakeInv
  <2> QED BY <1>1, <1>3, <2>1 DEF LookupOK, NoStaleParent
<1>4. loop \in {"toexec", "timedout"}
  BY DEF TypeOK
<1>5. CASE ClosedChild
  <2>1. /\ at = "stepped_out" /\ Me.parent # None /\ at' = "step_into"
        /\ Update(p, [Unstacked(p) EXCEPT !.sock = "Empty"]) /\ SocketDropped(p)
        /\ UNCHANGED toexec
    BY <1>0, <1>5 DEF ClosedChild, EnterFiber
  <2>2. avail'[p] = {} /\ \A q \in Slots : q # p => Undisturbed(q)
    BY <1>1, <2>1, QueueSame, SocketClosed
  <2> QED BY <1>0, <1>1, <1>3, <2>1, <2>2, UnstackedLeft, Leaves
<1>6. CASE ClosedOrphan
  <2>1. /\ at = "stepped_out" /\ at' = loop
        /\ Update(p, [Unstacked(p) EXCEPT !.sock = "Empty", !.result = "none"])
        /\ SocketDropped(p) /\ UNCHANGED toexec
    BY <1>0, <1>6 DEF ClosedOrphan, Goto
  <2>2. avail'[p] = {} /\ \A q \in Slots : q # p => Undisturbed(q)
    BY <1>1, <2>1, QueueSame, SocketClosed
  <2> QED BY <1>0, <1>1, <1>4, <2>1, <2>2, UnstackedLeft, Leaves
<1>7. CASE ChunkToParent
  <2>1. /\ at = "stepped_out" /\ Me.parent # None /\ at' = "step_into"
        /\ Update(p, Unstacked(p)) /\ UNCHANGED <<avail, edge, toexec>>
    BY <1>0, <1>7 DEF ChunkToParent, EnterFiber
  <2>2. \A q \in Slots : Undisturbed(q)
    BY <2>1, QueueSame, SocketsSame
  <2> QED BY <1>0, <1>1, <1>3, <2>1, <2>2, UnstackedLeft, Leaves
<1>8. CASE ChunkToMain
  <2>1. /\ at = "stepped_out" /\ at' = loop /\ push_toexec(p)
        /\ Update(p, [Unstacked(p) EXCEPT !.result = "none"]) /\ UNCHANGED <<avail, edge>>
    BY <1>0, <1>8 DEF ChunkToMain, Goto
  <2>2. \A q \in Slots : Undisturbed(q)
    BY <1>1, <2>1, QueuePushed, SocketsSame
  <2> QED BY <1>0, <1>1, <1>4, <2>1, <2>2, UnstackedLeft, Leaves
<1>9. CASE Waits
  <2>1. /\ at = "stepped_out" /\ at' = loop
        /\ Update(p, Unstacked(p)) /\ UNCHANGED <<avail, edge, toexec>>
    BY <1>0, <1>9 DEF Waits, Goto
  <2>2. \A q \in Slots : Undisturbed(q)
    BY <2>1, QueueSame, SocketsSame
  <2> QED BY <1>0, <1>1, <1>4, <2>1, <2>2, UnstackedLeft, Leaves
<1> QED BY <1>2, <1>5, <1>6, <1>7, <1>8, <1>9, StepIntoWake DEF Switches


-----------------------------------------------------------------------------
(* run().                                                                  *)

\* run() works on p and goes on, or steps into it.
LEMMA RunStep ==
  ASSUME TypeOK, WakeInv, NEW p \in Slots, at \in {"toexec", "timedout"}, NEW f, Update(p, f),
         f.func = fibers[p].func, f.parent = fibers[p].parent, f.op = fibers[p].op,
         f.connect_param => fibers[p].connect_param,
         f.connect_param /\ f.sock # "Empty" => fibers[p].sock # "Empty",
         f.connect_param /\ f.wtoken # None => f.timed_out > 0,
         \/ EnterFiber(p) /\ (~f.connect_param \/ f.sock = "Empty")
         \/ /\ cur' = cur /\ at' \in {"toexec", "timedout", "panic"}
            /\ f.op = "start" \/ (f.connect_param /\ f.ready = fibers[p].ready),
         \A q \in Slots : q # p => Undisturbed(q)
  PROVE  WakeInv'
<1>1. LookupOK(p) /\ EventOK(p) /\ SwitchedOut(p) /\ ~Entered(p)
  BY DEF WakeInv, SwitchedOut, Entered
<1>2. fibers'[p] = f
  BY DEF Update, TypeOK
<1>3. CASE EnterFiber(p) /\ (~f.connect_param \/ f.sock = "Empty")
  <2>1. ~SwitchedOut(p)' /\ at' = "step_into"
    BY <1>3 DEF EnterFiber, SwitchedOut
  <2>2. LookupOK(p)'
    BY <1>1, <1>2, <1>3 DEF LookupOK
  <2>3. EventOK(p)'
    BY <1>1, <1>2, <2>1 DEF EventOK
  <2>4. RunsFunc'
    BY <2>1 DEF RunsFunc
  <2>5. \A q \in Slots : q # p => Quiet(q)
    BY <1>3, Enters
  <2> QED BY <2>2, <2>3, <2>4, <2>5, OneSlot
<1>4. CASE /\ cur' = cur /\ at' \in {"toexec", "timedout", "panic"}
           /\ f.op = "start" \/ (f.connect_param /\ f.ready = fibers[p].ready)
  <2>1. \A q \in Slots : Quiet(q)
    BY <1>4, StaysOnStack DEF OnStack
  <2>2. ~Entered(p)'
    BY <1>4 DEF Entered
  <2>3. LookupOK(p)'
    BY <1>1, <1>2, <1>4, <2>2 DEF LookupOK
  <2>4. "start" \notin SocketOps
    BY DEF SocketOps
  <2>5. EventOK(p)'
    BY <1>1, <1>2, <1>4, <2>4 DEF EventOK
  <2>6. RunsFunc'
    BY <1>4 DEF RunsFunc
  <2> QED BY <2>1, <2>3, <2>5, <2>6, OneSlot
<1> QED BY <1>3, <1>4

LEMMA RunWake ==
  ASSUME TypeOK, WakeInv, Run
  PROVE  WakeInv'
<1> USE DEF pollerVars, runnerVars, timerVars, sockVars, control
<1>1. ASSUME BeginRun \/ ToexecDone \/ TimedoutDone PROVE WakeInv'
  <2>1. /\ cur' = cur /\ at \in OnStack /\ at' \in {"main", "toexec", "timedout"}
        /\ UNCHANGED <<fibers, toexec, avail, edge>>
    BY <1>1 DEF BeginRun, ToexecDone, TimedoutDone, Goto, OnStack
  <2>2. \A q \in Slots : Quiet(q) /\ Undisturbed(q)
    BY <2>1, StaysOnStack, QueueSame, SocketsSame DEF OnStack
  <2>3. RunsFunc'
    BY <2>1 DEF RunsFunc
  <2> QED BY <2>1, <2>2, <2>3, NoSlot
<1>2. ASSUME NEW p \in Slots, UNCHANGED fibers PROVE Update(p, fibers[p]) /\ fibers[p] \in Fiber
  BY <1>2 DEF Update, TypeOK
<1>3. ASSUME NEW p \in Slots PROVE LookupOK(p) /\ fibers[p] \in Fiber
  BY DEF WakeInv, TypeOK
<1>4. ASSUME NEW p \in Slots, Execute(p) PROVE WakeInv'
  <2>1. /\ Pops(p) /\ at = "toexec" /\ ~fibers[p].connect_param /\ EnterFiber(p)
        /\ UNCHANGED <<fibers, avail, edge>>
    BY <1>4 DEF Execute, Pops
  <2>2. \A q \in Slots : q # p => Undisturbed(q)
    BY <2>1, QueuePopped DEF Undisturbed
  <2> QED BY <1>2, <2>1, <2>2, RunStep
<1>5. ASSUME NEW p \in Slots, NoAddress(p) \/ MalformedAnswer(p) PROVE WakeInv'
  <2>1. /\ Pops(p) /\ at = "toexec" /\ fibers[p].connect_param /\ cur' = cur
        /\ at' \in {"toexec", "panic"} /\ UNCHANGED <<fibers, edge>>
    BY <1>5 DEF NoAddress, MalformedAnswer, Pops, Goto
  <2>2. \A q \in Slots : q # p => avail'[q] = avail[q]
    BY <1>5 DEF NoAddress, MalformedAnswer, TypeOK
  <2>3. \A q \in Slots : q # p => Undisturbed(q)
    BY <2>1, <2>2, QueuePopped DEF Undisturbed
  <2>4. fibers[p].wtoken # None => fibers[p].timed_out > 0
    BY <1>3, <2>1 DEF LookupOK
  <2> QED BY <1>2, <2>1, <2>3, <2>4, RunStep
<1>6. ASSUME NEW p \in Slots, Connects(p) \/ ConnectFails(p) PROVE WakeInv'
  <2>1. PICK sock, ready : Update(p, [fibers[p] EXCEPT !.wtoken = None, !.timed_out = 0,
                              !.connect_param = FALSE, !.sock = sock, !.ready = ready])
    BY <1>6 DEF Connects, ConnectFails
  <2>2. PICK f : f = [fibers[p] EXCEPT !.wtoken = None, !.timed_out = 0,
                         !.connect_param = FALSE, !.sock = sock, !.ready = ready]
    OBVIOUS
  <2>3. /\ f.func = fibers[p].func /\ f.parent = fibers[p].parent /\ f.op = fibers[p].op
        /\ ~f.connect_param
    BY <1>3, <2>2 DEF Fiber
  <2>4. /\ Pops(p) /\ at = "toexec" /\ SocketDropped(p) /\ (EnterFiber(p) \/ UNCHANGED <<at, cur>>)
        /\ fibers[p].connect_param /\ HasAnswer(p)
    BY <1>6 DEF Connects, ConnectFails, Pops
  <2>5. f.op = "start"
    BY <1>3, <2>3, <2>4 DEF LookupOK, HasAnswer
  <2>6. \A q \in Slots : q # p => Undisturbed(q)
    BY <2>4, QueuePopped, SocketClosed
  <2>7. Update(p, f)
    BY <2>1, <2>2
  <2> QED BY <2>3, <2>4, <2>5, <2>6, <2>7, RunStep
<1>7. ASSUME NEW p \in Slots, StaleTimer(p) PROVE WakeInv'
  <2>1. at = "timedout" /\ at' = at /\ cur' = cur /\ UNCHANGED <<fibers, toexec, avail, edge>>
    BY <1>7 DEF StaleTimer, Expires
  <2>2. \A q \in Slots : Quiet(q) /\ Undisturbed(q)
    BY <2>1, StaysOnStack, QueueSame, SocketsSame DEF OnStack
  <2>3. RunsFunc'
    BY <2>1 DEF RunsFunc
  <2> QED BY <2>1, <2>2, <2>3, NoSlot
<1>8. ASSUME NEW p \in Slots, UNCHANGED <<toexec, avail, edge>>
      PROVE  \A q \in Slots : q # p => Undisturbed(q)
  BY <1>8, QueueSame, SocketsSame
<1>9. ASSUME NEW p \in Slots, LookupTick(p) PROVE WakeInv'
  <2>1. PICK t, tk : t = fibers[p].timed_out - 1 /\ tk = NextToken
    OBVIOUS
  <2>2. PICK f : f = [fibers[p] EXCEPT !.timed_out = t, !.wtoken = tk]
    OBVIOUS
  <2>3. /\ at = "timedout" /\ UNCHANGED <<at, cur, toexec, avail, edge>> /\ Update(p, f)
        /\ fibers[p].connect_param /\ fibers[p].timed_out > 1
    BY <1>9, <2>1, <2>2 DEF LookupTick, Expires
  <2>4. /\ f.func = fibers[p].func /\ f.parent = fibers[p].parent /\ f.op = fibers[p].op
        /\ f.connect_param = fibers[p].connect_param /\ f.sock = fibers[p].sock
        /\ f.ready = fibers[p].ready /\ f.timed_out = t
    BY <1>3, <2>2 DEF Fiber
  <2>5. fibers[p].timed_out \in Nat
    BY <1>3, RunnerAssumption DEF Fiber
  <2>6. t > 0
    BY <2>1, <2>3, <2>5
  <2> QED BY <1>8, <2>3, <2>4, <2>6, RunStep
<1>10. ASSUME NEW p \in Slots, LookupExpires(p) PROVE WakeInv'
  <2>1. PICK f : f = [fibers[p] EXCEPT !.timed_out = 0, !.wtoken = None, !.sock = "Empty"]
    OBVIOUS
  <2>2. /\ at = "timedout" /\ UNCHANGED toexec /\ Update(p, f) /\ SocketDropped(p)
        /\ EnterFiber(p)
    BY <1>10, <2>1 DEF LookupExpires, Expires
  <2>3. /\ f.func = fibers[p].func /\ f.parent = fibers[p].parent /\ f.op = fibers[p].op
        /\ f.connect_param = fibers[p].connect_param /\ f.sock = "Empty" /\ f.wtoken = None
    BY <1>3, <2>1 DEF Fiber
  <2>4. \A q \in Slots : q # p => Undisturbed(q)
    BY <2>2, QueueSame, SocketClosed
  <2> QED BY <2>2, <2>3, <2>4, RunStep
<1>11. ASSUME NEW p \in Slots, LookupUnderflow(p) PROVE WakeInv'
  <2>1. /\ at = "timedout" /\ at' = "panic" /\ cur' = cur /\ fibers[p].connect_param
        /\ UNCHANGED <<fibers, toexec, avail, edge>>
    BY <1>11 DEF LookupUnderflow, Expires, Goto
  <2>2. fibers[p].wtoken # None => fibers[p].timed_out > 0
    BY <1>3, <2>1 DEF LookupOK
  <2> QED BY <1>2, <1>8, <2>1, <2>2, RunStep
<1>12. ASSUME NEW p \in Slots, TimerWakes(p) PROVE WakeInv'
  <2>1. PICK f : f = [fibers[p] EXCEPT !.wtoken = None, !.timed_out = 1]
    OBVIOUS
  <2>2. /\ at = "timedout" /\ UNCHANGED <<toexec, avail, edge>> /\ Update(p, f)
        /\ EnterFiber(p) /\ ~fibers[p].connect_param
    BY <1>12, <2>1 DEF TimerWakes, Expires
  <2>3. /\ f.func = fibers[p].func /\ f.parent = fibers[p].parent /\ f.op = fibers[p].op
        /\ f.connect_param = fibers[p].connect_param
    BY <1>3, <2>1 DEF Fiber
  <2> QED BY <1>8, <2>2, <2>3, RunStep
<1> QED BY <1>1, <1>4, <1>5, <1>6, <1>7, <1>9, <1>10, <1>11, <1>12 DEF Run

-----------------------------------------------------------------------------
(* The main stack and the environment.                                     *)

LEMMA PollWake ==
  ASSUME TypeOK, WakeInv, Poll
  PROVE  WakeInv'
<1> USE DEF pollerVars, runnerVars, timerVars, sockVars, control
<1>1. ASSUME NEW tk \in Tokens, BeginPoll \/ EventsDone \/ PollReturns \/ PollTimer(tk)
      PROVE  WakeInv'
  <2>1. /\ cur' = cur /\ at \in OnStack /\ at' \in OnStack
        /\ UNCHANGED <<fibers, toexec, avail, edge>>
    BY <1>1 DEF BeginPoll, EventsDone, PollReturns, PollTimer, Goto, OnStack
  <2>2. \A q \in Slots : Quiet(q) /\ Undisturbed(q)
    BY <2>1, StaysOnStack, QueueSame, SocketsSame DEF OnStack
  <2>3. RunsFunc'
    BY <2>1 DEF RunsFunc, OnStack
  <2> QED BY <2>1, <2>2, <2>3, NoSlot
<1>2. ASSUME BeginPoll \/ EventsDone \/ PollReturns PROVE WakeInv'
  <2>1. /\ cur' = cur /\ at \in OnStack /\ at' \in OnStack
        /\ UNCHANGED <<fibers, toexec, avail, edge>>
    BY <1>2 DEF BeginPoll, EventsDone, PollReturns, Goto, OnStack
  <2>2. \A q \in Slots : Quiet(q) /\ Undisturbed(q)
    BY <2>1, StaysOnStack, QueueSame, SocketsSame DEF OnStack
  <2>3. RunsFunc'
    BY <2>1 DEF RunsFunc, OnStack
  <2> QED BY <2>1, <2>2, <2>3, NoSlot
<1>3. ASSUME NEW p \in Slots, PollEvent(p) PROVE WakeInv'
  <2>1. /\ at = "events" /\ UNCHANGED <<at, cur, loop, fibers, avail>> /\ edge' = edge \ {p}
        /\ (fibers[p].ready \in avail[p] => push_toexec(p))
        /\ (fibers[p].ready \notin avail[p] => UNCHANGED toexec)
    BY <1>3 DEF PollEvent
  <2>2. \A q \in Slots : Quiet(q)
    BY <2>1, Stays
  <2>3. /\ \A q : Scheduled(q) => Scheduled(q)'
        /\ fibers[p].ready \in avail[p] => Scheduled(p)'
    BY <2>1, QueueSame, QueuePushed
  <2>4. \A q \in Slots : q # p => Undisturbed(q)
    BY <2>1, <2>3 DEF Undisturbed
  <2>5. LookupOK(p) /\ EventOK(p)
    BY DEF WakeInv
  <2>6. LookupOK(p)'
    BY <2>1, <2>5 DEF LookupOK, Entered
  <2>7. EventOK(p)'
    BY <2>1, <2>3, <2>5 DEF EventOK, SwitchedOut
  <2>8. RunsFunc' /\ Update(p, fibers[p])
    BY <2>1 DEF RunsFunc, Update, TypeOK
  <2> QED BY <2>2, <2>4, <2>6, <2>7, <2>8, OneSlot
<1> QED BY <1>1, <1>2, <1>3 DEF Poll

LEMMA MainWake ==
  ASSUME TypeOK, WakeInv, Main
  PROVE  WakeInv'
<1> USE DEF pollerVars, timerVars, sockVars, control
<1>1. ASSUME GetResponse \/ GetFiber PROVE WakeInv'
  <2>1. at = "main" /\ UNCHANGED <<at, cur, loop, fibers, toexec, avail, edge>>
    BY <1>1 DEF GetResponse, GetFiber
  <2>2. \A q \in Slots : Quiet(q) /\ Undisturbed(q)
    BY <2>1, Stays, QueueSame, SocketsSame
  <2>3. RunsFunc'
    BY <2>1 DEF RunsFunc
  <2> QED BY <2>1, <2>2, <2>3, NoSlot
<1>2. ASSUME NEW p \in Slots, ResumeFiber(p) PROVE WakeInv'
  <2>1. PICK r : Update(p, [fibers[p] EXCEPT !.result = r])
    BY <1>2 DEF ResumeFiber
  <2>2. PICK f : f = [fibers[p] EXCEPT !.result = r]
    OBVIOUS
  <2>3. at = "main" /\ UNCHANGED <<at, cur, loop, avail, edge>> /\ push_toexec(p)
    BY <1>2 DEF ResumeFiber
  <2>4. Alike(f, fibers[p])
    BY <2>2 DEF Alike, TypeOK, Fiber
  <2>5. \A q \in Slots : Quiet(q) /\ Undisturbed(q)
    BY <2>3, Stays, QueuePushed, SocketsSame
  <2>6. fibers'[p] = f /\ Update(p, f)
    BY <2>1, <2>2 DEF Update, TypeOK
  <2>7. LookupOK(p)' /\ EventOK(p)'
    BY <2>4, <2>5, <2>6, SlotKept
  <2>8. RunsFunc'
    BY <2>3 DEF RunsFunc
  <2> QED BY <2>5, <2>6, <2>7, <2>8, OneSlot
<1>3. ASSUME NEW p \in Slots, DropTimerRef(p) PROVE WakeInv'
  <2>1. at = "main" /\ UNCHANGED <<at, cur, loop, avail, edge, toexec>>
    BY <1>3 DEF DropTimerRef, OnMain
  <2>2. \A q \in Slots : Quiet(q) /\ Undisturbed(q)
    BY <2>1, Stays, QueueSame, SocketsSame
  <2>3. RunsFunc'
    BY <2>1 DEF RunsFunc
  <2>4. CASE UNCHANGED fibers
    BY <2>2, <2>3, <2>4, NoSlot
  <2>5. CASE Update(p, [fibers[p] EXCEPT !.wtoken = None, !.result = "none", !.param = FALSE])
    <3>1. PICK f : f = [fibers[p] EXCEPT !.wtoken = None, !.result = "none", !.param = FALSE]
      OBVIOUS
    <3>2. /\ f.parent = fibers[p].parent /\ f.connect_param = fibers[p].connect_param
          /\ f.sock = fibers[p].sock /\ f.op = fibers[p].op /\ f.wtoken = None
          /\ f.func = fibers[p].func /\ f.ready = fibers[p].ready
      BY <3>1 DEF TypeOK, Fiber
    <3>3. fibers'[p] = f /\ Update(p, f)
      BY <2>5, <3>1 DEF Update, TypeOK
    <3>4. LookupOK(p) /\ EventOK(p) /\ Quiet(p) /\ Undisturbed(p)
      BY <2>2 DEF WakeInv
    <3>5. LookupOK(p)'
      BY <3>2, <3>3, <3>4 DEF LookupOK, Quiet
    <3>6. EventOK(p)'
      BY <3>2, <3>3, <3>4 DEF EventOK, Quiet, Undisturbed
    <3> QED BY <2>2, <2>3, <3>3, <3>5, <3>6, OneSlot
  <2> QED BY <1>3, <2>4, <2>5 DEF DropTimerRef
<1> QED BY <1>1, <1>2, <1>3 DEF Main

LEMMA EnvironmentWake ==
  ASSUME NoStaleParent, TypeOK, WakeInv, Environment
  PROVE  WakeInv'
<1>1. PICK p \in Slots, dir \in Directions : SocketReady(p, dir)
  BY DEF Environment
<1>2. /\ UNCHANGED <<at, cur, loop, fibers, toexec>> /\ avail' = [avail EXCEPT ![p] = @ \cup {dir}]
      /\ edge \subseteq edge' /\ (fibers[p].ready = dir => p \in edge')
  BY <1>1 DEF SocketReady, control, runnerVars, NoStaleParent
<1>3. avail'[p] = avail[p] \cup {dir} /\ \A q \in Slots : q # p => avail'[q] = avail[q]
  BY <1>2 DEF TypeOK
<1>4. \A q : Scheduled(q) => Scheduled(q)'
  BY <1>2, QueueSame
<1>5. \A q \in Slots : Quiet(q)
  BY <1>2, Stays DEF control
<1>6. \A q \in Slots : q # p => Undisturbed(q)
  BY <1>2, <1>3, <1>4 DEF Undisturbed
<1>7. LookupOK(p) /\ EventOK(p) /\ Quiet(p)
  BY <1>5 DEF WakeInv
<1>8. LookupOK(p)'
  BY <1>2, <1>7 DEF LookupOK, Quiet
<1>9. EventOK(p)'
  BY <1>2, <1>3, <1>4, <1>7 DEF EventOK, Quiet
<1>10. RunsFunc' /\ Update(p, fibers[p])
  BY <1>2 DEF WakeInv, RunsFunc, Me, Update, TypeOK
<1> QED BY <1>5, <1>6, <1>8, <1>9, <1>10, OneSlot

-----------------------------------------------------------------------------
LEMMA InitWake == Init => WakeInv
<1> SUFFICES ASSUME Init PROVE WakeInv
  OBVIOUS
<1>1. at = "main" /\ cur = 1 /\ \A p \in Slots : fibers[p] = Unallocated
  BY DEF Init
<1>2. /\ Unallocated.op = "start" /\ Unallocated.parent = None /\ ~Unallocated.connect_param
  BY DEF Unallocated, NewFiber
<1>3. \A p \in Slots : LookupOK(p) /\ EventOK(p)
  BY <1>1, <1>2 DEF LookupOK, EventOK, SocketOps
<1>4. RunsFunc
  BY <1>1 DEF RunsFunc
<1> QED BY <1>3, <1>4 DEF WakeInv

LEMMA NextWake ==
  ASSUME NoStaleParent, TypeOK, WakeInv, [Next]_vars
  PROVE  WakeInv'
<1>1. CASE Next
  BY <1>1, CreatesWake, CallsWake, SwitchesWake, RunWake, PollWake, MainWake, EnvironmentWake
     DEF Next
<1>2. CASE UNCHANGED vars
  <2>1. UNCHANGED <<at, cur, loop, fibers, toexec, avail, edge>>
    BY <1>2 DEF vars, control, runnerVars, pollerVars, sockVars
  <2>2. \A q \in Slots : Quiet(q) /\ Undisturbed(q)
    BY <2>1, Stays, QueueSame, SocketsSame DEF control
  <2>3. RunsFunc'
    BY <2>1 DEF WakeInv, RunsFunc, Me
  <2> QED BY <2>1, <2>2, <2>3, NoSlot
<1> QED BY <1>1, <1>2

LEMMA AlwaysWake == ASSUME NoStaleParent PROVE Spec => []WakeInv
<1>1. TypeOK /\ WakeInv /\ [Next]_vars => WakeInv'
  BY NextWake
<1> QED BY <1>1, InitWake, TypeCorrect, PTL DEF Spec

\* A fiber that is blocked in read, write, accept or a handshake on a socket
\* that is ready for the call has an event coming or is queued, whatever the
\* order of registrations, deliveries and closed or replaced sockets.
THEOREM WakeupNeverLost == ASSUME NoStaleParent PROVE Spec => []NoLostWakeup
<1>1. WakeInv => NoLostWakeup
  BY DEF WakeInv, EventOK, NoLostWakeup
<1> QED BY <1>1, AlwaysWake, PTL

\* A lookup whose timer is set has a tick to count down: run() never takes one
\* from zero, however timers, answers and reused slots interleave.
THEOREM LookupAlwaysCounts == ASSUME NoStaleParent PROVE Spec => []LookupCounts
<1>1. WakeInv => LookupCounts
  BY DEF WakeInv, LookupOK, LookupCounts
<1> QED BY <1>1, AlwaysWake, PTL

\* The function of a fiber never sees the socket of the lookup: one that is
\* still resolving its host has not run.
THEOREM LookupAlwaysWaits == ASSUME NoStaleParent PROVE Spec => []LookupWaits
<1>1. WakeInv => LookupWaits
  BY DEF WakeInv, LookupOK, LookupWaits
<1> QED BY <1>1, AlwaysWake, PTL

=============================================================================
