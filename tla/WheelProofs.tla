----------------------------- MODULE WheelProofs -----------------------------
(***************************************************************************)
(* The timer wheel, for any number of slots, any length of a tick and any  *)
(* capacity: its lists are lists, next_timeout is never too late, and it   *)
(* implements TimerService.                                                *)
(***************************************************************************)
EXTENDS WheelProps, Induction

\* The tick that a timer is for.
due(tk) == time_to_ticks(slab[tk].when)

\* tk is on the list of slot s.
On(tk, s) == tk \in Tokens /\ Armed(tk) /\ slab[tk].wheel_idx = s

\* A vacant entry is empty, the free list has each once, and what is beyond the
\* capacity is not in use.
VacantInv ==
    /\ \A tk \in Tokens : ~Armed(tk) => slab[tk] = Vacant
    /\ \A i \in 1 .. Len(vacant) : vacant[i] <= capacity /\ ~Armed(vacant[i])
    /\ \A i, j \in 1 .. Len(vacant) : vacant[i] = vacant[j] => i = j
    /\ \A tk \in Tokens : Armed(tk) => tk <= capacity

\* The clock only goes forward, and poll no further than one tick past it.
TimeInv == polled <= now /\ cur_wheel_tick <= time_to_ticks(polled) + 1

\* A timer is on the list of its tick's slot, and no poll is past its tick.
PlacedInv ==
    \A t \in Tokens : Armed(t) =>
       /\ slab[t].wheel_idx = ticks_to_wheel_idx(due(t))
       /\ cur_wheel_tick <= due(t)

\* The lists are in the order of a rank, highest first: the head has the
\* highest of its slot, next is the one with the next lower, prev the inverse.
\* So a list has no cycle, and every timer of the slot is on it.
Sorted(rank) ==
    /\ \A t, u \in Tokens : Armed(t) /\ Armed(u) /\ rank[t] = rank[u] => t = u
    /\ \A s \in Slots : head[s] # None => On(head[s], s)
    /\ \A s \in Slots, t \in Tokens :
         On(t, s) => head[s] # None /\ rank[t] <= rank[head[s]]
    /\ \A t \in Tokens : Armed(t) /\ slab[t].next # None =>
         /\ On(slab[t].next, slab[t].wheel_idx) /\ slab[slab[t].next].prev = t
         /\ rank[slab[t].next] < rank[t]
    /\ \A t, u \in Tokens : Armed(t) /\ On(u, slab[t].wheel_idx) /\ rank[u] < rank[t] =>
         slab[t].next # None /\ rank[u] <= rank[slab[t].next]
    /\ \A t \in Tokens : Armed(t) /\ slab[t].prev # None =>
         On(slab[t].prev, slab[t].wheel_idx) /\ slab[slab[t].prev].next = t
    /\ \A t \in Tokens : Armed(t) /\ slab[t].prev = None => head[slab[t].wheel_idx] = t

\* The cursor has passed t on its list.
Passed(t, rank) == cur_slab_idx # None => rank[cur_slab_idx] < rank[t]

\* The cursor is on the list of its slot, and what it has passed there is for a
\* later round of the wheel.
CursorInv(rank) ==
    /\ cur_slab_idx # None => On(cur_slab_idx, slot)
    /\ \A t \in Tokens : On(t, slot) /\ Passed(t, rank) => cur_wheel_tick < due(t)

\* next_timeout is no later than t, or the loop of poll, which cleared it, has t
\* before it.
BoundsInv(rank) ==
    \A t \in Tokens : Armed(t) =>
       \/ next_timeout[slab[t].wheel_idx] \in 1 .. slab[t].when
       \/ Behind /\ slab[t].wheel_idx = slot /\ ~Passed(t, rank)

\* Ranks below b.
Ranks(b) == [Tokens -> {n \in Nat : n < b}]

\* The inductive invariant.
RankInv == \E b \in Nat : \E rank \in Ranks(b) : Sorted(rank) /\ CursorInv(rank) /\ BoundsInv(rank)
WheelInv == WTypeOK /\ VacantInv /\ TimeInv /\ PlacedInv /\ RankInv

-----------------------------------------------------------------------------
(* Ticks and slots.                                                        *)

\* The positive constants.
LEMMA Numbers ==
  /\ NumSlots \in Nat /\ NumSlots > 0 /\ TickMs \in Nat /\ TickMs > 0
  /\ InitialCapacity \in Nat /\ InitialCapacity > 0 /\ MaxCapacity \in Nat
  /\ InitialCapacity <= MaxCapacity
  BY WheelAssumption

LEMMA Remainder ==
  ASSUME NEW n \in Nat, NEW u \in Nat, u > 0
  PROVE  n % u \in 0 .. u - 1
  OBVIOUS

LEMMA SlotType ==
  ASSUME NEW tick \in Nat
  PROVE  ticks_to_wheel_idx(tick) \in Slots
  BY Numbers, Remainder DEF ticks_to_wheel_idx, Slots

LEMMA Quotient ==
  ASSUME NEW n \in Nat, NEW u \in Nat, u > 0
  PROVE  n \div u \in Nat
  OBVIOUS

LEMMA QuotientExact ==
  ASSUME NEW n \in Nat, NEW u \in Nat, u > 0
  PROVE  (n * u) \div u = n
  OBVIOUS

LEMMA QuotientGrows ==
  ASSUME NEW m \in Nat, NEW n \in Nat, NEW u \in Nat, u > 0, m <= n
  PROVE  m \div u <= n \div u
  OBVIOUS

LEMMA TickType ==
  ASSUME NEW ms \in Nat
  PROVE  time_to_ticks(ms) \in Nat
  BY Numbers, Quotient DEF time_to_ticks

\* A timer that is set for a tick is due in it.
LEMMA TickExact ==
  ASSUME NEW n \in Nat
  PROVE  n * TickMs \in Nat /\ time_to_ticks(n * TickMs) = n
  BY Numbers, QuotientExact DEF time_to_ticks

LEMMA TickGrows ==
  ASSUME NEW m \in Nat, NEW n \in Nat, m <= n
  PROVE  time_to_ticks(m) <= time_to_ticks(n)
  BY Numbers, QuotientGrows DEF time_to_ticks

\* Tick 0 is that of less than TickMs.
LEMMA LaterThanZero ==
  ASSUME NEW n \in Nat, time_to_ticks(n) > 0
  PROVE  n > 0
<1>1. n = 0 => n \div TickMs = 0
  BY Numbers
<1> QED BY <1>1 DEF time_to_ticks

\* The greater and the smaller of two numbers.
LEMMA MaxOfTwo ==
  ASSUME NEW m \in Nat, NEW n \in Nat
  PROVE  /\ Max({m, n}) \in {m, n} /\ Max({m, n}) \in Nat
         /\ m <= Max({m, n}) /\ n <= Max({m, n})
<1>1. \E x \in {m, n} : \A y \in {m, n} : x >= y
  OBVIOUS
<1>2. Max({m, n}) \in {m, n} /\ \A y \in {m, n} : Max({m, n}) >= y
  BY <1>1, Zenon DEF Max
<1> QED BY <1>2

LEMMA MinOfTwo ==
  ASSUME NEW m \in Nat, NEW n \in Nat
  PROVE  Min({m, n}) \in Nat /\ Min({m, n}) <= m /\ Min({m, n}) <= n
<1>1. Min({m, n}) \in {m, n} /\ \A y \in {m, n} : Min({m, n}) <= y
  BY MinIsLeast
<1> QED BY <1>1

-----------------------------------------------------------------------------
(* The lists.                                                              *)

Entry == [task : Tasks \cup {None}, when : Nat, wheel_idx : Slots,
          prev : Tokens \cup {None}, next : Tokens \cup {None}]

\* No token and no task is None.
LEMMA NoneApart == None \notin Tokens /\ None \notin Tasks
  BY WheelAssumption DEF None, Tokens

\* The entry of t is the same but for its place in a list.
Same(t) ==
    /\ slab'[t].task = slab[t].task /\ slab'[t].when = slab[t].when
    /\ slab'[t].wheel_idx = slab[t].wheel_idx

\* What set_timeout does to the entries.
LEMMA LinkedFields ==
  ASSUME slab \in [Tokens -> Entry], NEW tk \in Tokens, NEW e \in Entry, slab' = Linked(tk, e)
  PROVE  /\ slab' \in [Tokens -> Entry] /\ slab'[tk] = e
         /\ \A t \in Tokens : t # tk => Same(t) /\ slab'[t].next = slab[t].next
         /\ \A t \in Tokens : t # tk /\ t = e.next => slab'[t].prev = tk
         /\ \A t \in Tokens : t # tk /\ t # e.next => slab'[t].prev = slab[t].prev
<1>1. slab' = [t \in Tokens |-> IF t = tk THEN e
                                ELSE IF t = e.next THEN [slab[t] EXCEPT !.prev = tk]
                                ELSE slab[t]]
  BY Zenon DEF Linked
<1>2. slab'[tk] = e
  BY <1>1
<1>3. ASSUME NEW t \in Tokens, t # tk, t = e.next
      PROVE  /\ slab'[t] \in Entry /\ Same(t) /\ slab'[t].next = slab[t].next
             /\ slab'[t].prev = tk
  <2>1. slab'[t] = [slab[t] EXCEPT !.prev = tk] /\ slab[t] \in Entry
    BY <1>1, <1>3
  <2> QED BY <2>1 DEF Entry, Same
<1>4. ASSUME NEW t \in Tokens, t # tk, t # e.next
      PROVE  slab'[t] = slab[t]
  BY <1>1, <1>4
<1>5. ASSUME NEW t \in Tokens PROVE slab'[t] \in Entry
  BY <1>2, <1>3, <1>4
<1>6. slab' \in [Tokens -> Entry]
  BY <1>1, <1>5, Zenon
<1> QED BY <1>2, <1>3, <1>4, <1>6 DEF Same

\* What remove_slab does to them.
LEMMA UnlinkedFields ==
  ASSUME slab \in [Tokens -> Entry], NEW tk \in Tokens, slab' = Unlinked(tk)
  PROVE  /\ slab' \in [Tokens -> Entry] /\ slab'[tk] = Vacant
         /\ \A t \in Tokens : t # tk => Same(t)
         /\ \A t \in Tokens : t # tk /\ t = slab[tk].prev => slab'[t].next = slab[tk].next
         /\ \A t \in Tokens : t # tk /\ t # slab[tk].prev => slab'[t].next = slab[t].next
         /\ \A t \in Tokens : t # tk /\ t = slab[tk].next /\ t # slab[tk].prev =>
              slab'[t].prev = slab[tk].prev
         /\ \A t \in Tokens : t # tk /\ t # slab[tk].next => slab'[t].prev = slab[t].prev
<1> DEFINE e == slab[tk]
<1>1. slab' = [t \in Tokens |-> IF t = tk THEN Vacant
                                ELSE IF t = e.prev THEN [slab[t] EXCEPT !.next = e.next]
                                ELSE IF t = e.next THEN [slab[t] EXCEPT !.prev = e.prev]
                                ELSE slab[t]]
  BY Zenon DEF Unlinked
<1>2. e \in Entry
  OBVIOUS
<1> HIDE DEF e
<1>3. slab'[tk] = Vacant /\ Vacant \in Entry
  <2>1. 0 \in Slots
    BY Numbers DEF Slots
  <2> QED BY <1>1, <2>1 DEF Vacant, Entry, None
<1>4. ASSUME NEW t \in Tokens, t # tk, t = e.prev
      PROVE  /\ slab'[t] \in Entry /\ Same(t) /\ slab'[t].next = e.next
             /\ slab'[t].prev = slab[t].prev
  <2>1. slab'[t] = [slab[t] EXCEPT !.next = e.next] /\ slab[t] \in Entry
    BY <1>1, <1>4
  <2> QED BY <1>2, <2>1 DEF Entry, Same
<1>5. ASSUME NEW t \in Tokens, t # tk, t # e.prev, t = e.next
      PROVE  /\ slab'[t] \in Entry /\ Same(t) /\ slab'[t].prev = e.prev
             /\ slab'[t].next = slab[t].next
  <2>1. slab'[t] = [slab[t] EXCEPT !.prev = e.prev] /\ slab[t] \in Entry
    BY <1>1, <1>5
  <2> QED BY <1>2, <2>1 DEF Entry, Same
<1>6. ASSUME NEW t \in Tokens, t # tk, t # e.prev, t # e.next
      PROVE  slab'[t] = slab[t]
  BY <1>1, <1>6
<1>7. ASSUME NEW t \in Tokens PROVE slab'[t] \in Entry
  BY <1>3, <1>4, <1>5, <1>6
<1>8. slab' \in [Tokens -> Entry]
  BY <1>1, <1>7, Zenon
<1> QED BY <1>3, <1>4, <1>5, <1>6, <1>8 DEF Same, e

\* The free entry tk becomes e, the head of the list of s.
Inserts(tk, s, e) ==
    /\ ~Armed(tk) /\ e.task # None /\ e.wheel_idx = s /\ e.prev = None /\ e.next = head[s]
    /\ slab' = Linked(tk, e) /\ head' = [head EXCEPT ![s] = tk]

\* The list of s has tk as well, and nothing else comes or goes.
Adds(tk, s) ==
    /\ \A t \in Tokens : Armed(t)' <=> Armed(t) \/ t = tk
    /\ \A t \in Tokens, z \in Slots : On(t, z)' <=> On(t, z) \/ (t = tk /\ z = s)

\* An entry that becomes the head of a list keeps the lists in order: it gets a
\* rank above all others.
LEMMA InsertSorted ==
  ASSUME slab \in [Tokens -> Entry], head \in [Slots -> Tokens \cup {None}],
         NEW tk \in Tokens, NEW s \in Slots, NEW e \in Entry, Inserts(tk, s, e),
         NEW b \in Nat, NEW rank \in Ranks(b), Sorted(rank)
  PROVE  Sorted([rank EXCEPT ![tk] = b])' /\ Adds(tk, s)
<1>0. PICK rk : rk = [rank EXCEPT ![tk] = b]
  OBVIOUS
<1>1. /\ slab' \in [Tokens -> Entry] /\ slab'[tk] = e
      /\ \A t \in Tokens : t # tk => Same(t) /\ slab'[t].next = slab[t].next
      /\ \A t \in Tokens : t # tk /\ t = head[s] => slab'[t].prev = tk
      /\ \A t \in Tokens : t # tk /\ t # head[s] => slab'[t].prev = slab[t].prev
  BY LinkedFields DEF Inserts
<1>2. /\ rk[tk] = b
      /\ \A t \in Tokens : t # tk => rk[t] = rank[t]
      /\ \A t \in Tokens : rank[t] \in Nat /\ rank[t] < b
  BY <1>0 DEF Ranks
<1>3. head'[s] = tk /\ \A z \in Slots : z # s => head'[z] = head[z]
  BY DEF Inserts
<1>4. \A t \in Tokens : Armed(t)' <=> Armed(t) \/ t = tk
  BY <1>1 DEF Armed, Same, Inserts
<1>5. \A t \in Tokens, z \in Slots : On(t, z)' <=> On(t, z) \/ (t = tk /\ z = s)
  BY <1>1, <1>4 DEF On, Same, Inserts
<1>6. \A t \in Tokens : slab[t].wheel_idx \in Slots /\ slab'[t].wheel_idx \in Slots
  BY <1>1 DEF Entry
<1>7. \A t \in Tokens : \A z : On(t, z) => t # tk /\ Armed(t) /\ slab[t].wheel_idx = z
  BY DEF On, Inserts
<1>8. tk # None /\ head[s] # tk
  BY NoneApart DEF Sorted, On, Inserts
<1>9. /\ slab'[tk].next = head[s] /\ slab'[tk].wheel_idx = s /\ slab'[tk].prev = None
  BY <1>1 DEF Inserts
<1>11. \A t, u \in Tokens : Armed(t)' /\ Armed(u)' /\ rk[t] = rk[u] => t = u
  BY <1>2, <1>4 DEF Sorted
<1>12. ASSUME NEW z \in Slots, head'[z] # None PROVE On(head[z], z)'
  <2>1. head'[z] \in Tokens
    BY <1>3, <1>12
  <2>2. \A t \in Tokens : On(t, z)' /\ t = head'[z] => On(head[z], z)'
    BY Zenon
  <2>3. z # s => On(head[z], z)
    BY <1>3, <1>12 DEF Sorted
  <2> QED BY <1>3, <1>5, <2>1, <2>2, <2>3
<1>13. ASSUME NEW z \in Slots, NEW t \in Tokens, On(t, z)'
       PROVE  head'[z] # None /\ rk[t] <= rk[head'[z]]
  <2>1. CASE z = s
    BY <1>2, <1>3, <1>8, <2>1
  <2>2. CASE z # s
    <3>1. On(t, z) /\ head'[z] = head[z]
      BY <1>3, <1>5, <1>13, <2>2
    <3>2. head[z] # None /\ rank[t] <= rank[head[z]] /\ On(head[z], z)
      BY <3>1 DEF Sorted
    <3>3. head[z] \in Tokens /\ head[z] # tk /\ t # tk
      BY <1>7, <3>1, <3>2 DEF On
    <3> QED BY <1>2, <3>1, <3>2, <3>3
  <2> QED BY <2>1, <2>2
<1>14. ASSUME NEW t \in Tokens, Armed(t)', slab'[t].next # None
       PROVE  /\ On(slab[t].next, slab[t].wheel_idx)' /\ slab'[slab'[t].next].prev = t
              /\ rk[slab'[t].next] < rk[t]
  <2>1. CASE t = tk
    <3>1. slab'[t].next = head[s] /\ slab'[t].wheel_idx = s /\ On(head[s], s)
      BY <1>9, <1>14, <2>1 DEF Sorted
    <3>2. head[s] \in Tokens
      BY <3>1 DEF On
    <3> QED BY <1>1, <1>2, <1>5, <1>8, <2>1, <3>1, <3>2
  <2>2. CASE t # tk
    <3> DEFINE n == slab[t].next
               z == slab[t].wheel_idx
    <3>1. Armed(t) /\ slab'[t].next = n /\ slab'[t].wheel_idx = z /\ n # None
      BY <1>1, <1>4, <1>14, <2>2 DEF Same
    <3>2. On(n, z) /\ slab[n].prev = t /\ rank[n] < rank[t] /\ On(t, z)
      BY <3>1 DEF Sorted, On
    <3>3. rank[t] <= rank[head[z]] /\ z \in Slots
      BY <1>6, <3>2 DEF Sorted
    <3> HIDE DEF n, z
    <3>4. n \in Tokens /\ n # tk /\ n # head[z]
      BY <1>2, <1>7, <3>2, <3>3 DEF On
    <3>5. n # head[s]
      BY <1>7, <3>2, <3>4 DEF Sorted, On
    <3>6. slab'[n].prev = t
      BY <1>1, <3>2, <3>4, <3>5
    <3> QED BY <1>2, <1>5, <2>2, <3>1, <3>2, <3>3, <3>4, <3>6
  <2> QED BY <2>1, <2>2
<1>15. ASSUME NEW t \in Tokens, NEW u \in Tokens, Armed(t)', On(u, slab[t].wheel_idx)',
              rk[u] < rk[t]
       PROVE  slab'[t].next # None /\ rk[u] <= rk[slab'[t].next]
  <2>1. CASE t = tk
    <3>1. slab'[t].next = head[s] /\ slab'[t].wheel_idx = s /\ u # tk
      BY <1>2, <1>9, <1>15, <2>1
    <3>2. On(u, s)
      BY <1>5, <1>15, <3>1
    <3>3. head[s] # None /\ rank[u] <= rank[head[s]] /\ head[s] \in Tokens
      BY <3>2 DEF Sorted
    <3> QED BY <1>2, <1>8, <3>1, <3>3
  <2>2. CASE t # tk
    <3>1. u # tk /\ Armed(t) /\ slab'[t].wheel_idx = slab[t].wheel_idx
          /\ slab'[t].next = slab[t].next
      BY <1>1, <1>2, <1>4, <1>15, <2>2 DEF Same
    <3>2. On(u, slab[t].wheel_idx) /\ rank[u] < rank[t]
      BY <1>2, <1>5, <1>6, <1>15, <2>2, <3>1
    <3>3. slab[t].next # None /\ rank[u] <= rank[slab[t].next]
      BY <3>1, <3>2 DEF Sorted
    <3>4. slab[t].next \in Tokens /\ slab[t].next # tk
      BY <1>7, <3>1, <3>3 DEF Sorted, On
    <3> QED BY <1>2, <3>1, <3>3, <3>4
  <2> QED BY <2>1, <2>2
<1>16. ASSUME NEW t \in Tokens, Armed(t)', slab'[t].prev # None
       PROVE  On(slab[t].prev, slab[t].wheel_idx)' /\ slab'[slab'[t].prev].next = t
  <2>1. t # tk /\ Armed(t) /\ slab'[t].wheel_idx = slab[t].wheel_idx
    BY <1>1, <1>4, <1>9, <1>16 DEF Same
  <2>2. CASE t = head[s]
    <3>1. slab'[t].prev = tk /\ slab[t].wheel_idx = s
      BY <1>1, <1>8, <2>1, <2>2, NoneApart DEF Sorted, On
    <3> QED BY <1>5, <1>9, <2>1, <2>2, <3>1
  <2>3. CASE t # head[s]
    <3> DEFINE p == slab[t].prev
    <3>1. slab'[t].prev = p
      BY <1>1, <2>1, <2>3
    <3>2. On(p, slab[t].wheel_idx) /\ slab[p].next = t
      BY <1>16, <2>1, <3>1 DEF Sorted
    <3>3. p \in Tokens /\ p # tk
      BY <1>7, <3>2 DEF On
    <3> QED BY <1>1, <1>5, <1>6, <2>1, <3>1, <3>2, <3>3
  <2> QED BY <2>2, <2>3
<1>17. ASSUME NEW t \in Tokens, Armed(t)', slab'[t].prev = None
       PROVE  head'[slab'[t].wheel_idx] = t
  <2>1. CASE t = tk
    BY <1>3, <1>9, <2>1
  <2>2. CASE t # tk
    <3>1. Armed(t) /\ slab'[t].wheel_idx = slab[t].wheel_idx /\ t # head[s]
      BY <1>1, <1>4, <1>8, <1>17, <2>2 DEF Same
    <3>2. head[slab[t].wheel_idx] = t
      BY <1>1, <1>17, <2>2, <3>1 DEF Sorted
    <3> QED BY <1>3, <1>6, <3>1, <3>2
  <2> QED BY <2>1, <2>2
<1>18. Sorted(rk)'
  BY <1>11, <1>12, <1>13, <1>14, <1>15, <1>16, <1>17, Zenon DEF Sorted
<1> QED BY <1>0, <1>4, <1>5, <1>18 DEF Adds

\* Removing an entry keeps the lists in order: its neighbours in the list are
\* those in rank.
LEMMA RemoveSorted ==
  ASSUME slab \in [Tokens -> Entry], head \in [Slots -> Tokens \cup {None}],
         NEW tk \in Tokens, Armed(tk), remove_slab(tk),
         NEW rank \in [Tokens -> Nat], Sorted(rank)
  PROVE  /\ Sorted(rank)'
         /\ \A t \in Tokens : Armed(t)' <=> Armed(t) /\ t # tk
         /\ \A t \in Tokens, z \in Slots : On(t, z)' <=> On(t, z) /\ t # tk
<1>0. PICK p, n, s : p = slab[tk].prev /\ n = slab[tk].next /\ s = slab[tk].wheel_idx
  OBVIOUS
<1>1. /\ slab' \in [Tokens -> Entry] /\ slab'[tk] = Vacant
      /\ \A t \in Tokens : t # tk => Same(t)
      /\ \A t \in Tokens : t # tk /\ t = p => slab'[t].next = n
      /\ \A t \in Tokens : t # tk /\ t # p => slab'[t].next = slab[t].next
      /\ \A t \in Tokens : t # tk /\ t = n /\ t # p => slab'[t].prev = p
      /\ \A t \in Tokens : t # tk /\ t # n => slab'[t].prev = slab[t].prev
  BY <1>0, UnlinkedFields DEF remove_slab
<1>2. \A t \in Tokens : rank[t] \in Nat
  OBVIOUS
<1>3. /\ p = None => head' = [head EXCEPT ![s] = n]
      /\ p # None => head' = head
      /\ s \in Slots
  BY <1>0 DEF remove_slab, Entry
<1>4. \A t \in Tokens : Armed(t)' <=> Armed(t) /\ t # tk
  BY <1>1 DEF Armed, Same, Vacant
<1>5. \A t \in Tokens, z \in Slots : On(t, z)' <=> On(t, z) /\ t # tk
  BY <1>1, <1>4 DEF On, Same
<1>6. \A t \in Tokens : slab[t].wheel_idx \in Slots /\ slab'[t].wheel_idx \in Slots
  BY <1>1 DEF Entry
<1>7. \A t : \A z : On(t, z) => t \in Tokens /\ Armed(t) /\ slab[t].wheel_idx = z
  BY DEF On
<1>8. n # None => n \in Tokens /\ On(n, s) /\ slab[n].prev = tk /\ rank[n] < rank[tk] /\ n # tk
  BY <1>0, <1>2 DEF Sorted, On
<1>9. p # None => p \in Tokens /\ On(p, s) /\ slab[p].next = tk /\ rank[tk] < rank[p] /\ p # tk
  <2> SUFFICES ASSUME p # None
               PROVE  /\ p \in Tokens /\ On(p, s) /\ slab[p].next = tk
                      /\ rank[tk] < rank[p] /\ p # tk
    OBVIOUS
  <2>1. On(p, s) /\ slab[p].next = tk
    BY <1>0 DEF Sorted
  <2>2. p \in Tokens /\ Armed(p)
    BY <1>7, <2>1
  <2>3. rank[tk] < rank[p]
    BY <2>1, <2>2, NoneApart DEF Sorted
  <2> QED BY <1>2, <2>1, <2>2, <2>3
<1>10. (n # None \/ p # None) => n # p
  BY <1>2, <1>8, <1>9
<1>11. p = None => head[s] = tk
  BY <1>0 DEF Sorted
<1>12. On(tk, s)
  BY <1>0 DEF On
<1>13. \A u \in Tokens : On(u, s) /\ rank[u] < rank[tk] => n # None /\ rank[u] <= rank[n]
  BY <1>0 DEF Sorted
<1>14. \A u \in Tokens : On(u, s) /\ u # tk => rank[u] # rank[tk]
  BY DEF Sorted, On
<1>21. \A t, u \in Tokens : Armed(t)' /\ Armed(u)' /\ rank[t] = rank[u] => t = u
  BY <1>4 DEF Sorted
<1>22. ASSUME NEW z \in Slots, head'[z] # None PROVE On(head[z], z)'
  <2>1. \A t \in Tokens : On(t, z)' /\ t = head'[z] => On(head[z], z)'
    BY Zenon
  <2>2. CASE z = s /\ p = None
    <3>1. head'[z] = n
      BY <1>3, <2>2
    <3> QED BY <1>5, <1>8, <1>22, <2>1, <2>2, <3>1
  <2>3. CASE ~(z = s /\ p = None)
    <3>1. head'[z] = head[z] /\ On(head[z], z)
      BY <1>3, <1>22, <2>3 DEF Sorted
    <3>2. head[z] # tk
      <4> SUFFICES ASSUME head[z] = tk PROVE FALSE
        OBVIOUS
      <4>1. z = s /\ p # None
        BY <1>7, <1>12, <2>3, <3>1
      <4>2. rank[p] <= rank[tk]
        BY <1>9, <4>1 DEF Sorted
      <4> QED BY <1>2, <1>9, <4>1, <4>2
    <3> QED BY <1>5, <1>7, <2>1, <3>1, <3>2
  <2> QED BY <2>2, <2>3
<1>23. ASSUME NEW z \in Slots, NEW t \in Tokens, On(t, z)'
       PROVE  head'[z] # None /\ rank[t] <= rank[head'[z]]
  <2>1. On(t, z) /\ t # tk
    BY <1>5, <1>23
  <2>2. head[z] # None /\ rank[t] <= rank[head[z]]
    BY <2>1 DEF Sorted
  <2>3. CASE z = s /\ p = None
    <3>1. head'[z] = n /\ head[z] = tk
      BY <1>3, <1>11, <2>3
    <3>2. rank[t] < rank[tk]
      BY <1>2, <1>14, <2>1, <2>2, <2>3, <3>1
    <3> QED BY <1>13, <2>1, <2>3, <3>1, <3>2
  <2>4. CASE ~(z = s /\ p = None)
    BY <1>3, <2>2, <2>4
  <2> QED BY <2>3, <2>4
<1>24. ASSUME NEW t \in Tokens, Armed(t)', slab'[t].next # None
       PROVE  /\ On(slab[t].next, slab[t].wheel_idx)' /\ slab'[slab'[t].next].prev = t
              /\ rank[slab'[t].next] < rank[t]
  <2>1. t # tk /\ Armed(t) /\ slab'[t].wheel_idx = slab[t].wheel_idx
    BY <1>1, <1>4, <1>24 DEF Same
  <2>2. \A x \in Tokens, z \in Slots :
          On(x, z)' /\ x = slab'[t].next /\ z = slab'[t].wheel_idx =>
            On(slab[t].next, slab[t].wheel_idx)'
    BY Zenon
  <2>3. CASE t = p
    <3>1. slab'[t].next = n /\ p # None
      BY <1>1, <2>1, <2>3, NoneApart
    <3>2. slab[t].wheel_idx = s
      BY <1>7, <1>9, <2>3, <3>1
    <3>3. slab'[n].prev = t
      BY <1>1, <1>8, <1>10, <1>24, <2>3, <3>1
    <3>4. rank[n] < rank[t]
      BY <1>2, <1>8, <1>9, <1>24, <2>3, <3>1
    <3> QED BY <1>3, <1>5, <1>8, <1>24, <2>1, <2>2, <3>1, <3>2, <3>3, <3>4
  <2>4. CASE t # p
    <3>0. PICK m, z : m = slab[t].next /\ z = slab[t].wheel_idx
      OBVIOUS
    <3>1. slab'[t].next = m /\ m # None
      BY <1>1, <1>24, <2>1, <2>4, <3>0
    <3>2. On(m, z) /\ slab[m].prev = t /\ rank[m] < rank[t]
      BY <2>1, <3>0, <3>1 DEF Sorted
    <3>3. m \in Tokens /\ m # tk /\ m # n /\ z \in Slots
      BY <1>0, <1>6, <1>7, <1>8, <2>1, <2>4, <3>0, <3>1, <3>2
    <3>4. slab'[m].prev = t
      BY <1>1, <3>2, <3>3
    <3> QED BY <1>5, <2>1, <2>2, <3>0, <3>1, <3>2, <3>3, <3>4
  <2> QED BY <2>3, <2>4
<1>25. ASSUME NEW t \in Tokens, NEW u \in Tokens, Armed(t)', On(u, slab[t].wheel_idx)',
              rank[u] < rank[t]
       PROVE  slab'[t].next # None /\ rank[u] <= rank[slab'[t].next]
  <2>1. t # tk /\ Armed(t) /\ slab'[t].wheel_idx = slab[t].wheel_idx
    BY <1>1, <1>4, <1>25 DEF Same
  <2>2. \A z \in Slots : On(u, slab[t].wheel_idx)' /\ z = slab'[t].wheel_idx => On(u, z)'
    BY Zenon
  <2>3. On(u, slab[t].wheel_idx) /\ u # tk
    BY <1>5, <1>6, <1>25, <2>1, <2>2
  <2>4. slab[t].next # None /\ rank[u] <= rank[slab[t].next]
    BY <1>25, <2>1, <2>3 DEF Sorted
  <2>5. CASE t = p
    <3>1. slab'[t].next = n /\ p # None
      BY <1>1, <2>1, <2>5, NoneApart
    <3>2. slab[t].wheel_idx = s /\ slab[t].next = tk
      BY <1>7, <1>9, <2>5, <3>1
    <3>3. rank[u] < rank[tk]
      BY <1>2, <1>14, <2>3, <2>4, <3>2
    <3> QED BY <1>13, <2>3, <3>1, <3>2, <3>3
  <2>6. CASE t # p
    BY <1>1, <2>1, <2>4, <2>6
  <2> QED BY <2>5, <2>6
<1>26. ASSUME NEW t \in Tokens, Armed(t)', slab'[t].prev # None
       PROVE  On(slab[t].prev, slab[t].wheel_idx)' /\ slab'[slab'[t].prev].next = t
  <2>1. t # tk /\ Armed(t) /\ slab'[t].wheel_idx = slab[t].wheel_idx
    BY <1>1, <1>4, <1>26 DEF Same
  <2>2. \A x \in Tokens, z \in Slots :
          On(x, z)' /\ x = slab'[t].prev /\ z = slab'[t].wheel_idx =>
            On(slab[t].prev, slab[t].wheel_idx)'
    BY Zenon
  <2>3. CASE t = n
    <3>1. n # None /\ n # p
      BY <1>10, <2>3, NoneApart
    <3>2. slab'[t].prev = p
      BY <1>1, <2>1, <2>3, <3>1
    <3>3. slab[t].wheel_idx = s
      BY <1>7, <1>8, <2>3, <3>1
    <3>4. slab'[p].next = t
      BY <1>1, <1>9, <1>26, <2>3, <3>2
    <3> QED BY <1>3, <1>5, <1>9, <1>26, <2>1, <2>2, <3>2, <3>3, <3>4
  <2>4. CASE t # n
    <3>0. PICK q, z : q = slab[t].prev /\ z = slab[t].wheel_idx
      OBVIOUS
    <3>1. slab'[t].prev = q /\ q # None
      BY <1>1, <1>26, <2>1, <2>4, <3>0
    <3>2. On(q, z) /\ slab[q].next = t
      BY <2>1, <3>0, <3>1 DEF Sorted
    <3>3. q \in Tokens /\ q # tk /\ q # p /\ z \in Slots
      BY <1>0, <1>6, <1>7, <1>9, <2>1, <2>4, <3>0, <3>1, <3>2
    <3>4. slab'[q].next = t
      BY <1>1, <3>2, <3>3
    <3> QED BY <1>5, <2>1, <2>2, <3>0, <3>1, <3>2, <3>3, <3>4
  <2> QED BY <2>3, <2>4
<1>27. ASSUME NEW t \in Tokens, Armed(t)', slab'[t].prev = None
       PROVE  head'[slab'[t].wheel_idx] = t
  <2>1. t # tk /\ Armed(t) /\ slab'[t].wheel_idx = slab[t].wheel_idx
    BY <1>1, <1>4, <1>27 DEF Same
  <2>2. CASE t = n
    <3>1. n # None /\ n # p
      BY <1>10, <2>2, NoneApart
    <3>2. p = None
      BY <1>1, <1>27, <2>1, <2>2, <3>1
    <3>3. slab[t].wheel_idx = s
      BY <1>7, <1>8, <2>2, <3>1
    <3> QED BY <1>3, <2>1, <2>2, <3>2, <3>3
  <2>3. CASE t # n
    <3>1. head[slab[t].wheel_idx] = t
      BY <1>1, <1>27, <2>1, <2>3 DEF Sorted
    <3> QED BY <1>3, <1>6, <1>11, <2>1, <3>1
  <2> QED BY <2>2, <2>3
<1>28. Sorted(rank)'
  BY <1>21, <1>22, <1>23, <1>24, <1>25, <1>26, <1>27, Zenon DEF Sorted
<1> QED BY <1>4, <1>5, <1>28

-----------------------------------------------------------------------------
(* timer_reg.                                                              *)

\* A free list below cap.
GoodFree(q, cap) ==
    /\ q \in Seq(Tokens)
    /\ \A i \in 1 .. Len(q) : q[i] <= cap /\ ~Armed(q[i])
    /\ \A i, j \in 1 .. Len(q) : q[i] = q[j] => i = j

\* The capacity once reserve has made room.
GrownCapacity == IF vacant # <<>> THEN capacity ELSE capacity + Growth

\* reserve finds or makes entries that are not in use, within the capacity.
LEMMA ReserveOK ==
  ASSUME WTypeOK, VacantInv
  PROVE  /\ GoodFree(Reserved, GrownCapacity)
         /\ GrownCapacity \in InitialCapacity .. MaxCapacity /\ capacity <= GrownCapacity
<1>1. /\ capacity \in Nat /\ capacity >= InitialCapacity /\ capacity <= MaxCapacity
      /\ MaxCapacity - capacity \in Nat /\ vacant \in Seq(Tokens)
  BY Numbers DEF WTypeOK
<1>2. CASE vacant # <<>>
  <2>1. Reserved = vacant /\ GrownCapacity = capacity
    BY <1>2 DEF Reserved, GrownCapacity
  <2>2. GoodFree(vacant, capacity)
    BY <1>1 DEF GoodFree, VacantInv
  <2> QED BY <1>1, <2>1, <2>2, Numbers
<1>3. CASE vacant = <<>>
  <2>0. PICK g : g = Growth
    OBVIOUS
  <2>1. g \in Nat /\ g <= MaxCapacity - capacity
    BY <1>1, <2>0, MinOfTwo DEF Growth
  <2>2. Reserved = [i \in 1 .. g |-> capacity + i] /\ GrownCapacity = capacity + g
    BY <1>3, <2>0 DEF Reserved, GrownCapacity
  <2>3. \A i \in 1 .. g : capacity + i \in Tokens /\ capacity + i <= capacity + g
    BY <1>1, <2>1, Numbers DEF Tokens
  <2>4. Reserved \in Seq(Tokens) /\ Len(Reserved) = g
    BY <2>1, <2>2, <2>3
  <2>5. \A i \in 1 .. g : ~Armed(capacity + i)
    BY <1>1, <2>1, <2>3 DEF VacantInv
  <2>6. \A i \in 1 .. g : Reserved[i] = capacity + i
    BY <2>2
  <2>7. \A i, j \in 1 .. g : Reserved[i] = Reserved[j] => i = j
    BY <1>1, <2>1, <2>6
  <2>8. GoodFree(Reserved, capacity + g)
    BY <2>3, <2>4, <2>5, <2>6, <2>7 DEF GoodFree
  <2>9. capacity + g \in InitialCapacity .. MaxCapacity /\ capacity <= capacity + g
    BY <1>1, <2>1, Numbers
  <2> QED BY <2>2, <2>8, <2>9, Zenon
<1> QED BY <1>2, <1>3

\* The first of a free list, and the rest.
LEMMA FreeHead ==
  ASSUME NEW q, NEW cap, GoodFree(q, cap), q # <<>>
  PROVE  /\ Head(q) \in Tokens /\ Head(q) <= cap /\ ~Armed(Head(q))
         /\ GoodFree(Tail(q), cap) /\ \A i \in 1 .. Len(Tail(q)) : Tail(q)[i] # Head(q)
<1>1. /\ q \in Seq(Tokens) /\ Len(q) \in Nat /\ Len(q) > 0
      /\ Head(q) = q[1] /\ Tail(q) \in Seq(Tokens) /\ Len(Tail(q)) = Len(q) - 1
      /\ \A i \in 1 .. Len(Tail(q)) : Tail(q)[i] = q[i + 1]
  BY HeadTailProperties, EmptySeq, LenProperties DEF GoodFree
<1>2. 1 \in 1 .. Len(q)
  BY <1>1
<1>3. Head(q) \in Tokens /\ Head(q) <= cap /\ ~Armed(Head(q))
  BY <1>1, <1>2, ElementOfSeq DEF GoodFree
<1> DEFINE t == Tail(q)
<1> HIDE DEF t
<1>4. \A i \in 1 .. Len(t) : i + 1 \in 1 .. Len(q) /\ i + 1 # 1 /\ t[i] = q[i + 1]
  BY <1>1 DEF t
<1>5. \A i, j \in 1 .. Len(t) : i + 1 = j + 1 => i = j
  BY <1>1 DEF t
<1>6. GoodFree(t, cap)
  BY <1>1, <1>4, <1>5 DEF GoodFree, t
<1>7. \A i \in 1 .. Len(t) : t[i] # Head(q)
  BY <1>1, <1>2, <1>4 DEF GoodFree
<1> QED BY <1>3, <1>6, <1>7 DEF t

\* The tick of a new timer is after the one poll has got to, and not before the
\* one asked for.
LEMMA SetTick ==
  ASSUME WTypeOK, NEW ms \in Nat
  PROVE  LET tick == set_tick(ms) IN
         /\ tick \in Nat /\ tick >= cur_wheel_tick + 1 /\ tick >= time_to_ticks(ms)
         /\ tick = time_to_ticks(ms) \/ tick = cur_wheel_tick + 1
         /\ tick * TickMs \in Nat /\ tick * TickMs > 0
         /\ time_to_ticks(tick * TickMs) = tick
         /\ ticks_to_wheel_idx(tick) \in Slots
<1>1. cur_wheel_tick + 1 \in Nat /\ cur_wheel_tick \in Nat /\ time_to_ticks(ms) \in Nat
  BY TickType DEF WTypeOK
<1> DEFINE tick == set_tick(ms)
<1>2. /\ tick \in Nat /\ tick >= cur_wheel_tick + 1 /\ tick >= time_to_ticks(ms)
      /\ tick = time_to_ticks(ms) \/ tick = cur_wheel_tick + 1
  BY <1>1, MaxOfTwo DEF set_tick
<1> HIDE DEF tick
<1>3. tick * TickMs \in Nat /\ time_to_ticks(tick * TickMs) = tick
  BY <1>2, TickExact
<1>4. tick * TickMs > 0
  BY <1>1, <1>2, <1>3, LaterThanZero
<1>5. ticks_to_wheel_idx(tick) \in Slots
  BY <1>2, SlotType
<1> QED BY <1>2, <1>3, <1>4, <1>5 DEF tick

\* What timer_reg does: a free entry becomes the head of the list of its tick.
LEMMA RegFacts ==
  ASSUME WTypeOK, VacantInv, NEW task \in Tasks, NEW dur \in Durations, timer_reg(task, dur)
  PROVE  \E tk \in Tokens, tick \in Nat, s \in Slots, e \in Entry :
           /\ Inserts(tk, s, e) /\ tk <= capacity' /\ GoodFree(vacant', capacity')
           /\ \A i \in 1 .. Len(vacant') : vacant'[i] # tk
           /\ capacity' \in InitialCapacity .. MaxCapacity /\ capacity <= capacity'
           /\ tick >= cur_wheel_tick + 1 /\ tick >= time_to_ticks(now + dur)
           /\ tick = time_to_ticks(now + dur) \/ tick = cur_wheel_tick + 1
           /\ e.task = task /\ e.when > 0 /\ time_to_ticks(e.when) = tick
           /\ s = ticks_to_wheel_idx(tick)
           /\ next_timeout' = [next_timeout EXCEPT ![s] =
                IF next_timeout[s] = None \/ e.when <= next_timeout[s]
                  THEN e.when ELSE next_timeout[s]]
<1> DEFINE tk == Head(Reserved)
           tick == set_tick(now + dur)
           s == ticks_to_wheel_idx(tick)
           e == [task |-> task, when |-> tick * TickMs, wheel_idx |-> s, prev |-> None,
                 next |-> head[s]]
<1>1. now + dur \in Nat
  BY WheelAssumption DEF WTypeOK
<1>2. /\ tick \in Nat /\ tick >= cur_wheel_tick + 1 /\ tick >= time_to_ticks(now + dur)
      /\ tick = time_to_ticks(now + dur) \/ tick = cur_wheel_tick + 1
      /\ tick * TickMs \in Nat /\ tick * TickMs > 0
      /\ time_to_ticks(tick * TickMs) = tick
      /\ s \in Slots
  BY <1>1, SetTick
<1>3. vacant' = Tail(Reserved) /\ capacity' = GrownCapacity /\ Reserved # <<>>
  BY Zenon DEF timer_reg, GrownCapacity
<1>4. /\ tk \in Tokens /\ tk <= capacity' /\ ~Armed(tk) /\ GoodFree(vacant', capacity')
      /\ \A i \in 1 .. Len(vacant') : vacant'[i] # tk
      /\ capacity' \in InitialCapacity .. MaxCapacity /\ capacity <= capacity'
  BY <1>3, ReserveOK, FreeHead
<1>5. /\ head' = [head EXCEPT ![s] = tk] /\ slab' = Linked(tk, e)
      /\ next_timeout' = [next_timeout EXCEPT ![s] =
           IF next_timeout[s] = None \/ e.when <= next_timeout[s]
             THEN e.when ELSE next_timeout[s]]
  BY DEF timer_reg, set_timeout
<1> HIDE DEF tk, tick, s
<1>6. head[s] \in Tokens \cup {None}
  BY <1>2 DEF WTypeOK
<1>7. e \in Entry
  BY <1>2, <1>6 DEF Entry
<1>8. /\ e.task = task /\ e.task # None /\ e.when = tick * TickMs /\ e.wheel_idx = s
      /\ e.prev = None /\ e.next = head[s]
  BY NoneApart
<1>9. s = ticks_to_wheel_idx(tick)
  BY DEF s
<1> HIDE DEF e
<1>10. e.when > 0 /\ time_to_ticks(e.when) = tick
  BY <1>2, <1>8
<1>11. Inserts(tk, s, e)
  BY <1>4, <1>5, <1>8 DEF Inserts
<1> QED BY <1>2, <1>4, <1>5, <1>7, <1>8, <1>9, <1>10, <1>11

\* A new timer is on the list of its tick, before the cursor, and next_timeout of
\* the slot is no later.
LEMMA RegStep ==
  ASSUME WheelInv, NEW task \in Tasks, NEW dur \in Durations, timer_reg(task, dur)
  PROVE  WheelInv'
<1>1. WTypeOK /\ VacantInv /\ TimeInv /\ PlacedInv /\ RankInv
  BY DEF WheelInv
<1>2. PICK tk \in Tokens, tick \in Nat, s \in Slots, e \in Entry :
        /\ Inserts(tk, s, e) /\ tk <= capacity' /\ GoodFree(vacant', capacity')
        /\ \A i \in 1 .. Len(vacant') : vacant'[i] # tk
        /\ capacity' \in InitialCapacity .. MaxCapacity /\ capacity <= capacity'
        /\ tick >= cur_wheel_tick + 1
        /\ e.when > 0 /\ time_to_ticks(e.when) = tick
        /\ s = ticks_to_wheel_idx(tick)
        /\ next_timeout' = [next_timeout EXCEPT ![s] =
             IF next_timeout[s] = None \/ e.when <= next_timeout[s]
               THEN e.when ELSE next_timeout[s]]
  BY <1>1, RegFacts
<1>3. PICK b \in Nat : \E rank \in Ranks(b) : Sorted(rank) /\ CursorInv(rank) /\ BoundsInv(rank)
  BY <1>1 DEF RankInv
<1>4. PICK rank \in Ranks(b) : Sorted(rank) /\ CursorInv(rank) /\ BoundsInv(rank)
  BY <1>3
<1>5. /\ slab \in [Tokens -> Entry] /\ head \in [Slots -> Tokens \cup {None}]
      /\ next_timeout \in [Slots -> Nat] /\ cur_wheel_tick \in Nat
      /\ cur_slab_idx \in Tokens \cup {None} /\ e.when \in Nat
      /\ \A t \in Tokens : slab[t].when \in Nat /\ slab[t].wheel_idx \in Slots
  BY <1>1 DEF WTypeOK, Entry
<1>6. /\ cur_wheel_tick' = cur_wheel_tick /\ cur_slab_idx' = cur_slab_idx
      /\ now' = now /\ polled' = polled /\ polling' = polling /\ polling = FALSE
  BY <1>1 DEF timer_reg, cursor, clock, WTypeOK
<1>7. /\ slab' \in [Tokens -> Entry] /\ slab'[tk] = e
      /\ \A t \in Tokens : t # tk => Same(t)
  BY <1>2, <1>5, LinkedFields DEF Inserts
<1> DEFINE rk == [rank EXCEPT ![tk] = b]
<1>8. /\ Sorted(rk)'
      /\ \A t \in Tokens : Armed(t)' <=> Armed(t) \/ t = tk
      /\ \A t \in Tokens, z \in Slots : On(t, z)' <=> On(t, z) \/ (t = tk /\ z = s)
  <2>1. Sorted(rk)' /\ Adds(tk, s)
    BY <1>2, <1>4, <1>5, InsertSorted
  <2> QED BY <2>1 DEF Adds
<1>9. rk \in Ranks(b + 1) /\ \A t \in Tokens : t # tk => rk[t] = rank[t]
  BY DEF Ranks
<1> HIDE DEF rk
<1>10. WTypeOK'
  <2>1. head' \in [Slots -> Tokens \cup {None}] /\ next_timeout' \in [Slots -> Nat]
    BY <1>2, <1>5 DEF Inserts
  <2> QED BY <1>1, <1>2, <1>6, <1>7, <2>1 DEF WTypeOK, Entry, GoodFree
<1>11. VacantInv'
  <2>1. ASSUME NEW t \in Tokens, ~Armed(t)' PROVE slab'[t] = Vacant
    <3>1. t # tk /\ ~Armed(t)
      BY <1>8, <2>1
    <3>2. t # head[s]
      BY <1>4, <3>1, NoneApart DEF Sorted, On
    <3>3. slab'[t] = slab[t]
      BY <1>2, <3>1, <3>2 DEF Linked, Inserts
    <3> QED BY <1>1, <3>1, <3>3 DEF VacantInv
  <2>2. ASSUME NEW i \in 1 .. Len(vacant') PROVE vacant'[i] <= capacity' /\ ~Armed(vacant[i])'
    <3>1. vacant'[i] \in Tokens /\ vacant'[i] <= capacity' /\ ~Armed(vacant'[i]) /\ vacant'[i] # tk
      BY <1>2, <2>2, ElementOfSeq DEF GoodFree
    <3>2. Same(vacant'[i])
      BY <1>7, <3>1
    <3> QED BY <3>1, <3>2 DEF Armed, Same
  <2>3. \A t \in Tokens : Armed(t)' => t <= capacity'
    BY <1>1, <1>2, <1>8, Numbers DEF VacantInv, WTypeOK, Tokens
  <2>4. \A i, j \in 1 .. Len(vacant') : vacant'[i] = vacant'[j] => i = j
    BY <1>2 DEF GoodFree
  <2> QED BY <2>1, <2>2, <2>3, <2>4, Zenon DEF VacantInv
<1>12. TimeInv'
  BY <1>1, <1>6 DEF TimeInv, time_to_ticks
<1>13. ASSUME NEW t \in Tokens, t # tk
       PROVE  /\ due(t)' = due(t) /\ slab'[t].wheel_idx = slab[t].wheel_idx
              /\ slab'[t].when = slab[t].when
  BY <1>7, <1>13, Zenon DEF Same, due, time_to_ticks
<1>14. due(tk)' = tick
  BY <1>2, <1>7 DEF due, time_to_ticks
<1>15. PlacedInv'
  <2> SUFFICES ASSUME NEW t \in Tokens, Armed(t)'
               PROVE  /\ slab'[t].wheel_idx = ticks_to_wheel_idx(due(t)')
                      /\ cur_wheel_tick' <= due(t)'
    BY Zenon DEF PlacedInv, ticks_to_wheel_idx
  <2>1. CASE t = tk
    BY <1>2, <1>5, <1>6, <1>7, <1>14, <2>1 DEF Inserts
  <2>2. CASE t # tk
    BY <1>1, <1>6, <1>8, <1>13, <2>2 DEF PlacedInv
  <2> QED BY <2>1, <2>2
<1>16. slot' = slot /\ slot \in Slots
  BY <1>5, <1>6, SlotType DEF slot, ticks_to_wheel_idx
<1>17. cur_slab_idx # None => On(cur_slab_idx, slot) /\ cur_slab_idx # tk
  BY <1>2, <1>4 DEF CursorInv, On, Inserts
<1>18. CursorInv(rk)'
  <2>1. cur_slab_idx' # None => On(cur_slab_idx, slot)'
    <3>1. \A t \in Tokens, z \in Slots :
            t = cur_slab_idx' /\ z = slot' /\ On(t, z)' => On(cur_slab_idx, slot)'
      BY Zenon
    <3> QED BY <1>5, <1>6, <1>8, <1>16, <1>17, <3>1
  <2>2. ASSUME NEW t \in Tokens, On(t, slot)', Passed(t, rk)'
        PROVE  cur_wheel_tick' < due(t)'
    <3>1. On(t, slot) \/ t = tk
      <4>1. \A z \in Slots : z = slot' /\ On(t, slot)' => On(t, z)'
        BY Zenon
      <4> QED BY <1>8, <1>16, <2>2, <4>1
    <3>2. CASE t = tk
      BY <1>2, <1>5, <1>6, <1>14, <3>2
    <3>3. CASE t # tk
      <4>1. Passed(t, rank)
        BY <1>5, <1>6, <1>9, <1>17, <2>2, <3>3 DEF Passed
      <4> QED BY <1>4, <1>6, <1>13, <3>1, <3>3, <4>1 DEF CursorInv
    <3> QED BY <3>2, <3>3
  <2> QED BY <2>1, <2>2, Zenon DEF CursorInv
<1>19. ~Behind
  BY <1>6 DEF Behind
<1>20. BoundsInv(rk)'
  <2> SUFFICES ASSUME NEW t \in Tokens, Armed(t)'
               PROVE  next_timeout'[slab'[t].wheel_idx] \in 1 .. slab'[t].when
    BY Zenon DEF BoundsInv
  <2>1. t # tk => next_timeout[slab[t].wheel_idx] \in 1 .. slab[t].when
    BY <1>4, <1>8, <1>19 DEF BoundsInv
  <2>2. /\ next_timeout'[s] = IF next_timeout[s] = None \/ e.when <= next_timeout[s]
                                THEN e.when ELSE next_timeout[s]
        /\ \A z \in Slots : z # s => next_timeout'[z] = next_timeout[z]
        /\ next_timeout[s] \in Nat
    BY <1>2, <1>5
  <2>3. CASE t = tk
    <3>1. next_timeout'[s] \in 1 .. e.when
      BY <1>2, <1>5, <2>2 DEF None
    <3> QED BY <1>2, <1>7, <2>3, <3>1 DEF Inserts
  <2>4. CASE t # tk
    <3>1. CASE slab[t].wheel_idx = s
      <4>1. next_timeout'[s] \in 1 .. slab[t].when
        BY <1>2, <1>5, <2>1, <2>2, <2>4, <3>1 DEF None
      <4> QED BY <1>13, <2>4, <3>1, <4>1
    <3>2. CASE slab[t].wheel_idx # s
      BY <1>5, <1>13, <2>1, <2>2, <2>4, <3>2
    <3> QED BY <3>1, <3>2
  <2> QED BY <2>3, <2>4
<1>21. RankInv'
  <2>1. b + 1 \in Nat
    OBVIOUS
  <2> QED BY <1>8, <1>9, <1>18, <1>20, <2>1, Zenon DEF RankInv
<1> QED BY <1>10, <1>11, <1>12, <1>15, <1>21 DEF WheelInv

-----------------------------------------------------------------------------
(* timer_cancel and poll.                                                  *)

\* The part of the invariant that is about lists in order of this rank.
Ranked(rank) == Sorted(rank) /\ CursorInv(rank) /\ BoundsInv(rank)

LEMMA RankOf ==
  ASSUME WheelInv
  PROVE  \E b \in Nat : \E rank \in Ranks(b) : rank \in [Tokens -> Nat] /\ Ranked(rank)
<1>1. PICK b \in Nat : \E rank \in Ranks(b) : Sorted(rank) /\ CursorInv(rank) /\ BoundsInv(rank)
  BY DEF WheelInv, RankInv
<1>2. PICK rank \in Ranks(b) : Sorted(rank) /\ CursorInv(rank) /\ BoundsInv(rank)
  BY <1>1
<1>3. rank \in [Tokens -> Nat]
  BY DEF Ranks
<1> QED BY <1>2, <1>3 DEF Ranked

\* The types that the proofs use.
LEMMA WheelTypes ==
  ASSUME WheelInv
  PROVE  /\ slab \in [Tokens -> Entry] /\ head \in [Slots -> Tokens \cup {None}]
         /\ next_timeout \in [Slots -> Nat] /\ cur_wheel_tick \in Nat
         /\ cur_slab_idx \in Tokens \cup {None} /\ slot \in Slots
         /\ \A t \in Tokens : /\ slab[t].when \in Nat /\ slab[t].wheel_idx \in Slots
                              /\ due(t) \in Nat /\ slab[t].next \in Tokens \cup {None}
         /\ time_to_ticks(polled) \in Nat
<1>1. /\ slab \in [Tokens -> Entry] /\ head \in [Slots -> Tokens \cup {None}]
      /\ next_timeout \in [Slots -> Nat] /\ cur_wheel_tick \in Nat
      /\ cur_slab_idx \in Tokens \cup {None} /\ polled \in Nat
  BY DEF WheelInv, WTypeOK, Entry
<1>2. \A t \in Tokens : /\ slab[t].when \in Nat /\ slab[t].wheel_idx \in Slots
                        /\ slab[t].next \in Tokens \cup {None}
  BY <1>1 DEF Entry
<1> QED BY <1>1, <1>2, TickType, SlotType DEF due, slot

\* An entry that is removed is free, and what is about the others stays.
LEMMA RemoveKeeps ==
  ASSUME WheelInv, NEW tk \in Tokens, Armed(tk), remove_slab(tk),
         UNCHANGED <<capacity, cur_wheel_tick, clock>>,
         cur_slab_idx' \in Tokens \cup {None}, next_timeout' \in [Slots -> Nat]
  PROVE  WTypeOK' /\ VacantInv' /\ TimeInv' /\ PlacedInv'
<1>1. WTypeOK /\ VacantInv /\ TimeInv /\ PlacedInv
  BY DEF WheelInv
<1>2. /\ slab' \in [Tokens -> Entry] /\ slab'[tk] = Vacant
      /\ \A t \in Tokens : t # tk => Same(t)
  BY WheelTypes, UnlinkedFields DEF remove_slab
<1>3. slab[tk].wheel_idx \in Slots /\ slab[tk].next \in Tokens \cup {None}
  BY WheelTypes
<1>4. head' \in [Slots -> Tokens \cup {None}]
  BY <1>3, WheelTypes DEF remove_slab
<1>5. \A t \in Tokens : Armed(t)' <=> Armed(t) /\ t # tk
  BY <1>2 DEF Armed, Same, Vacant
<1>6. vacant' = <<tk>> \o vacant /\ vacant \in Seq(Tokens) /\ Len(vacant) \in Nat
  BY <1>1 DEF remove_slab, WTypeOK
<1>7. /\ vacant' \in Seq(Tokens) /\ Len(vacant') = Len(vacant) + 1 /\ vacant'[1] = tk
      /\ \A i \in 2 .. Len(vacant') : vacant'[i] = vacant[i - 1]
  <2>1. /\ <<tk>> \in Seq(Tokens) /\ Len(<<tk>>) = 1 /\ <<tk>>[1] = tk
    OBVIOUS
  <2>2. /\ vacant' \in Seq(Tokens) /\ Len(vacant') = 1 + Len(vacant)
        /\ \A i \in 1 .. 1 + Len(vacant) :
             vacant'[i] = IF i <= 1 THEN <<tk>>[i] ELSE vacant[i - 1]
    BY <1>6, <2>1, ConcatProperties
  <2> QED BY <1>6, <2>1, <2>2
<1>8. WTypeOK'
  BY <1>1, <1>2, <1>4, <1>7 DEF WTypeOK, Entry, clock
<1>9. \A i \in 2 .. Len(vacant') : i - 1 \in 1 .. Len(vacant)
  BY <1>6, <1>7
<1>10. \A i \in 1 .. Len(vacant') : i = 1 \/ i \in 2 .. Len(vacant')
  BY <1>6, <1>7
<1>11. \A i \in 1 .. Len(vacant) : vacant[i] \in Tokens /\ vacant[i] # tk
  BY <1>1, <1>6, ElementOfSeq DEF VacantInv
<1>12. VacantInv'
  <2>1. ASSUME NEW t \in Tokens, ~Armed(t)' PROVE slab'[t] = Vacant
    <3>1. CASE t # tk
      <4>0. PICK b \in Nat : \E rank \in Ranks(b) : rank \in [Tokens -> Nat] /\ Ranked(rank)
        BY RankOf
      <4>1. PICK rank \in Ranks(b) : Sorted(rank)
        BY <4>0 DEF Ranked
      <4>2. ~Armed(t)
        BY <1>5, <2>1, <3>1
      <4>3. t # slab[tk].prev /\ t # slab[tk].next
        BY <4>1, <4>2, NoneApart DEF Sorted, On
      <4>4. slab'[t] = slab[t]
        BY <3>1, <4>3 DEF remove_slab, Unlinked
      <4> QED BY <1>1, <4>2, <4>4 DEF VacantInv
    <3> QED BY <1>2, <3>1
  <2>2. ASSUME NEW i \in 1 .. Len(vacant') PROVE vacant'[i] <= capacity' /\ ~Armed(vacant[i])'
    <3>1. \A t \in Tokens : t = vacant'[i] /\ ~Armed(t)' => ~Armed(vacant[i])'
      BY Zenon
    <3>2. CASE i = 1
      BY <1>1, <1>5, <1>7, <3>1, <3>2 DEF VacantInv
    <3>3. CASE i \in 2 .. Len(vacant')
      <4>1. vacant'[i] = vacant[i - 1] /\ i - 1 \in 1 .. Len(vacant)
        BY <1>7, <1>9, <3>3
      <4>2. vacant[i - 1] <= capacity /\ ~Armed(vacant[i - 1]) /\ vacant[i - 1] \in Tokens
        BY <1>1, <1>11, <4>1 DEF VacantInv
      <4> QED BY <1>5, <3>1, <4>1, <4>2
    <3> QED BY <1>10, <3>2, <3>3
  <2>3. \A t \in Tokens : Armed(t)' => t <= capacity'
    BY <1>1, <1>5 DEF VacantInv
  <2>4. ASSUME NEW i \in 1 .. Len(vacant'), NEW j \in 1 .. Len(vacant'), vacant'[i] = vacant'[j]
        PROVE  i = j
    <3>1. ASSUME NEW k \in 2 .. Len(vacant') PROVE vacant'[k] # vacant'[1]
      BY <1>7, <1>9, <1>11
    <3>2. CASE i \in 2 .. Len(vacant') /\ j \in 2 .. Len(vacant')
      <4>1. i - 1 = j - 1
        BY <1>1, <1>7, <1>9, <2>4, <3>2 DEF VacantInv
      <4> QED BY <3>2, <4>1
    <3> QED BY <1>10, <2>4, <3>1, <3>2
  <2> QED BY <2>1, <2>2, <2>3, <2>4, Zenon DEF VacantInv
<1>13. TimeInv'
  BY <1>1, Zenon DEF TimeInv, clock, time_to_ticks
<1>14. PlacedInv'
  <2> SUFFICES ASSUME NEW t \in Tokens, Armed(t)'
               PROVE  /\ slab'[t].wheel_idx = ticks_to_wheel_idx(due(t)')
                      /\ cur_wheel_tick' <= due(t)'
    BY Zenon DEF PlacedInv, ticks_to_wheel_idx
  <2>1. Armed(t) /\ Same(t)
    BY <1>2, <1>5
  <2>2. due(t)' = due(t) /\ slab'[t].wheel_idx = slab[t].wheel_idx
    BY <2>1, Zenon DEF Same, due, time_to_ticks
  <2> QED BY <1>1, <2>1, <2>2 DEF PlacedInv
<1> QED BY <1>8, <1>12, <1>13, <1>14

\* Where a cursor on tk goes on, it has passed tk and nothing else of the list.
LEMMA CursorMoves ==
  ASSUME WheelInv, NEW rank \in [Tokens -> Nat], Sorted(rank), NEW tk \in Tokens, Armed(tk),
         NEW t \in Tokens, On(t, slab[tk].wheel_idx), t # tk
  PROVE  LET n == slab[tk].next IN (n # None => rank[n] < rank[t]) <=> rank[tk] < rank[t]
<1>0. PICK n : n = slab[tk].next
  OBVIOUS
<1>1. rank[t] # rank[tk] /\ rank[t] \in Nat /\ rank[tk] \in Nat
  BY DEF Sorted, On
<1>2. n # None => n \in Tokens /\ rank[n] \in Nat /\ rank[n] < rank[tk]
  BY <1>0 DEF Sorted, On
<1>3. rank[t] < rank[tk] => n # None /\ rank[t] <= rank[n]
  BY <1>0 DEF Sorted
<1>4. (n # None => rank[n] < rank[t]) <=> rank[tk] < rank[t]
  BY <1>1, <1>2, <1>3
<1> QED BY <1>0, <1>4

\* The cursor moves off an entry that is removed and has passed what it had.
LEMMA RemoveCursor ==
  ASSUME WheelInv, NEW rank \in [Tokens -> Nat], Ranked(rank), NEW tk \in Tokens, Armed(tk),
         remove_slab(tk), UNCHANGED cur_wheel_tick,
         cur_slab_idx' = Beyond(tk, cur_slab_idx)
  PROVE  /\ CursorInv(rank)' /\ cur_slab_idx' \in Tokens \cup {None} /\ slot' = slot
         /\ \A t \in Tokens : On(t, slot) /\ t # tk => (Passed(t, rank)' <=> Passed(t, rank))
<1>1. Sorted(rank) /\ CursorInv(rank)
  BY DEF Ranked
<1>2. /\ \A t \in Tokens : Armed(t)' <=> Armed(t) /\ t # tk
      /\ \A t \in Tokens, z \in Slots : On(t, z)' <=> On(t, z) /\ t # tk
  BY <1>1, WheelTypes, RemoveSorted
<1>3. slot' = slot /\ slot \in Slots
  BY WheelTypes DEF slot, ticks_to_wheel_idx
<1>4. /\ cur_slab_idx = tk => cur_slab_idx' = slab[tk].next
      /\ cur_slab_idx # tk => cur_slab_idx' = cur_slab_idx
  BY Zenon DEF Beyond
<1>5. cur_slab_idx' \in Tokens \cup {None}
  BY <1>4, WheelTypes
<1>6. cur_slab_idx # None => On(cur_slab_idx, slot)
  BY <1>1 DEF CursorInv
<1>7. cur_slab_idx' # None => On(cur_slab_idx', slot) /\ cur_slab_idx' # tk
  <2>1. CASE cur_slab_idx = tk
    <3>1. slab[tk].wheel_idx = slot
      BY <1>6, <2>1, NoneApart DEF On
    <3>2. PICK n : n = slab[tk].next
      OBVIOUS
    <3>3. n # None => On(n, slot) /\ rank[n] < rank[tk]
      BY <1>1, <3>1, <3>2 DEF Sorted
    <3>4. n # None => n # tk
      BY <3>3
    <3> QED BY <1>4, <2>1, <3>2, <3>3, <3>4
  <2>2. CASE cur_slab_idx # tk
    BY <1>4, <1>6, <2>2
  <2> QED BY <2>1, <2>2
<1>8. ASSUME NEW t \in Tokens, On(t, slot), t # tk
      PROVE  Passed(t, rank)' <=> Passed(t, rank)
  <2>1. CASE cur_slab_idx = tk
    <3>1. slab[tk].wheel_idx = slot /\ cur_slab_idx # None
      BY <1>6, <2>1, NoneApart DEF On
    <3>2. (slab[tk].next # None => rank[slab[tk].next] < rank[t]) <=> rank[tk] < rank[t]
      BY <1>1, <1>8, <3>1, CursorMoves
    <3> QED BY <1>4, <2>1, <3>1, <3>2, Zenon DEF Passed
  <2>2. CASE cur_slab_idx # tk
    BY <1>4, <2>2, Zenon DEF Passed
  <2> QED BY <2>1, <2>2
<1>9. CursorInv(rank)'
  <2>1. cur_slab_idx' # None => On(cur_slab_idx, slot)'
    <3>1. \A t \in Tokens, z \in Slots :
            t = cur_slab_idx' /\ z = slot' /\ On(t, z)' => On(cur_slab_idx, slot)'
      BY Zenon
    <3> QED BY <1>2, <1>3, <1>5, <1>7, <3>1
  <2>2. ASSUME NEW t \in Tokens, On(t, slot)', Passed(t, rank)'
        PROVE  cur_wheel_tick' < due(t)'
    <3>1. \A z \in Slots : z = slot' /\ On(t, slot)' => On(t, z)'
      BY Zenon
    <3>2. On(t, slot) /\ t # tk
      BY <1>2, <1>3, <2>2, <3>1
    <3>3. cur_wheel_tick < due(t)
      BY <1>1, <1>8, <2>2, <3>2 DEF CursorInv
    <3>4. Same(t)
      BY <3>2, WheelTypes, UnlinkedFields DEF remove_slab
    <3> QED BY <3>3, <3>4 DEF Same, due, time_to_ticks
  <2> QED BY <2>1, <2>2, Zenon DEF CursorInv
<1> QED BY <1>3, <1>5, <1>8, <1>9

\* A timer is cancelled.
LEMMA CancelStep ==
  ASSUME WheelInv, NEW tk \in Tokens, timer_cancel(tk)
  PROVE  WheelInv'
<1>1. PICK b \in Nat : \E rank \in Ranks(b) : rank \in [Tokens -> Nat] /\ Ranked(rank)
  BY RankOf
<1>2. PICK rank \in Ranks(b) : rank \in [Tokens -> Nat] /\ Ranked(rank)
  BY <1>1
<1>3. /\ Armed(tk) /\ remove_slab(tk) /\ cur_slab_idx' = Beyond(tk, cur_slab_idx)
      /\ UNCHANGED next_timeout /\ UNCHANGED <<capacity, cur_wheel_tick, clock>>
      /\ ~polling
  BY DEF timer_cancel
<1>4. CursorInv(rank)' /\ cur_slab_idx' \in Tokens \cup {None}
  BY <1>2, <1>3, RemoveCursor
<1>5. WTypeOK' /\ VacantInv' /\ TimeInv' /\ PlacedInv'
  BY <1>3, <1>4, WheelTypes, RemoveKeeps
<1>6. Sorted(rank)' /\ \A t \in Tokens : Armed(t)' <=> Armed(t) /\ t # tk
  BY <1>2, <1>3, WheelTypes, RemoveSorted DEF Ranked
<1>7. BoundsInv(rank)'
  <2> SUFFICES ASSUME NEW t \in Tokens, Armed(t)'
               PROVE  next_timeout'[slab'[t].wheel_idx] \in 1 .. slab'[t].when
    BY Zenon DEF BoundsInv
  <2>1. Armed(t) /\ Same(t)
    BY <1>3, <1>6, WheelTypes, UnlinkedFields DEF remove_slab
  <2>2. next_timeout[slab[t].wheel_idx] \in 1 .. slab[t].when
    BY <1>2, <1>3, <2>1 DEF Ranked, BoundsInv, Behind
  <2> QED BY <1>3, <2>1, <2>2 DEF Same
<1>8. RankInv'
  BY <1>4, <1>6, <1>7, Zenon DEF RankInv
<1> QED BY <1>5, <1>8 DEF WheelInv

\* Clearing next_timeout of the slot, where the cursor is at its head.
LEMMA ClearedType ==
  ASSUME WheelInv
  PROVE  /\ Cleared \in [Slots -> Nat]
         /\ cur_slab_idx = head[slot] => Cleared[slot] = None
         /\ cur_slab_idx # head[slot] => Cleared[slot] = next_timeout[slot]
         /\ \A z \in Slots : z # slot => Cleared[z] = next_timeout[z]
  BY WheelTypes DEF Cleared, None

\* A timer has expired.
LEMMA FireStep ==
  ASSUME WheelInv, NEW tk \in Tokens, Fire(tk)
  PROVE  WheelInv' /\ Armed(tk)
<1>1. PICK b \in Nat : \E rank \in Ranks(b) : rank \in [Tokens -> Nat] /\ Ranked(rank)
  BY RankOf
<1>2. PICK rank \in Ranks(b) : rank \in [Tokens -> Nat] /\ Ranked(rank)
  BY <1>1
<1>3. /\ cur_slab_idx = tk /\ remove_slab(tk) /\ cur_slab_idx' = slab[tk].next
      /\ next_timeout' = Cleared /\ UNCHANGED <<capacity, cur_wheel_tick, clock>>
      /\ Behind
  BY DEF Fire
<1>4. On(tk, slot) /\ Armed(tk)
  BY <1>2, <1>3, NoneApart DEF Ranked, CursorInv, On
<1>5. /\ CursorInv(rank)' /\ cur_slab_idx' \in Tokens \cup {None} /\ slot' = slot
      /\ \A t \in Tokens : On(t, slot) /\ t # tk => (Passed(t, rank)' <=> Passed(t, rank))
  <2>1. cur_slab_idx' = Beyond(tk, cur_slab_idx)
    BY <1>3 DEF Beyond
  <2> QED BY <1>2, <1>3, <1>4, <2>1, RemoveCursor
<1>6. WTypeOK' /\ VacantInv' /\ TimeInv' /\ PlacedInv'
  <2>1. next_timeout' \in [Slots -> Nat]
    BY <1>3, ClearedType
  <2> QED BY <1>3, <1>4, <1>5, <2>1, RemoveKeeps
<1>7. Sorted(rank)' /\ \A t \in Tokens : Armed(t)' <=> Armed(t) /\ t # tk
  BY <1>2, <1>3, <1>4, WheelTypes, RemoveSorted DEF Ranked
<1>8. Behind'
  BY <1>3, Zenon DEF Behind, clock, time_to_ticks
<1>9. BoundsInv(rank)'
  <2> SUFFICES ASSUME NEW t \in Tokens, Armed(t)'
               PROVE  \/ next_timeout'[slab'[t].wheel_idx] \in 1 .. slab'[t].when
                      \/ slab'[t].wheel_idx = slot' /\ ~Passed(t, rank)'
    BY <1>8, Zenon DEF BoundsInv
  <2>1. Armed(t) /\ t # tk /\ slab'[t].wheel_idx = slab[t].wheel_idx /\ slab'[t].when = slab[t].when
    BY <1>3, <1>7, WheelTypes, UnlinkedFields DEF remove_slab, Same
  <2>2. \/ next_timeout[slab[t].wheel_idx] \in 1 .. slab[t].when
        \/ slab[t].wheel_idx = slot /\ ~Passed(t, rank)
    BY <1>2, <2>1 DEF Ranked, BoundsInv
  <2>3. CASE slab[t].wheel_idx # slot
    BY <1>3, <2>1, <2>2, <2>3, ClearedType, WheelTypes
  <2>4. CASE slab[t].wheel_idx = slot /\ cur_slab_idx # head[slot]
    <3>1. On(t, slot)
      BY <2>1, <2>4 DEF On
    <3> QED BY <1>3, <1>5, <2>1, <2>2, <2>4, <3>1, ClearedType, WheelTypes
  <2>5. CASE slab[t].wheel_idx = slot /\ cur_slab_idx = head[slot]
    <3>1. On(t, slot)
      BY <2>1, <2>5 DEF On
    <3>2. rank[t] <= rank[cur_slab_idx] /\ cur_slab_idx # None
      BY <1>2, <2>5, <3>1, WheelTypes DEF Ranked, Sorted
    <3>3. rank[t] \in Nat /\ rank[cur_slab_idx] \in Nat
      BY <1>2, <1>3
    <3>4. ~Passed(t, rank)
      BY <3>2, <3>3 DEF Passed
    <3> QED BY <1>5, <2>1, <2>5, <3>1, <3>4
  <2> QED BY <2>3, <2>4, <2>5
<1>10. RankInv'
  BY <1>5, <1>7, <1>9, Zenon DEF RankInv
<1> QED BY <1>4, <1>6, <1>10 DEF WheelInv

\* Nothing is set, cancelled or fired: the lists are as they were.
LEMMA ListsSame ==
  ASSUME UNCHANGED lists
  PROVE  /\ \A rank : Sorted(rank) => Sorted(rank)'
         /\ \A t : Armed(t)' <=> Armed(t)
         /\ \A t, z : On(t, z)' <=> On(t, z)
         /\ \A t : due(t)' = due(t)
         /\ head' = head /\ slab' = slab /\ vacant' = vacant
<1>1. head' = head /\ slab' = slab /\ vacant' = vacant
  BY Zenon DEF lists
<1>2. \A t : Armed(t)' <=> Armed(t)
  BY <1>1, Zenon DEF Armed
<1>3. \A t, z : On(t, z)' <=> On(t, z)
  BY <1>1, <1>2, Zenon DEF On
<1>4. ASSUME NEW rank, Sorted(rank) PROVE Sorted(rank)'
  BY <1>1, <1>4, Zenon DEF Sorted, On, Armed
<1>5. \A t : due(t)' = due(t)
  BY <1>1, Zenon DEF due, time_to_ticks
<1> QED BY <1>1, <1>2, <1>3, <1>4, <1>5

LEMMA ListsSameKeeps ==
  ASSUME WheelInv, UNCHANGED <<lists, capacity>>
  PROVE  VacantInv' /\ (UNCHANGED cur_wheel_tick => PlacedInv')
<1>1. /\ \A t : Armed(t)' <=> Armed(t)
      /\ \A t : due(t)' = due(t)
      /\ slab' = slab /\ vacant' = vacant /\ capacity' = capacity
  BY ListsSame
<1>2. VacantInv'
  BY <1>1, Zenon DEF WheelInv, VacantInv, Armed
<1>3. UNCHANGED cur_wheel_tick => PlacedInv'
  BY <1>1, Zenon DEF WheelInv, PlacedInv, Armed, due, time_to_ticks, ticks_to_wheel_idx
<1> QED BY <1>2, <1>3

\* A timer of a later round is passed by.
LEMMA SkipStep ==
  ASSUME WheelInv, NEW tk \in Tokens, Skip(tk)
  PROVE  WheelInv'
<1>1. PICK b \in Nat : \E rank \in Ranks(b) : rank \in [Tokens -> Nat] /\ Ranked(rank)
  BY RankOf
<1>2. PICK rank \in Ranks(b) : rank \in [Tokens -> Nat] /\ Ranked(rank)
  BY <1>1
<1> DEFINE w == slab[tk].when
           v == Earliest(slot, w)
<1>3. /\ cur_slab_idx = tk /\ cur_slab_idx' = slab[tk].next /\ Behind
      /\ next_timeout' = [Cleared EXCEPT ![slot] = v] /\ UNCHANGED lists
      /\ UNCHANGED <<capacity, cur_wheel_tick, clock>> /\ ~Expired(tk)
  BY DEF Skip
<1>4. On(tk, slot) /\ Armed(tk) /\ slab[tk].wheel_idx = slot
  BY <1>2, <1>3, NoneApart DEF Ranked, CursorInv, On
<1>5. cur_wheel_tick <= time_to_ticks(polled) /\ time_to_ticks(polled) < due(tk)
  BY <1>3, WheelTypes DEF Behind, Expired, due
<1>6. w \in Nat /\ w > 0
  BY <1>5, WheelTypes, LaterThanZero DEF due
<1>7. /\ Cleared[slot] = None \/ w <= Cleared[slot] => v = w
      /\ ~(Cleared[slot] = None \/ w <= Cleared[slot]) => v = Cleared[slot]
  BY Zenon DEF Earliest
<1> HIDE DEF v, w
<1>8. v \in Nat /\ v \in 1 .. w
  BY <1>6, <1>7, ClearedType, WheelTypes DEF None
<1>9. /\ next_timeout' \in [Slots -> Nat] /\ next_timeout'[slot] = v
      /\ \A z \in Slots : z # slot => next_timeout'[z] = next_timeout[z]
  BY <1>3, <1>8, ClearedType, WheelTypes
<1>10. slot' = slot /\ slot \in Slots
  BY <1>3, WheelTypes DEF slot, ticks_to_wheel_idx
<1>11. WTypeOK' /\ VacantInv' /\ TimeInv' /\ PlacedInv'
  <2>1. cur_slab_idx' \in Tokens \cup {None}
    BY <1>3, WheelTypes
  <2>2. WTypeOK'
    BY <1>3, <1>9, <2>1, Zenon DEF WheelInv, WTypeOK, clock, lists
  <2>3. TimeInv'
    BY <1>3, Zenon DEF WheelInv, TimeInv, clock, time_to_ticks
  <2> QED BY <1>3, <2>2, <2>3, ListsSameKeeps
<1>12. Sorted(rank) /\ Sorted(rank)'
  BY <1>2, <1>3, ListsSame DEF Ranked
<1>13. ASSUME NEW t \in Tokens, On(t, slot)
       PROVE  Passed(t, rank)' <=> Passed(t, rank) \/ t = tk
  <2>1. cur_slab_idx # None
    BY <1>3, NoneApart
  <2>2. CASE t # tk
    <3>1. (slab[tk].next # None => rank[slab[tk].next] < rank[t]) <=> rank[tk] < rank[t]
      BY <1>2, <1>4, <1>12, <1>13, <2>2, CursorMoves
    <3> QED BY <1>3, <2>1, <2>2, <3>1, Zenon DEF Passed
  <2>3. CASE t = tk
    <3>1. slab[tk].next # None => rank[slab[tk].next] < rank[tk]
      BY <1>4, <1>12 DEF Sorted
    <3> QED BY <1>3, <2>3, <3>1, Zenon DEF Passed
  <2> QED BY <2>2, <2>3
<1>14. CursorInv(rank)'
  <2>1. cur_slab_idx' # None => On(cur_slab_idx, slot)'
    <3>1. slab[tk].next # None => On(slab[tk].next, slot)
      BY <1>4, <1>12 DEF Sorted
    <3>2. \A t, z : t = cur_slab_idx' /\ z = slot' /\ On(t, z)' => On(cur_slab_idx, slot)'
      BY Zenon
    <3> QED BY <1>3, <1>10, <3>1, <3>2, ListsSame
  <2>2. ASSUME NEW t \in Tokens, On(t, slot)', Passed(t, rank)'
        PROVE  cur_wheel_tick' < due(t)'
    <3>1. \A z : z = slot' /\ On(t, slot)' => On(t, z)'
      BY Zenon
    <3>2. On(t, slot) /\ due(t)' = due(t) /\ cur_wheel_tick' = cur_wheel_tick
      BY <1>3, <1>10, <2>2, <3>1, ListsSame
    <3>3. CASE t = tk
      BY <1>5, <3>2, <3>3, WheelTypes
    <3>4. CASE t # tk
      BY <1>2, <1>13, <2>2, <3>2, <3>4 DEF Ranked, CursorInv
    <3> QED BY <3>3, <3>4
  <2> QED BY <2>1, <2>2, Zenon DEF CursorInv
<1>15. Behind'
  BY <1>3, Zenon DEF Behind, clock, time_to_ticks
<1>16. BoundsInv(rank)'
  <2> SUFFICES ASSUME NEW t \in Tokens, Armed(t)'
               PROVE  \/ next_timeout'[slab'[t].wheel_idx] \in 1 .. slab'[t].when
                      \/ slab'[t].wheel_idx = slot' /\ ~Passed(t, rank)'
    BY <1>15, Zenon DEF BoundsInv
  <2>1. Armed(t) /\ slab' = slab
    BY <1>3, ListsSame
  <2>2. \/ next_timeout[slab[t].wheel_idx] \in 1 .. slab[t].when
        \/ slab[t].wheel_idx = slot /\ ~Passed(t, rank)
    BY <1>2, <2>1 DEF Ranked, BoundsInv
  <2>3. CASE slab[t].wheel_idx # slot
    BY <1>9, <2>1, <2>2, <2>3, WheelTypes
  <2>4. CASE t = tk
    BY <1>4, <1>8, <1>9, <2>1, <2>4 DEF w
  <2>5. CASE slab[t].wheel_idx = slot /\ t # tk
    <3>1. On(t, slot)
      BY <2>1, <2>5 DEF On
    <3>2. CASE ~Passed(t, rank)
      BY <1>10, <1>13, <2>1, <2>5, <3>1, <3>2
    <3>3. CASE Passed(t, rank)
      <4>1. cur_slab_idx # head[slot]
        <5>1. rank[t] <= rank[head[slot]] /\ head[slot] # None
          BY <1>10, <1>12, <3>1 DEF Sorted
        <5>2. head[slot] \in Tokens
          BY <5>1, WheelTypes
        <5>3. rank[t] \in Nat /\ rank[head[slot]] \in Nat
          BY <1>2, <5>2
        <5> QED BY <3>3, <5>1, <5>3 DEF Passed
      <4>2. next_timeout[slot] \in 1 .. slab[t].when /\ Cleared[slot] = next_timeout[slot]
        BY <2>2, <2>5, <3>3, <4>1, ClearedType
      <4>3. v \in 1 .. slab[t].when
        BY <1>6, <1>7, <4>2, WheelTypes DEF None
      <4> QED BY <1>9, <2>1, <2>5, <4>3
    <3> QED BY <3>2, <3>3
  <2> QED BY <2>3, <2>4, <2>5
<1>17. RankInv'
  BY <1>12, <1>14, <1>16, Zenon DEF RankInv
<1> QED BY <1>11, <1>17 DEF WheelInv

\* All timers of the tick have been looked at.
LEMMA NextTickStep ==
  ASSUME WheelInv, NextTick
  PROVE  WheelInv'
<1>1. PICK b \in Nat : \E rank \in Ranks(b) : rank \in [Tokens -> Nat] /\ Ranked(rank)
  BY RankOf
<1>2. PICK rank \in Ranks(b) : rank \in [Tokens -> Nat] /\ Ranked(rank)
  BY <1>1
<1>3. PICK s, c : s \in Slots /\ s = ticks_to_wheel_idx(cur_wheel_tick + 1) /\ c = head[s]
  BY WheelTypes, SlotType
<1>4. /\ cur_slab_idx = None /\ Behind /\ next_timeout' = Cleared
      /\ cur_wheel_tick' = cur_wheel_tick + 1 /\ cur_slab_idx' = c
      /\ UNCHANGED lists /\ UNCHANGED <<capacity, clock>>
  BY <1>3 DEF NextTick
<1>5. Sorted(rank) /\ CursorInv(rank) /\ BoundsInv(rank)
  BY <1>2 DEF Ranked
<1>6. \A t : Passed(t, rank)
  BY <1>4, Zenon DEF Passed
<1>7. slot' = s
  BY <1>3, <1>4 DEF slot, ticks_to_wheel_idx
<1>8. WTypeOK' /\ VacantInv' /\ TimeInv'
  <2>1. c \in Tokens \cup {None}
    BY <1>3, WheelTypes
  <2>2. WTypeOK'
    <3>1. cur_wheel_tick' \in Nat /\ next_timeout' \in [Slots -> Nat]
      BY <1>4, WheelTypes, ClearedType
    <3> QED BY <1>4, <2>1, <3>1, Zenon DEF WheelInv, WTypeOK, clock, lists
  <2>3. cur_wheel_tick + 1 <= time_to_ticks(polled) + 1
    BY <1>4, WheelTypes DEF Behind
  <2>4. TimeInv'
    BY <1>4, <2>3, Zenon DEF WheelInv, TimeInv, clock, time_to_ticks
  <2> QED BY <1>4, <2>2, <2>4, ListsSameKeeps
<1>9. PlacedInv'
  <2> SUFFICES ASSUME NEW t \in Tokens, Armed(t)'
               PROVE  /\ slab'[t].wheel_idx = ticks_to_wheel_idx(due(t)')
                      /\ cur_wheel_tick' <= due(t)'
    BY Zenon DEF PlacedInv, ticks_to_wheel_idx
  <2>1. Armed(t) /\ slab' = slab /\ due(t)' = due(t)
    BY <1>4, ListsSame
  <2>2. slab[t].wheel_idx = ticks_to_wheel_idx(due(t)) /\ cur_wheel_tick <= due(t)
    BY <2>1 DEF WheelInv, PlacedInv
  <2>3. cur_wheel_tick # due(t)
    <3>1. CASE slab[t].wheel_idx = slot
      BY <1>5, <1>6, <2>1, <3>1, WheelTypes DEF CursorInv, On
    <3>2. CASE slab[t].wheel_idx # slot
      BY <2>2, <3>2 DEF slot
    <3> QED BY <3>1, <3>2
  <2> QED BY <1>4, <2>1, <2>2, <2>3, WheelTypes
<1>10. CursorInv(rank)'
  <2>1. cur_slab_idx' # None => On(cur_slab_idx, slot)'
    <3>1. c # None => On(c, s)
      BY <1>3, <1>5 DEF Sorted
    <3>2. \A t, z : t = cur_slab_idx' /\ z = slot' /\ On(t, z)' => On(cur_slab_idx, slot)'
      BY Zenon
    <3> QED BY <1>4, <1>7, <3>1, <3>2, ListsSame
  <2>2. ASSUME NEW t \in Tokens, On(t, slot)', Passed(t, rank)' PROVE FALSE
    <3>1. \A z : z = slot' /\ On(t, slot)' => On(t, z)'
      BY Zenon
    <3>2. On(t, s)
      BY <1>4, <1>7, <2>2, <3>1, ListsSame
    <3>3. c # None /\ rank[t] <= rank[c]
      BY <1>3, <1>5, <3>2 DEF Sorted
    <3>4. rank[t] \in Nat /\ rank[c] \in Nat
      BY <1>2, <1>3, <3>3, WheelTypes
    <3>5. rank[c] < rank[t]
      BY <1>4, <2>2, <3>3 DEF Passed
    <3> QED BY <3>3, <3>4, <3>5
  <2> QED BY <2>1, <2>2, Zenon DEF CursorInv
<1>11. BoundsInv(rank)'
  <2> SUFFICES ASSUME NEW t \in Tokens, Armed(t)'
               PROVE  next_timeout'[slab'[t].wheel_idx] \in 1 .. slab'[t].when
    BY Zenon DEF BoundsInv
  <2>1. Armed(t) /\ slab' = slab
    BY <1>4, ListsSame
  <2>2. next_timeout[slab[t].wheel_idx] \in 1 .. slab[t].when
    BY <1>5, <1>6, <2>1 DEF BoundsInv
  <2>3. slab[t].wheel_idx = slot => cur_slab_idx # head[slot]
    BY <1>4, <1>5, <2>1, WheelTypes DEF Sorted, On
  <2> QED BY <1>4, <2>1, <2>2, <2>3, ClearedType, WheelTypes
<1>12. RankInv'
  <2>1. Sorted(rank)'
    BY <1>4, <1>5, ListsSame
  <2> QED BY <1>10, <1>11, <2>1, Zenon DEF RankInv
<1> QED BY <1>8, <1>9, <1>12 DEF WheelInv

\* Only the clock changes, outside the loop of poll or where it is over.
LEMMA ClockStep ==
  ASSUME WheelInv, UNCHANGED <<lists, next_timeout, capacity, cursor>>,
         now' \in Nat, polled' \in Nat, polling' \in BOOLEAN, polled' <= now',
         time_to_ticks(polled) <= time_to_ticks(polled'), ~Behind
  PROVE  WheelInv'
<1>1. PICK b \in Nat : \E rank \in Ranks(b) : rank \in [Tokens -> Nat] /\ Ranked(rank)
  BY RankOf
<1>2. PICK rank \in Ranks(b) : rank \in [Tokens -> Nat] /\ Ranked(rank)
  BY <1>1
<1>3. /\ UNCHANGED lists /\ next_timeout' = next_timeout /\ capacity' = capacity
      /\ cur_wheel_tick' = cur_wheel_tick /\ cur_slab_idx' = cur_slab_idx
  BY Zenon DEF cursor
<1>4. WTypeOK'
  BY <1>3, Zenon DEF WheelInv, WTypeOK, lists
<1>5. TimeInv'
  <2>1. time_to_ticks(polled') \in Nat /\ cur_wheel_tick <= time_to_ticks(polled) + 1
    BY TickType DEF WheelInv, TimeInv
  <2>2. cur_wheel_tick <= time_to_ticks(polled') + 1
    BY <2>1, WheelTypes
  <2> QED BY <1>3, <2>2, Zenon DEF TimeInv, time_to_ticks
<1>6. slot' = slot
  BY <1>3, Zenon DEF slot, ticks_to_wheel_idx
<1>7. CursorInv(rank)'
  <2>1. CursorInv(rank)
    BY <1>2 DEF Ranked
  <2>2. \A t, z : On(t, z)' <=> On(t, z)
    BY <1>3, ListsSame
  <2>3. \A t : due(t)' = due(t)
    BY <1>3, ListsSame
  <2>4. cur_slab_idx' # None => On(cur_slab_idx, slot)'
    <3>1. \A t, z : t = cur_slab_idx' /\ z = slot' /\ On(t, z)' => On(cur_slab_idx, slot)'
      BY Zenon
    <3> QED BY <1>3, <1>6, <2>1, <2>2, <3>1, Zenon DEF CursorInv
  <2>5. ASSUME NEW t \in Tokens, On(t, slot)', Passed(t, rank)'
        PROVE  cur_wheel_tick' < due(t)'
    <3>1. \A z : z = slot' /\ On(t, slot)' => On(t, z)'
      BY Zenon
    <3>2. On(t, slot) /\ Passed(t, rank)
      BY <1>3, <1>6, <2>2, <2>5, <3>1, Zenon DEF Passed
    <3> QED BY <1>3, <2>1, <2>3, <3>2, Zenon DEF CursorInv
  <2> QED BY <2>4, <2>5, Zenon DEF CursorInv
<1>8. BoundsInv(rank)'
  <2> SUFFICES ASSUME NEW t \in Tokens, Armed(t)'
               PROVE  next_timeout'[slab'[t].wheel_idx] \in 1 .. slab'[t].when
    BY Zenon DEF BoundsInv
  <2>1. Armed(t) /\ slab' = slab
    BY <1>3, ListsSame
  <2> QED BY <1>2, <1>3, <2>1 DEF Ranked, BoundsInv
<1>9. RankInv'
  <2>1. Sorted(rank)'
    BY <1>2, <1>3, ListsSame DEF Ranked
  <2> QED BY <1>7, <1>8, <2>1, Zenon DEF RankInv
<1>10. VacantInv' /\ PlacedInv'
  BY <1>3, ListsSameKeeps
<1> QED BY <1>4, <1>5, <1>9, <1>10 DEF WheelInv

-----------------------------------------------------------------------------
(* The theorems.                                                           *)

LEMMA WheelInit == WInit => WheelInv
<1> SUFFICES ASSUME WInit PROVE WheelInv
  OBVIOUS
<1>1. /\ head = [s \in Slots |-> None] /\ next_timeout = [s \in Slots |-> None]
      /\ slab = [tk \in Tokens |-> Vacant] /\ vacant = [i \in 1 .. InitialCapacity |-> i]
      /\ capacity = InitialCapacity /\ cur_wheel_tick = 0 /\ cur_slab_idx = None
      /\ now = 0 /\ polled = 0 /\ polling = FALSE
  BY DEF WInit
<1>2. 0 \in Slots
  BY Numbers DEF Slots
<1>3. Vacant \in Entry /\ Vacant.task = None
  BY <1>2 DEF Vacant, Entry, None
<1>4. \A tk \in Tokens : slab[tk] = Vacant /\ ~Armed(tk)
  BY <1>1, <1>3 DEF Armed
<1>5. \A i \in 1 .. InitialCapacity : i \in Tokens
  BY Numbers DEF Tokens
<1>6. vacant \in Seq(Tokens) /\ Len(vacant) = InitialCapacity
  BY <1>1, <1>5, Numbers
<1>7. WTypeOK
  <2>1. InitialCapacity \in InitialCapacity .. MaxCapacity
    BY Numbers
  <2>2. head \in [Slots -> Tokens \cup {None}] /\ next_timeout \in [Slots -> Nat]
    BY <1>1 DEF None
  <2>3. slab \in [Tokens -> Entry]
    BY <1>1, <1>3
  <2> QED BY <1>1, <1>6, <2>1, <2>2, <2>3 DEF WTypeOK, Entry
<1>8. VacantInv
  BY <1>1, <1>4, <1>5, <1>6, Numbers DEF VacantInv
<1>9. TimeInv
  BY <1>1, TickType DEF TimeInv
<1>10. PlacedInv
  BY <1>4 DEF PlacedInv
<1>11. RankInv
  <2> DEFINE rank == [tk \in Tokens |-> 0]
  <2>1. rank \in Ranks(1)
    BY DEF Ranks
  <2>2. \A s \in Slots : head[s] = None
    BY <1>1
  <2>3. \A t, z : ~On(t, z)
    BY <1>4 DEF On
  <2> HIDE DEF rank
  <2>4. Sorted(rank) /\ CursorInv(rank) /\ BoundsInv(rank)
    BY <1>1, <1>4, <2>2, <2>3, Zenon DEF Sorted, CursorInv, BoundsInv
  <2> QED BY <2>1, <2>4 DEF RankInv
<1> QED BY <1>7, <1>8, <1>9, <1>10, <1>11 DEF WheelInv

LEMMA WheelStep == WheelInv /\ [WNext]_wvars => WheelInv'
<1> SUFFICES ASSUME WheelInv, [WNext]_wvars PROVE WheelInv'
  OBVIOUS
<1>0. /\ now \in Nat /\ polled \in Nat /\ polling \in BOOLEAN /\ polled <= now
      /\ time_to_ticks(polled) \in Nat /\ MaxMs \in Nat
  BY TickType, WheelAssumption DEF WheelInv, WTypeOK, TimeInv
<1>1. ASSUME NEW task \in Tasks, NEW d \in Durations, timer_reg(task, d) PROVE WheelInv'
  BY <1>1, RegStep
<1>2. ASSUME NEW tk \in Tokens, timer_cancel(tk) \/ Fire(tk) \/ Skip(tk) PROVE WheelInv'
  BY <1>2, CancelStep, FireStep, SkipStep
<1>3. CASE BeginPoll
  <2>1. /\ UNCHANGED <<lists, next_timeout, capacity, cursor>>
        /\ now' = now /\ polled' = now /\ polling' = TRUE /\ ~Behind
    BY <1>3 DEF BeginPoll, Behind
  <2>2. time_to_ticks(polled) <= time_to_ticks(polled')
    BY <1>0, <2>1, TickGrows
  <2> QED BY <1>0, <2>1, <2>2, ClockStep
<1>4. CASE NextTick
  BY <1>4, NextTickStep
<1>5. CASE EndPoll
  <2>1. /\ UNCHANGED <<lists, next_timeout, capacity, cursor>>
        /\ now' = now /\ polled' = polled /\ polling' = FALSE /\ ~Behind
    BY <1>5 DEF EndPoll
  <2>2. time_to_ticks(polled) <= time_to_ticks(polled')
    BY <1>0, <2>1
  <2> QED BY <1>0, <2>1, <2>2, ClockStep
<1>6. CASE Pass
  <2>1. /\ UNCHANGED <<lists, next_timeout, capacity, cursor>>
        /\ now' = now + 1 /\ polled' = polled /\ polling' = polling /\ ~Behind
    BY <1>6 DEF Pass, Behind
  <2>2. time_to_ticks(polled) <= time_to_ticks(polled')
    BY <1>0, <2>1
  <2> QED BY <1>0, <2>1, <2>2, ClockStep
<1>7. CASE UNCHANGED wvars
  <2>1. /\ UNCHANGED lists /\ next_timeout' = next_timeout /\ capacity' = capacity
        /\ cur_wheel_tick' = cur_wheel_tick /\ cur_slab_idx' = cur_slab_idx
        /\ now' = now /\ polled' = polled /\ polling' = polling
        /\ head' = head /\ slab' = slab /\ vacant' = vacant
    BY <1>7 DEF wvars, lists, cursor, clock
  <2>2. WTypeOK' /\ VacantInv' /\ TimeInv' /\ PlacedInv'
    <3>1. WTypeOK'
      BY <2>1, Zenon DEF WheelInv, WTypeOK
    <3>2. TimeInv'
      BY <2>1, Zenon DEF WheelInv, TimeInv, time_to_ticks
    <3> QED BY <2>1, <3>1, <3>2, ListsSameKeeps
  <2>3. RankInv'
    <3>1. PICK b \in Nat : \E rank \in Ranks(b) : rank \in [Tokens -> Nat] /\ Ranked(rank)
      BY RankOf
    <3>2. PICK rank \in Ranks(b) : rank \in [Tokens -> Nat] /\ Ranked(rank)
      BY <3>1
    <3>3. slot' = slot /\ (Behind' <=> Behind)
      BY <2>1, Zenon DEF slot, ticks_to_wheel_idx, Behind, time_to_ticks
    <3>4. \A t : Passed(t, rank)' <=> Passed(t, rank)
      BY <2>1, Zenon DEF Passed
    <3>5. Sorted(rank)'
      BY <2>1, <3>2, ListsSame DEF Ranked
    <3>6. CursorInv(rank)'
      <4>1. CursorInv(rank)
        BY <3>2 DEF Ranked
      <4>2. \A t, z : On(t, z)' <=> On(t, z)
        BY <2>1, ListsSame
      <4>3. \A t : due(t)' = due(t)
        BY <2>1, ListsSame
      <4>4. cur_slab_idx' # None => On(cur_slab_idx, slot)'
        <5>1. \A t, z : t = cur_slab_idx' /\ z = slot' /\ On(t, z)' => On(cur_slab_idx, slot)'
          BY Zenon
        <5> QED BY <2>1, <3>3, <4>1, <4>2, <5>1, Zenon DEF CursorInv
      <4>5. ASSUME NEW t \in Tokens, On(t, slot)', Passed(t, rank)'
            PROVE  cur_wheel_tick' < due(t)'
        <5>1. \A z : z = slot' /\ On(t, slot)' => On(t, z)'
          BY Zenon
        <5>2. On(t, slot) /\ Passed(t, rank)
          BY <3>3, <3>4, <4>2, <4>5, <5>1, Zenon
        <5> QED BY <2>1, <4>1, <4>3, <5>2, Zenon DEF CursorInv
      <4> QED BY <4>4, <4>5, Zenon DEF CursorInv
    <3>7. BoundsInv(rank)'
      <4>1. BoundsInv(rank)
        BY <3>2 DEF Ranked
      <4>2. \A t \in Tokens : Armed(t)' <=> Armed(t)
        BY <2>1, Zenon DEF Armed
      <4> QED BY <2>1, <3>3, <3>4, <4>1, <4>2, Zenon DEF BoundsInv
    <3> QED BY <3>2, <3>5, <3>6, <3>7, Zenon DEF RankInv
  <2> QED BY <2>2, <2>3 DEF WheelInv
<1> QED BY <1>1, <1>2, <1>3, <1>4, <1>5, <1>6, <1>7 DEF WNext

LEMMA WheelAlways == WSpec => []WheelInv
  BY WheelInit, WheelStep, PTL DEF WSpec

\* Every variable of the wheel keeps its type, whatever the number of slots and
\* the capacity: no link leads out of the slab and the slab never outgrows its
\* maximum.
THEOREM WheelTypeCorrect == WSpec => []WTypeOK
<1>1. WheelInv => WTypeOK
  BY DEF WheelInv
<1> QED BY <1>1, WheelAlways, PTL

\* The lists of the wheel are lists, for any number of slots and timers: no
\* sequence of set_timeout, cancel and poll leaves a link that dangles, an entry
\* on the list of another slot, a free one on a list, or the cursor on one.
THEOREM ListsStayLinked == WSpec => []ListsLinked
<1>1. WheelInv => ListsLinked
  <2> SUFFICES ASSUME WheelInv PROVE ListsLinked
    OBVIOUS
  <2>1. PICK b \in Nat : \E rank \in Ranks(b) : rank \in [Tokens -> Nat] /\ Ranked(rank)
    BY RankOf
  <2>2. PICK rank \in Ranks(b) : rank \in [Tokens -> Nat] /\ Sorted(rank) /\ CursorInv(rank)
    BY <2>1 DEF Ranked
  <2>3. ASSUME NEW s \in Slots, head[s] # None
        PROVE  Armed(head[s]) /\ slab[head[s]].wheel_idx = s /\ slab[head[s]].prev = None
    <3>0. PICK h : h = head[s]
      OBVIOUS
    <3>1. h \in Tokens /\ Armed(h) /\ slab[h].wheel_idx = s
      BY <2>2, <2>3, <3>0 DEF Sorted, On
    <3>2. slab[h].prev = None
      <4> SUFFICES ASSUME slab[h].prev # None PROVE FALSE
        OBVIOUS
      <4>0. PICK p : p = slab[h].prev
        OBVIOUS
      <4>1. On(p, s) /\ slab[p].next = h
        BY <2>2, <3>1, <4>0 DEF Sorted
      <4>2. p \in Tokens /\ Armed(p) /\ rank[p] <= rank[h]
        BY <2>2, <3>0, <4>1 DEF Sorted, On
      <4>3. rank[h] < rank[p]
        BY <2>2, <3>1, <4>1, <4>2, NoneApart DEF Sorted
      <4> QED BY <2>2, <3>1, <4>2, <4>3
    <3> QED BY <3>0, <3>1, <3>2
  <2>4. ASSUME NEW tk \in Tokens, Armed(tk)
        PROVE  LET e == slab[tk] IN
               /\ e.wheel_idx = ticks_to_wheel_idx(time_to_ticks(e.when))
               /\ e.prev = None => head[e.wheel_idx] = tk
               /\ e.prev # None => Armed(e.prev) /\ slab[e.prev].next = tk
               /\ e.next # None =>
                    Armed(e.next) /\ slab[e.next].prev = tk
                                  /\ slab[e.next].wheel_idx = e.wheel_idx
    BY <2>2, <2>4 DEF Sorted, On, WheelInv, PlacedInv, due
  <2>5. \A i \in DOMAIN vacant : ~Armed(vacant[i])
    BY DEF WheelInv, WTypeOK, VacantInv
  <2>6. cur_slab_idx # None => Armed(cur_slab_idx) /\ slab[cur_slab_idx].wheel_idx = slot
    BY <2>2 DEF CursorInv, On
  <2> QED BY <2>3, <2>4, <2>5, <2>6 DEF ListsLinked
<1> QED BY <1>1, WheelAlways, PTL

\* next_timeout is there and no later than any timer of its slot once a poll is
\* over, however often poll cleared it and was left in the middle of a list.
THEOREM NextTimeoutNeverLate == WSpec => []NextTimeoutBounds
<1>1. WheelInv => NextTimeoutBounds
  <2> SUFFICES ASSUME WheelInv, ~polling, NEW tk \in Tokens, Armed(tk)
               PROVE  next_timeout[slab[tk].wheel_idx] \in 1 .. slab[tk].when
    BY DEF NextTimeoutBounds
  <2>1. PICK b \in Nat : \E rank \in Ranks(b) : rank \in [Tokens -> Nat] /\ Ranked(rank)
    BY RankOf
  <2> QED BY <2>1 DEF Ranked, BoundsInv, Behind
<1> QED BY <1>1, WheelAlways, PTL

-----------------------------------------------------------------------------
(* The wheel implements TimerService.                                      *)

\* The armed timers that the refinement mapping reads off the slab.
Mapped == [tk \in Tokens |-> [task |-> slab[tk].task, due |-> time_to_ticks(slab[tk].when)]]

LEMMA MappedAt ==
  ASSUME WheelInv, NEW tk \in Tokens
  PROVE  /\ Mapped[tk] = Service!Unarmed <=> ~Armed(tk)
         /\ Mapped[tk].due = due(tk)
<1>1. Mapped[tk] = [task |-> slab[tk].task, due |-> due(tk)]
  BY DEF Mapped, due
<1>2. ~Armed(tk) => slab[tk] = Vacant
  BY DEF WheelInv, VacantInv
<1>3. Vacant.task = 0 /\ Vacant.when = 0
  BY DEF Vacant, None
<1>4. time_to_ticks(0) = 0
  BY Numbers DEF time_to_ticks
<1>5. ~Armed(tk) => Mapped[tk] = Service!Unarmed
  BY <1>1, <1>2, <1>3, <1>4 DEF due, Service!Unarmed
<1>6. Mapped[tk].task = slab[tk].task /\ Mapped[tk].due = due(tk)
  BY <1>1
<1>7. Service!Unarmed.task = None
  BY DEF Service!Unarmed, None
<1> QED BY <1>5, <1>6, <1>7 DEF Armed

\* An entry of the slab changes, and the others no more than their links.
LEMMA MappedExcept ==
  ASSUME NEW tk \in Tokens, NEW a, slab'[tk].task = a.task,
         time_to_ticks(slab'[tk].when) = a.due, a = [task |-> a.task, due |-> a.due],
         \A t \in Tokens : t # tk => Same(t)
  PROVE  Mapped' = [Mapped EXCEPT ![tk] = a]
<1>1. Mapped' = [t \in Tokens |-> [task |-> slab'[t].task, due |-> time_to_ticks(slab'[t].when)]]
  BY DEF Mapped, time_to_ticks
<1>2. ASSUME NEW t \in Tokens
      PROVE  [task |-> slab'[t].task, due |-> time_to_ticks(slab'[t].when)] =
               IF t = tk THEN a ELSE [task |-> slab[t].task, due |-> time_to_ticks(slab[t].when)]
  <2>1. CASE t = tk
    BY <2>1
  <2>2. CASE t # tk
    <3>1. slab'[t].task = slab[t].task /\ slab'[t].when = slab[t].when
      BY <2>2 DEF Same
    <3> QED BY <2>2, <3>1
  <2> QED BY <2>1, <2>2
<1> QED BY <1>1, <1>2 DEF Mapped

LEMMA MappedRemoves ==
  ASSUME WheelInv, NEW tk \in Tokens, remove_slab(tk)
  PROVE  Mapped' = [Mapped EXCEPT ![tk] = Service!Unarmed]
<1>1. slab'[tk] = Vacant /\ \A t \in Tokens : t # tk => Same(t)
  BY WheelTypes, UnlinkedFields DEF remove_slab
<1>2. slab'[tk].task = 0 /\ slab'[tk].when = 0
  BY <1>1 DEF Vacant, None
<1>3. time_to_ticks(0) = 0
  BY Numbers DEF time_to_ticks
<1>4. Service!Unarmed.task = 0 /\ Service!Unarmed.due = 0
  BY DEF Service!Unarmed
<1>5. Service!Unarmed = [task |-> Service!Unarmed.task, due |-> Service!Unarmed.due]
  BY DEF Service!Unarmed
<1> QED BY <1>1, <1>2, <1>3, <1>4, <1>5, MappedExcept

\* timer_reg arms a token that was free, for the tick asked for or the first
\* that poll has before it.
LEMMA MapsSet ==
  ASSUME WheelInv, NEW task \in Tasks, NEW d \in Durations, timer_reg(task, d)
  PROVE  \E tk \in Tokens : Service!Set(tk)
<1>1. PICK tk \in Tokens, tick \in Nat, s \in Slots, e \in Entry :
        /\ Inserts(tk, s, e) /\ tick >= time_to_ticks(now + d)
        /\ tick = time_to_ticks(now + d) \/ tick = cur_wheel_tick + 1
        /\ e.task = task /\ time_to_ticks(e.when) = tick
  BY RegFacts DEF WheelInv
<1>2. ~Armed(tk) /\ slab' = Linked(tk, e)
  BY <1>1 DEF Inserts
<1>3. slab'[tk] = e /\ \A t \in Tokens : t # tk => Same(t)
  BY <1>2, WheelTypes, LinkedFields
<1>4. Mapped' = [Mapped EXCEPT ![tk] = [task |-> task, due |-> tick]]
  BY <1>1, <1>3, MappedExcept
<1>5. Mapped[tk] = Service!Unarmed
  BY <1>2, MappedAt
<1>6. ~polling /\ UNCHANGED <<now, polled, polling>>
  BY DEF timer_reg, clock
<1>7. /\ time_to_ticks(now + d) = Service!Tick(now + d)
      /\ time_to_ticks(polled) = Service!Tick(polled)
  BY DEF time_to_ticks, Service!Tick
<1>8. now \in Nat /\ d \in Nat /\ time_to_ticks(polled) \in Nat /\ cur_wheel_tick \in Nat
  BY WheelAssumption, WheelTypes DEF WheelInv, WTypeOK
<1>9. time_to_ticks(now + d) \in Nat
  BY <1>8, TickType
<1>10. cur_wheel_tick <= time_to_ticks(polled) + 1
  BY DEF WheelInv, TimeInv
<1>11. /\ tick \in Service!Tick(now + d) .. Service!Tick(now + d) + Service!Tick(polled) + 2
       /\ tick > Service!Tick(now + d) => tick <= Service!Tick(polled) + 2
  BY <1>1, <1>7, <1>8, <1>9, <1>10
<1>12. Service!Set(tk)
  BY <1>4, <1>5, <1>6, <1>11, Zenon DEF Service!Set, Mapped
<1> QED BY <1>12

LEMMA ServiceInit == WInit => Service!Init
<1> SUFFICES ASSUME WInit PROVE Service!Init
  OBVIOUS
<1>1. WheelInv /\ slab = [tk \in Tokens |-> Vacant] /\ now = 0 /\ polled = 0 /\ polling = FALSE
  BY WheelInit DEF WInit
<1>2. \A tk \in Tokens : ~Armed(tk)
  BY <1>1 DEF Armed, Vacant
<1>3. \A tk \in Tokens : Mapped[tk] = Service!Unarmed
  BY <1>1, <1>2, MappedAt
<1>4. Mapped = [tk \in Tokens |-> Service!Unarmed]
  BY <1>3, Zenon DEF Mapped
<1> QED BY <1>1, <1>4 DEF Service!Init, Mapped

LEMMA ServiceStep == WheelInv /\ [WNext]_wvars => [Service!Next]_(Service!svars)
<1> SUFFICES ASSUME WheelInv, [WNext]_wvars PROVE [Service!Next]_(Service!svars)
  OBVIOUS
<1>0. slab' = slab => Mapped' = Mapped
  BY Zenon DEF Mapped, time_to_ticks
<1>1. ASSUME NEW task \in Tasks, NEW d \in Durations, timer_reg(task, d) PROVE Service!Next
  BY <1>1, MapsSet DEF Service!Next
<1>2. ASSUME NEW tk \in Tokens, timer_cancel(tk) PROVE Service!Next
  <2>1. Mapped' = [Mapped EXCEPT ![tk] = Service!Unarmed]
    BY <1>2, MappedRemoves DEF timer_cancel
  <2>2. ~polling /\ UNCHANGED <<now, polled, polling>>
    BY <1>2 DEF timer_cancel, clock
  <2> QED BY <2>1, <2>2, Zenon DEF Service!Next, Service!Cancel, Mapped
<1>3. ASSUME NEW tk \in Tokens, Fire(tk) PROVE Service!Next
  <2>1. Mapped' = [Mapped EXCEPT ![tk] = Service!Unarmed]
    BY <1>3, MappedRemoves DEF Fire
  <2>2. polling /\ UNCHANGED <<now, polled, polling>>
    BY <1>3 DEF Fire, Behind, clock
  <2>3. Mapped[tk] # Service!Unarmed /\ Mapped[tk].due <= Service!Tick(polled)
    <3>1. due(tk) <= time_to_ticks(polled) /\ Armed(tk)
      BY <1>3, FireStep DEF Fire, Expired, due
    <3>2. time_to_ticks(polled) = Service!Tick(polled)
      BY DEF time_to_ticks, Service!Tick
    <3>3. Mapped[tk] # Service!Unarmed /\ Mapped[tk].due = due(tk)
      BY <3>1, MappedAt
    <3> QED BY <3>1, <3>2, <3>3
  <2> QED BY <2>1, <2>2, <2>3, Zenon DEF Service!Next, Service!Fire, Service!Due, Mapped
<1>4. CASE BeginPoll
  BY <1>0, <1>4 DEF BeginPoll, lists, Service!Next, Service!BeginPoll, Mapped
<1>5. CASE EndPoll
  <2>1. polling /\ polling' = FALSE /\ UNCHANGED <<lists, now, polled>> /\ ~Behind
    BY <1>5 DEF EndPoll
  <2>2. ASSUME NEW tk \in Tokens
        PROVE  Mapped[tk] # Service!Unarmed => ~(Mapped[tk].due <= Service!Tick(polled))
    <3>1. CASE Armed(tk)
      <4>1. cur_wheel_tick <= due(tk) /\ ~(cur_wheel_tick <= time_to_ticks(polled))
        BY <2>1, <3>1 DEF WheelInv, PlacedInv, Behind
      <4>2. time_to_ticks(polled) = Service!Tick(polled)
        BY DEF time_to_ticks, Service!Tick
      <4>3. Mapped[tk].due = due(tk)
        BY MappedAt
      <4>4. due(tk) \in Nat /\ cur_wheel_tick \in Nat /\ time_to_ticks(polled) \in Nat
        BY WheelTypes
      <4>5. ~(due(tk) <= time_to_ticks(polled))
        BY <4>1, <4>4
      <4> QED BY <4>2, <4>3, <4>5
    <3>2. CASE ~Armed(tk)
      BY <3>2, MappedAt
    <3> QED BY <3>1, <3>2
  <2>3. Mapped' = Mapped
    BY <1>0, <2>1 DEF lists
  <2> QED BY <2>1, <2>2, <2>3, Zenon DEF Service!Next, Service!EndPoll, Service!Due, Mapped
<1>6. CASE Pass
  <2>1. now' > now
    BY <1>6 DEF Pass, WheelInv, WTypeOK
  <2> QED BY <1>0, <1>6, <2>1 DEF Pass, lists, Service!Next, Service!Pass, Mapped
<1>7. CASE NextTick \/ (\E tk \in Tokens : Skip(tk)) \/ UNCHANGED wvars
  <2>1. UNCHANGED <<slab, now, polled, polling>>
    BY <1>7 DEF NextTick, Skip, wvars, lists, clock
  <2> QED BY <1>0, <2>1 DEF Service!svars, Mapped
<1> QED BY <1>1, <1>2, <1>3, <1>4, <1>5, <1>6, <1>7 DEF WNext

\* The wheel is a timer service, whatever its size: a poll returns no timer
\* before its tick and misses none that is due, however the lists, the cursor
\* left in them and the rounds of the wheel stand, and every timer is armed for
\* the tick asked for or the first that a poll can reach.
THEOREM WheelImplementsService == WSpec => TimerServiceSpec
<1>1. WInit => Service!Init
  BY ServiceInit
<1>2. WheelInv /\ [WNext]_wvars => [Service!Next]_(Service!svars)
  BY ServiceStep
<1> QED BY <1>1, <1>2, WheelAlways, PTL DEF WSpec, TimerServiceSpec, Service!Spec

=============================================================================
