------------------------------ MODULE DnsProofs ------------------------------
(***************************************************************************)
(* A lookup asks every server it can, and fails only if there is none: the *)
(* proofs of AllAsked and FailsForCause for any number of servers, any     *)
(* number of ticks and any servers that cannot be reached.                 *)
(***************************************************************************)
EXTENDS Dns, Induction

Statuses == {"new", "looking", "failed", "expired", "answered"}

DTypeOK ==
    /\ reach \in [Families -> SUBSET Servers]
    /\ status \in Statuses
    /\ family \in Families
    /\ total \in Nat /\ ticks \in Nat
    /\ asked \subseteq Servers

\* The servers whose turn has come: the one that the first round started at,
\* and those that a retry started at since.
HadTurn(s) == s = 0 \/ (ticks <= s /\ s < total)

\* The inductive invariant.  Only servers that can be reached are asked, and
\* of those whose turn has come none is left out: a round starts at the server
\* with the number of the ticks that are left, and goes past it only if it
\* cannot be reached.
DInv ==
    /\ DTypeOK
    /\ status \in {"looking", "expired", "answered"} =>
         /\ ticks <= total
         /\ asked \subseteq reach[family]
         /\ \A s \in reach[family] : HadTurn(s) => s \in asked
    /\ status = "expired" => ticks = 0 /\ total >= 1
    /\ FailsForCause

\* What lookup_on promises: it sends the query to at most one server, which it
\* can reach; to the one the round starts at if that can be reached; and to
\* none only if no server can be.
LEMMA LookupOn ==
  ASSUME DTypeOK, NEW f \in Families, NEW pos \in Nat
  PROVE  /\ lookup_on(f, pos) \subseteq reach[f]
         /\ pos \in reach[f] => lookup_on(f, pos) = {pos}
         /\ lookup_on(f, 0) = {} => reach[f] = {}
<1> DEFINE works(p) == {k \in Servers : Round(p, k) \in reach[f]}
<1>1. NumServers \in Nat /\ reach[f] \subseteq Servers
  BY DnsAssumption DEF DTypeOK
<1>2. \A p \in Nat : works(p) \in SUBSET Nat
  BY <1>1 DEF Servers
<1>3. \A p \in Nat : works(p) # {} =>
        Min(works(p)) \in works(p) /\ \A k \in works(p) : Min(works(p)) <= k
  BY <1>2, MinIsLeast
<1>4. \A p \in Nat : lookup_on(f, p) = IF works(p) = {} THEN {} ELSE {Round(p, Min(works(p)))}
  BY DEF lookup_on
<1>5. ASSUME pos \in reach[f]
      PROVE  lookup_on(f, pos) = {pos}
  <2>1. pos \in Servers /\ 0 \in Servers /\ Round(pos, 0) = pos
    BY <1>1, <1>5 DEF Servers, Round
  <2>2. 0 \in works(pos)
    BY <1>5, <2>1
  <2> DEFINE m == Min(works(pos))
  <2>3. m \in Nat /\ m <= 0
    BY <1>2, <1>3, <2>2
  <2>4. m = 0
    BY <2>3
  <2> QED BY <1>4, <2>1, <2>2, <2>4
<1>6. ASSUME lookup_on(f, 0) = {}
      PROVE  reach[f] = {}
  <2>1. works(0) = {}
    BY <1>4, <1>6
  <2>2. \A s \in reach[f] : s \in Servers /\ Round(0, s) = s
    BY <1>1 DEF Servers, Round
  <2> QED BY <2>1, <2>2
<1>7. lookup_on(f, pos) \subseteq reach[f]
  <2>1. CASE works(pos) = {}
    BY <1>4, <2>1
  <2>2. CASE works(pos) # {}
    <3>1. Min(works(pos)) \in works(pos)
      BY <1>3, <2>2
    <3>2. Round(pos, Min(works(pos))) \in reach[f]
      BY <3>1
    <3> QED BY <1>4, <2>2, <3>2
  <2> QED BY <2>1, <2>2
<1> QED BY <1>5, <1>6, <1>7

\* A lookup that is about to start has the inductive invariant.
LEMMA DInvInit == DInit => DInv
  BY DEF DInit, DInv, DTypeOK, Statuses, Families, FailsForCause

\* Every step keeps it.
LEMMA DInvStep == DInv /\ [DNext]_dvars => DInv'
<1> SUFFICES ASSUME DInv, [DNext]_dvars PROVE DInv'
  OBVIOUS
<1>0. DTypeOK /\ NumServers \in Nat /\ MaxTicks \in 1 .. 255
  BY DnsAssumption DEF DInv
<1>1. CASE Start
  <2>1. PICK f \in Families :
          family' = f /\ asked' = lookup_on(f, 0) /\ lookup_on(f, 0) # {}
    BY <1>1 DEF Start
  <2>2. total' \in Nat /\ ticks' = total' /\ status' = "looking" /\ reach' = reach
    BY <1>0, <1>1 DEF Start
  <2>3. asked' \subseteq reach[f] /\ (0 \in reach[f] => 0 \in asked')
    BY <1>0, <2>1, LookupOn
  <2>4. DTypeOK'
    BY <1>0, <2>1, <2>2, <2>3 DEF DTypeOK, Statuses
  <2>5. \A s \in reach'[family'] : HadTurn(s)' => s = 0
    BY <1>0, <2>1, <2>2 DEF HadTurn, DTypeOK, Servers
  <2> QED BY <2>1, <2>2, <2>3, <2>4, <2>5 DEF DInv, FailsForCause
<1>2. CASE StartFails
  <2>1. \A f \in Families : reach[f] = {}
    BY <1>0, <1>2, LookupOn DEF StartFails
  <2> QED BY <1>0, <1>2, <2>1 DEF StartFails, DInv, DTypeOK, Statuses, FailsForCause
<1>3. CASE Retry
  <2>1. /\ ticks' = ticks - 1 /\ ticks - 1 \in Nat
        /\ asked' = asked \cup lookup_on(family, ticks - 1)
        /\ UNCHANGED <<reach, status, family, total>>
        /\ status = "looking"
    BY <1>0, <1>3 DEF Retry, DTypeOK
  <2>2. /\ lookup_on(family, ticks - 1) \subseteq reach[family]
        /\ ticks - 1 \in reach[family] => ticks - 1 \in lookup_on(family, ticks - 1)
    BY <1>0, <2>1, LookupOn DEF DTypeOK
  <2>3. DTypeOK'
    BY <1>0, <2>1, <2>2 DEF DTypeOK
  <2>4. \A s \in reach[family] : HadTurn(s)' => HadTurn(s) \/ s = ticks - 1
    BY <1>0, <2>1 DEF HadTurn, DTypeOK, Servers
  <2>5. \A s \in reach[family] : HadTurn(s)' => s \in asked'
    BY <2>1, <2>2, <2>4 DEF DInv
  <2>6. asked' \subseteq reach[family] /\ ticks' <= total
    BY <1>0, <2>1, <2>2 DEF DInv, DTypeOK
  <2> QED BY <2>1, <2>3, <2>5, <2>6 DEF DInv, FailsForCause
<1>4. CASE Expire
  <2>1. /\ ticks = 1 /\ ticks' = 0 /\ status = "looking" /\ status' = "expired"
        /\ UNCHANGED <<reach, family, total, asked>>
    BY <1>4 DEF Expire
  <2>2. DTypeOK' /\ total' >= 1 /\ ticks' <= total'
    BY <1>0, <2>1 DEF DTypeOK, Statuses, DInv
  <2>3. \A s \in reach[family] : HadTurn(s)' => HadTurn(s)
    BY <1>0, <2>1 DEF HadTurn, DTypeOK, Servers
  <2>4. \A s \in reach'[family'] : HadTurn(s)' => s \in asked'
    BY <2>1, <2>3 DEF DInv
  <2> QED BY <2>1, <2>2, <2>4 DEF DInv, FailsForCause
<1>5. CASE Answer
  BY <1>0, <1>5 DEF Answer, DInv, DTypeOK, Statuses, HadTurn, FailsForCause
<1>6. CASE UNCHANGED dvars
  BY <1>0, <1>6 DEF dvars, DInv, DTypeOK, HadTurn, FailsForCause
<1> QED BY <1>1, <1>2, <1>3, <1>4, <1>5, <1>6 DEF DNext

\* A lookup that expires has had the turn of every server, if it had as many
\* ticks as there are servers.
LEMMA DInvAllAsked == DInv => AllAsked
<1> SUFFICES ASSUME DInv, status = "expired", total >= NumServers
             PROVE  asked = reach[family]
  BY DEF AllAsked
<1>1. \A s \in reach[family] : HadTurn(s)
  BY DnsAssumption DEF DInv, DTypeOK, HadTurn, Servers
<1> QED BY <1>1 DEF DInv

\* For any number of servers and any set of them that cannot be reached: a
\* lookup with at least a tick per server that runs out of time has sent its
\* query to every server that lookup_on can reach, so its failure is never
\* that of servers that were not tried (run() and lookup_on, dns.rs).
THEOREM EveryServerAsked == DSpec => []AllAsked
<1>1. DInv /\ [DNext]_dvars => DInv'
  BY DInvStep
<1> QED BY <1>1, DInvInit, DInvAllAsked, PTL DEF DSpec

\* new_resolve fails only if there is no server to reach by IPv4 or by IPv6,
\* for any number of servers, none included.
THEOREM FailureHasCause == DSpec => []FailsForCause
<1>1. DInv => FailsForCause
  BY DEF DInv
<1>2. DInv /\ [DNext]_dvars => DInv'
  BY DInvStep
<1> QED BY <1>1, <1>2, DInvInit, PTL DEF DSpec

=============================================================================
