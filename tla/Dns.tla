--------------------------------- MODULE Dns ---------------------------------
(***************************************************************************)
(* One lookup of the DNS client (dns.rs, for systems other than macOS):    *)
(* which server each query goes to.  new_resolve starts the lookup on an   *)
(* IPv4 or else an IPv6 socket; every tick that run() counts down sends    *)
(* the query again, starting the round of servers at the ticks that are    *)
(* left.  Runner.tla has the fiber's side of the same lookup.              *)
(***************************************************************************)
EXTENDS Integers, FiniteSetsExt

CONSTANTS
    NumServers,  \* srvs.len(): the name servers of resolv.conf, perhaps none
    MaxTicks     \* bound: the longest lookup in ticks (255 in the code)

ASSUME DnsAssumption == NumServers \in Nat /\ MaxTicks \in 1 .. 255

Servers == 0 .. NumServers - 1
Families == {"v4", "v6"}

VARIABLES
    reach,   \* reach[f]: the servers that send_to succeeds for on a socket of f
    status,  \* "new", "looking", "failed", "expired" or "answered"
    family,  \* of the socket of the lookup
    total,   \* ticks the lookup was given
    ticks,   \* timed_out: ticks that are left
    asked    \* the servers that were sent a query

dvars == <<reach, status, family, total, ticks, asked>>

\* A family whose socket cannot be bound reaches no server.
DInit ==
    /\ reach \in [Families -> SUBSET Servers]
    /\ status = "new"
    /\ family = "v4"
    /\ total = 0
    /\ ticks = 0
    /\ asked = {}

\* Mutant: every round starts at the first server.
Round_first(pos, k) == IF pos \in Nat THEN k % NumServers ELSE k

\* The server that is tried after k failures in a round from pos.
Round(pos, k) == (pos + k) % NumServers

\* Mutant: only the server at the start of the round is tried.
lookup_on_once(f, pos) ==
    IF NumServers = 0 THEN {} ELSE {Round(pos, 0)} \cap reach[f]

\* The server that lookup_on sends the query to, as a set: empty if it fails.
lookup_on(f, pos) ==
    LET works == {k \in Servers : Round(pos, k) \in reach[f]} IN
    IF works = {} THEN {} ELSE {Round(pos, Min(works))}

\* start_lookup succeeds on the first family that has a server.
Start ==
    /\ status = "new"
    /\ \E f \in Families :
         /\ f = "v6" => lookup_on("v4", 0) = {}
         /\ lookup_on(f, 0) # {}
         /\ family' = f
         /\ asked' = lookup_on(f, 0)
    /\ status' = "looking"
    /\ total' \in 1 .. MaxTicks
    /\ ticks' = total'
    /\ UNCHANGED reach

StartFails ==
    /\ status = "new"
    /\ \A f \in Families : lookup_on(f, 0) = {}
    /\ status' = "failed"
    /\ UNCHANGED <<reach, family, total, ticks, asked>>

\* run() counts down a tick and sends the query again; whether that worked is
\* not looked at.
Retry ==
    /\ status = "looking"
    /\ ticks > 1
    /\ ticks' = ticks - 1
    /\ asked' = asked \cup lookup_on(family, ticks - 1)
    /\ UNCHANGED <<reach, status, family, total>>

Expire ==
    /\ status = "looking"
    /\ ticks = 1
    /\ ticks' = 0
    /\ status' = "expired"
    /\ UNCHANGED <<reach, family, total, asked>>

\* A server that was asked answers.
Answer ==
    /\ status = "looking"
    /\ asked # {}
    /\ status' = "answered"
    /\ UNCHANGED <<reach, family, total, ticks, asked>>

DNext == Start \/ StartFails \/ Retry \/ Expire \/ Answer

DSpec == DInit /\ [][DNext]_dvars

-----------------------------------------------------------------------------
\* A lookup that is given as many ticks as there are servers has asked every
\* server it can reach before it expires, although the rounds of lookup_on
\* start at a tick count that goes down while the round goes up.
AllAsked == status = "expired" /\ total >= NumServers => asked = reach[family]

\* start_lookup returns an error only if no server can be reached, by either
\* family: one bad server, or a missing address family, does not fail a lookup.
\* (new_resolve also refuses an empty domain and a socket that mio refuses.)
FailsForCause == status = "failed" => \A f \in Families : reach[f] = {}

=============================================================================
