------------------------------- MODULE Routes -------------------------------
(***************************************************************************)
(* What a routing table promises, without slots, counters or a forwarding  *)
(* table: it holds at most Capacity routes, one per prefix and protocol,   *)
(* and forwards every address by the best route for it.                    *)
(***************************************************************************)
EXTENDS Naturals, FiniteSets

CONSTANTS
    Width,    \* bits of an address
    Capacity, \* routes the table holds
    Distance, \* administrative distance of every protocol
    NoVia     \* where an address without a route is sent

VARIABLES
    routes,   \* the routes; `age' orders them by when they were learnt
    forward   \* where each address is sent

\* Block[k]: the addresses that agree in all but their last k bits.
Block[k \in 0 .. Width] == IF k = 0 THEN 1 ELSE 2 * Block[k - 1]

Addresses == 0 .. Block[Width] - 1

Key(r) == <<r.prefix, r.len, r.proto>>

Covers(r, ip) == ip - (ip % Block[Width - r.len]) = r.prefix

\* The longer prefix, then the smaller distance, then the smaller metric,
\* then the older route.
Preferred(r, s) ==
    \/ r.len > s.len
    \/ r.len = s.len /\ Distance[r.proto] < Distance[s.proto]
    \/ /\ r.len = s.len /\ Distance[r.proto] = Distance[s.proto]
       /\ r.metric < s.metric \/ (r.metric = s.metric /\ r.age <= s.age)

ForwardBy(R) ==
    [ip \in Addresses |->
        LET C == {r \in R : Covers(r, ip)}
        IN IF C = {} THEN NoVia
           ELSE (CHOOSE r \in C : \A s \in C : Preferred(r, s)).via]

Init == routes = {} /\ forward = ForwardBy({})

Learn(r) ==
    /\ r \notin routes /\ Cardinality(routes) < Capacity
    /\ \A s \in routes : Key(s) # Key(r) /\ s.age < r.age
    /\ routes' = routes \cup {r}

\* A route that is already there changes its metric or where it leads.
Update(r, s) ==
    Key(r) = Key(s) /\ r.age = s.age /\ routes' = (routes \ {r}) \cup {s}

Withdraw(r) == routes' = routes \ {r}

\* Every route of a protocol goes at once.
Flush(p) == routes' = {r \in routes : r.proto # p}

Next ==
    /\ \/ \E r \in routes' : Learn(r)
       \/ \E r \in routes, s \in routes' : Update(r, s)
       \/ \E r \in routes : Withdraw(r)
       \/ \E p \in DOMAIN Distance : Flush(p)
    /\ forward' = ForwardBy(routes')

Spec == Init /\ [][Next]_<<routes, forward>>
=============================================================================
