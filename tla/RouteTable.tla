----------------------------- MODULE RouteTable -----------------------------
(***************************************************************************)
(* routing/route_table.c: the RIB holds every candidate route in a slot,   *)
(* the FIB one active route per prefix.  Every change of the RIB rebuilds  *)
(* the FIB before the call returns; route_table_lookup reads only the FIB. *)
(* An unused slot is NoRoute: no code reads its stale fields.              *)
(***************************************************************************)
EXTENDS Naturals, FiniteSets

CONSTANTS
    Width,       \* bits of an address: 32
    Size,        \* ROUTE_RIB_SIZE, and ROUTE_FIB_SIZE
    Protos,      \* protocols that add routes
    Vias,        \* next hop and egress interface of a route
    NoVia,       \* no route
    NoRoute,     \* an entry that is not valid
    Targets,     \* bound: <<address, prefix length>> given to add and delete
    Metrics,     \* bound: metrics
    MaxSequence  \* bound: next_sequence, below its width of 32 bits

Slots == 1 .. Size

\* Block[k]: the addresses that agree in all but their last k bits.
Block[k \in 0 .. Width] == IF k = 0 THEN 1 ELSE 2 * Block[k - 1]

Addresses == 0 .. Block[Width] - 1

\* RouteRibEntry and RouteFibEntry.
RibEntries ==
    [prefix : Addresses, len : 0 .. Width, proto : Protos, via : Vias,
     metric : Metrics, selected : BOOLEAN, sequence : 1 .. MaxSequence]
FibEntries ==
    [prefix : Addresses, len : 0 .. Width, proto : Protos, via : Vias,
     metric : Metrics, index : Slots]

ASSUME WidthAssumption == Width \in Nat /\ Size \in Nat \ {0}
ASSUME TargetAssumption == Targets \subseteq Addresses \X (0 .. Width)
ASSUME RouteBoundsAssumption ==
    Metrics \subseteq Nat /\ MaxSequence \in Nat \ {0}
ASSUME NoRouteAssumption ==
    NoVia \notin Vias /\ NoRoute \notin RibEntries \cup FibEntries

VARIABLES
    rib,          \* RouteTable.rib
    fib,          \* RouteTable.fib
    ribCount,     \* rib_count
    fibCount,     \* fib_count
    nextSequence  \* next_sequence

vars == <<rib, fib, ribCount, fibCount, nextSequence>>

\* a & route_prefix_mask(n).
Masked(a, n) == a - (a % Block[Width - n])

\* route_admin_distance.  A protocol number without a case has distance 255.
AdminDistance(p) ==
    CASE p = "direct" -> 0
      [] p = "static" -> 1
      [] p = "bgp"    -> 20
      [] p = "eigrp"  -> 90
      [] p = "ospf"   -> 110
      [] p = "isis"   -> 115
      [] p = "rip"    -> 120
      [] OTHER        -> 255

Used(table) == {i \in Slots : table[i] # NoRoute}
First(S, i) == i \in S /\ \A j \in S : i <= j

SameKey(p, n, t) ==
    {i \in Used(rib) : rib[i].prefix = p /\ rib[i].len = n /\ rib[i].proto = t}

-----------------------------------------------------------------------------
(***************************************************************************)
(* route_table_rebuild_fib, over t = [rib, fib, count].                    *)
(***************************************************************************)
Cleared(r) ==
    [rib   |-> [i \in Slots |-> IF r[i] = NoRoute THEN NoRoute
                                ELSE [r[i] EXCEPT !.selected = FALSE]],
     fib   |-> [i \in Slots |-> NoRoute],
     count |-> 0]

\* Faulty: prefers the metric to the administrative distance.
MetricFirst(e, c) ==
    \/ e.metric < c.metric
    \/ e.metric = c.metric /\ AdminDistance(e.proto) < AdminDistance(c.proto)

\* Entry e replaces the current entry c of the same prefix.
Better(e, c) ==
    \/ AdminDistance(e.proto) < AdminDistance(c.proto)
    \/ /\ AdminDistance(e.proto) = AdminDistance(c.proto)
       /\ \/ e.metric < c.metric
          \/ e.metric = c.metric /\ e.sequence < c.sequence

FibEntry(e, i) ==
    [prefix |-> e.prefix, len |-> e.len, proto |-> e.proto, via |-> e.via,
     metric |-> e.metric, index |-> i]

\* Faulty: the entry that is replaced stays selected.
ReplaceOnly(t, i, j) ==
    [t EXCEPT !.fib[j] = FibEntry(t.rib[i], i), !.rib[i].selected = TRUE]

\* FIB slot j, of a worse route, is given to RIB slot i.
Replace(t, i, j) ==
    [t EXCEPT !.fib[j] = FibEntry(t.rib[i], i),
              !.rib = [@ EXCEPT ![t.fib[j].index].selected = FALSE,
                                ![i].selected = TRUE]]

InstallNew(t, i, j) ==
    [t EXCEPT !.fib[j] = FibEntry(t.rib[i], i), !.rib[i].selected = TRUE,
              !.count = @ + 1]

SamePrefix(t, i) ==
    {j \in Used(t.fib) : /\ t.fib[j].prefix = t.rib[i].prefix
                         /\ t.fib[j].len = t.rib[i].len}

\* One iteration of the loop over the RIB.
Install(t, i) ==
    IF t.rib[i] = NoRoute THEN t
    ELSE IF SamePrefix(t, i) # {}
    THEN LET j == CHOOSE j \in Slots : First(SamePrefix(t, i), j)
         IN IF Better(t.rib[i], t.rib[t.fib[j].index]) THEN Replace(t, i, j)
                                                       ELSE t
    ELSE LET j == CHOOSE j \in Slots : First(Slots \ Used(t.fib), j)
         IN InstallNew(t, i, j)

\* The table after the loop: run[n] is the table after n iterations.
Rebuilt(r) ==
    LET run[n \in 0 .. Size] ==
            IF n = 0 THEN Cleared(r) ELSE Install(run[n - 1], n)
    IN run[Size]

RebuildFib(r) ==
    LET t == Rebuilt(r)
    IN rib' = t.rib /\ fib' = t.fib /\ fibCount' = t.count

-----------------------------------------------------------------------------
(***************************************************************************)
(* The public calls.                                                       *)
(***************************************************************************)
Init ==
    /\ rib = [i \in Slots |-> NoRoute] /\ fib = [i \in Slots |-> NoRoute]
    /\ ribCount = 0 /\ fibCount = 0 /\ nextSequence = 1

\* route_table_add of a candidate the RIB has: its sequence stays.
AddUpdate(a, n, via, m, p) ==
    \E i \in Slots :
        /\ First(SameKey(Masked(a, n), n, p), i)
        /\ RebuildFib([rib EXCEPT ![i].via = via, ![i].metric = m])
        /\ UNCHANGED <<ribCount, nextSequence>>

\* route_table_add of a new candidate, to the first unused slot.
AddNew(a, n, via, m, p) ==
    /\ nextSequence < MaxSequence
    /\ SameKey(Masked(a, n), n, p) = {}
    /\ \E i \in Slots :
          /\ First(Slots \ Used(rib), i)
          /\ RebuildFib([rib EXCEPT ![i] =
                [prefix |-> Masked(a, n), len |-> n, proto |-> p, via |-> via,
                 metric |-> m, selected |-> FALSE, sequence |-> nextSequence]])
    /\ nextSequence' = nextSequence + 1
    /\ ribCount' = ribCount + 1

Decremented(c, n) == IF c > n THEN c - n ELSE 0

Delete(a, n, p) ==
    \E i \in Slots :
        /\ First(SameKey(Masked(a, n), n, p), i)
        /\ RebuildFib([rib EXCEPT ![i] = NoRoute])
        /\ ribCount' = Decremented(ribCount, 1)
        /\ UNCHANGED nextSequence

\* Faulty: counts one route however many go.
FlushCountsOne(p) ==
    LET gone == {i \in Used(rib) : rib[i].proto = p}
    IN /\ RebuildFib([i \in Slots |-> IF i \in gone THEN NoRoute ELSE rib[i]])
       /\ ribCount' = Decremented(ribCount, IF gone = {} THEN 0 ELSE 1)
       /\ UNCHANGED nextSequence

FlushProto(p) ==
    LET gone == {i \in Used(rib) : rib[i].proto = p}
    IN /\ RebuildFib([i \in Slots |-> IF i \in gone THEN NoRoute ELSE rib[i]])
       /\ ribCount' = Decremented(ribCount, Cardinality(gone))
       /\ UNCHANGED nextSequence

Matching(ip) == {j \in Used(fib) : Masked(ip, fib[j].len) = fib[j].prefix}

\* The entry the scan of route_table_lookup ends with: it keeps the longest,
\* and the earlier of two of the same length.
BestMatch(ip, j) ==
    /\ j \in Matching(ip)
    /\ \A k \in Matching(ip) : \/ fib[j].len > fib[k].len
                               \/ fib[j].len = fib[k].len /\ j <= k

Lookup(ip) ==
    IF Matching(ip) = {} THEN NoVia
    ELSE fib[CHOOSE j \in Slots : BestMatch(ip, j)].via

Next ==
    \/ \E t \in Targets, via \in Vias, m \in Metrics, p \in Protos :
          AddUpdate(t[1], t[2], via, m, p) \/ AddNew(t[1], t[2], via, m, p)
    \/ \E t \in Targets, p \in Protos : Delete(t[1], t[2], p)
    \/ \E p \in Protos : FlushProto(p)

Spec == Init /\ [][Next]_vars

-----------------------------------------------------------------------------
(***************************************************************************)
(* Properties.                                                             *)
(***************************************************************************)
\* Types; a stored prefix has no bit past its length, and rib_count and fib_count
\* are what a scan of the slots would count.
TypeOK ==
    /\ rib \in [Slots -> RibEntries \cup {NoRoute}]
    /\ fib \in [Slots -> FibEntries \cup {NoRoute}]
    /\ \A i \in Used(rib) : rib[i].prefix % Block[Width - rib[i].len] = 0
    /\ ribCount = Cardinality(Used(rib)) /\ fibCount = Cardinality(Used(fib))
    /\ nextSequence \in 1 .. MaxSequence

\* "After rebuild" of 19_route_table.md: a FIB entry copies a selected RIB
\* entry that no entry of its prefix betters, every other RIB entry is not
\* selected, and every prefix of the RIB is in the FIB once.
FibFollowsRib ==
    /\ \A j \in Used(fib) :
          LET i == fib[j].index
          IN /\ i \in Used(rib) /\ fib[j] = FibEntry(rib[i], i)
             /\ \A k \in Used(rib) :
                   rib[k].prefix = rib[i].prefix /\ rib[k].len = rib[i].len =>
                      ~Better(rib[k], rib[i])
    /\ \A i \in Used(rib) :
          /\ rib[i].selected <=> \E j \in Used(fib) : fib[j].index = i
          /\ Cardinality({j \in Used(fib) : fib[j].prefix = rib[i].prefix
                                            /\ fib[j].len = rib[i].len}) = 1

Route(e) == [prefix |-> e.prefix, len |-> e.len, proto |-> e.proto,
             via |-> e.via, metric |-> e.metric, age |-> e.sequence]

R == INSTANCE Routes WITH
        routes   <- {Route(rib[i]) : i \in Used(rib)},
        forward  <- [ip \in Addresses |-> Lookup(ip)],
        Capacity <- Size,
        Distance <- [p \in Protos |-> AdminDistance(p)]

\* Slots, reuse of slots, counters and the FIB are invisible: after any calls
\* route_table_lookup answers by the best of the routes added and not deleted.
ImplementsRoutes == R!Spec
=============================================================================
