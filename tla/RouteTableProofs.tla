-------------------------- MODULE RouteTableProofs --------------------------
(***************************************************************************)
(* The FIB follows the RIB, and the table implements Routes.  The rebuild  *)
(* is a loop over the slots of the RIB: its invariant is Loop, and         *)
(* induction over the slots is the principle of the least element.         *)
(***************************************************************************)
EXTENDS RouteTable, FiniteSetTheorems, WellFoundedInduction, TLAPS

USE WidthAssumption, RouteBoundsAssumption, NoRouteAssumption DEF Slots

(***************************************************************************)
(* Induction over the natural numbers.                                     *)
(***************************************************************************)
\* A set of natural numbers has a least element.
LEMMA Least ==
    ASSUME NEW T \in SUBSET Nat, T # {}
    PROVE  \E m \in T : \A k \in T : m <= k
<1>. DEFINE Below == {ss \in Nat \X Nat : ss[1] < ss[2]}
<1>1. IsWellFoundedOn(Below, Nat)
  BY NatLessThanWellFounded DEF OpToRel
<1>2. PICK m \in T : \A k \in T : ~(<<k, m>> \in Below)
  <2>. HIDE DEF Below
  <2>. QED  BY <1>1, WFMin
<1>3. ASSUME NEW k \in T PROVE m <= k
  <2>1. k \in Nat /\ m \in Nat /\ ~(k < m)
    BY <1>2
  <2>. QED  BY <2>1
<1>. QED  BY <1>3

\* A set with 0 and every successor is the set of natural numbers.
LEMMA Induction ==
    ASSUME NEW T \in SUBSET Nat, 0 \in T, \A n \in T : n + 1 \in T
    PROVE  T = Nat
<1>1. SUFFICES ASSUME Nat \ T # {} PROVE FALSE
  OBVIOUS
<1>2. PICK m \in Nat \ T : \A k \in Nat \ T : m <= k
  BY <1>1, Least
<1>3. m # 0 /\ m - 1 \in T
  BY <1>2
<1>. QED  BY <1>2, <1>3

\* The function Rebuilt defines by recursion exists: the loop's run.
LEMMA RunExists ==
    ASSUME NEW r
    PROVE  \E run : /\ run[0] = Cleared(r)
                    /\ \A n \in 1 .. Size : run[n] = Install(run[n - 1], n)
                    /\ Rebuilt(r) = run[Size]
<1>. DEFINE Step(f, n) == IF n = 0 THEN Cleared(r) ELSE Install(f[n - 1], n)
            T == {m \in Nat : \E f : f = [n \in 0 .. m |-> Step(f, n)]}
<1>1. 0 \in T
  <2>. DEFINE f == [n \in 0 .. 0 |-> Cleared(r)]
  <2>1. f = [n \in 0 .. 0 |-> Step(f, n)]
    OBVIOUS
  <2>. QED  BY <2>1
<1>2. ASSUME NEW m \in T PROVE m + 1 \in T
  <2>1. PICK f : f = [n \in 0 .. m |-> Step(f, n)]
    OBVIOUS
  <2>. DEFINE g == [n \in 0 .. m + 1 |-> IF n = m + 1 THEN Install(f[m], n)
                                         ELSE f[n]]
  <2>2. ASSUME NEW n \in 0 .. m + 1 PROVE g[n] = Step(g, n)
    <3>1. CASE n = m + 1
      BY <3>1
    <3>2. CASE n = 0
      BY <3>2, <2>1
    <3>3. CASE n # m + 1 /\ n # 0
      <4>1. n \in 0 .. m /\ n - 1 \in 0 .. m /\ n - 1 # m + 1
        BY <3>3
      <4>2. f[n] = Install(f[n - 1], n)
        BY <2>1, <4>1, <3>3
      <4>3. g[n - 1] = f[n - 1] /\ g[n] = f[n]
        BY <4>1, <3>3
      <4>. HIDE DEF g
      <4>. QED  BY <4>2, <4>3, <3>3
    <3>. QED  BY <3>1, <3>2, <3>3
  <2>3. g = [n \in 0 .. m + 1 |-> Step(g, n)]
    <3>1. g = [n \in 0 .. m + 1 |-> g[n]]
      OBVIOUS
    <3>. HIDE DEF g, Step
    <3>. QED  BY <2>2, <3>1
  <2>. HIDE DEF g
  <2>. QED  BY <2>3
<1>3. Size \in T
  <2>1. T \in SUBSET Nat
    OBVIOUS
  <2>. HIDE DEF T
  <2>. QED  BY <1>1, <1>2, <2>1, Induction
<1>. DEFINE run == CHOOSE f : f = [n \in 0 .. Size |-> Step(f, n)]
<1>4. run = [n \in 0 .. Size |-> Step(run, n)]
  BY <1>3
<1>5. Rebuilt(r) = run[Size]
  BY DEF Rebuilt
<1>. HIDE DEF run
<1>. QED  BY <1>4, <1>5

\* A block has at least one address.
LEMMA BlockType ==
    ASSUME NEW k \in 0 .. Width
    PROVE  Block[k] \in Nat \ {0}
<1>. DEFINE Step(f, n) == IF n = 0 THEN 1 ELSE 2 * f[n - 1]
            T == {m \in Nat : \E f : f = [n \in 0 .. m |-> Step(f, n)]}
<1>1. 0 \in T
  <2>. DEFINE f == [n \in 0 .. 0 |-> 1]
  <2>1. f = [n \in 0 .. 0 |-> Step(f, n)]
    OBVIOUS
  <2>. QED  BY <2>1
<1>2. ASSUME NEW m \in T PROVE m + 1 \in T
  <2>1. PICK f : f = [n \in 0 .. m |-> Step(f, n)]
    OBVIOUS
  <2>. DEFINE g == [n \in 0 .. m + 1 |-> IF n = m + 1 THEN 2 * f[m] ELSE f[n]]
  <2>2. ASSUME NEW n \in 0 .. m + 1 PROVE g[n] = Step(g, n)
    BY <2>1
  <2>3. g = [n \in 0 .. m + 1 |-> Step(g, n)]
    <3>1. g = [n \in 0 .. m + 1 |-> g[n]]
      OBVIOUS
    <3>. HIDE DEF g, Step
    <3>. QED  BY <2>2, <3>1
  <2>. HIDE DEF g
  <2>. QED  BY <2>3
<1>3. Width \in T
  <2>1. T \in SUBSET Nat
    OBVIOUS
  <2>. HIDE DEF T
  <2>. QED  BY <1>1, <1>2, <2>1, Induction
<1>4. Block = CHOOSE f : f = [n \in 0 .. Width |-> Step(f, n)]
  BY DEF Block
<1>5. Block = [n \in 0 .. Width |-> Step(Block, n)]
  BY <1>3, <1>4
<1>. DEFINE U == {n \in Nat : n <= Width => Block[n] \in Nat \ {0}}
<1>6. 0 \in U
  BY <1>5
<1>7. ASSUME NEW n \in U PROVE n + 1 \in U
  <2>1. CASE n + 1 <= Width
    <3>1. n \in 0 .. Width /\ n + 1 \in 0 .. Width /\ n + 1 # 0 /\ (n + 1) - 1 = n
      BY <2>1
    <3>2. Block[n + 1] = 2 * Block[n]
      BY <1>5, <3>1
    <3>. QED  BY <3>1, <3>2
  <2>2. CASE ~(n + 1 <= Width)
    BY <2>2
  <2>. QED  BY <2>1, <2>2
<1>8. U = Nat
  <2>1. U \in SUBSET Nat
    OBVIOUS
  <2>. HIDE DEF U
  <2>. QED  BY <1>6, <1>7, <2>1, Induction
<1>9. k \in Nat /\ k <= Width
  OBVIOUS
<1>. QED  BY <1>8, <1>9

\* A multiple of d leaves no remainder.
LEMMA TimesMod ==
    ASSUME NEW d \in Nat \ {0}, NEW q \in Nat
    PROVE  (d * q) % d = 0
<1>. DEFINE x == d * q
            y == x \div d
            z == x % d
<1>1. x \in Nat
  OBVIOUS
<1>2. y \in Nat /\ z \in Nat /\ z < d /\ x = d * y + z
  <2>. HIDE DEF x
  <2>. QED  BY <1>1
<1>. HIDE DEF y, z
<1>3. ASSUME y < q PROVE FALSE
  <2>1. PICK e \in Nat : q = y + 1 + e
    BY <1>2, <1>3
  <2>2. x = d * y + d + d * e /\ d * y \in Nat /\ d * e \in Nat
    BY <1>2, <2>1
  <2>. HIDE DEF x
  <2>. QED  BY <1>2, <2>2
<1>4. ASSUME q < y PROVE FALSE
  <2>1. PICK e \in Nat : y = q + 1 + e
    BY <1>2, <1>4
  <2>2. d * y = x + d + d * e /\ d * e \in Nat
    BY <1>2, <2>1
  <2>. HIDE DEF x
  <2>. QED  BY <1>1, <1>2, <2>2
<1>5. y = q
  BY <1>2, <1>3, <1>4
<1>6. z = 0
  <2>1. x = x + z
    BY <1>2, <1>5
  <2>. HIDE DEF x
  <2>. QED  BY <1>1, <1>2, <2>1
<1>. QED  BY <1>6 DEF z

\* Masking an address leaves an address whose masked bits are zero.
LEMMA MaskedIsPrefix ==
    ASSUME NEW a \in Addresses, NEW n \in 0 .. Width
    PROVE  /\ Masked(a, n) \in Addresses
           /\ Masked(a, n) % Block[Width - n] = 0
<1>. DEFINE d == Block[Width - n]
<1>1. d \in Nat \ {0} /\ Block[Width] \in Nat \ {0}
  BY BlockType
<1>2. a \in Nat /\ a < Block[Width]
  BY <1>1 DEF Addresses
<1>. HIDE DEF d
<1>3. a = d * (a \div d) + (a % d) /\ a % d \in Nat /\ a \div d \in Nat
  BY <1>1, <1>2
<1>4. d * (a \div d) \in Nat /\ d * (a \div d) <= a
  BY <1>1, <1>2, <1>3
<1>5. a - (a % d) = d * (a \div d)
  BY <1>1, <1>2, <1>3, <1>4
<1>6. (d * (a \div d)) % d = 0
  BY <1>1, <1>3, TimesMod
<1>7. Masked(a, n) = d * (a \div d)
  BY <1>5 DEF Masked, d
<1>. QED  BY <1>1, <1>2, <1>4, <1>6, <1>7 DEF Addresses, d

-----------------------------------------------------------------------------
(***************************************************************************)
(* The order of the candidates of a prefix.                                *)
(***************************************************************************)
LEMMA DistanceType ==
    ASSUME NEW p
    PROVE  AdminDistance(p) \in Nat
BY DEF AdminDistance

\* What Better reads of an entry.
Ranked(e) == e.metric \in Nat /\ e.sequence \in Nat

\* Better is a strict order.
LEMMA BetterIsOrder ==
    ASSUME NEW a, NEW b, NEW c, Ranked(a), Ranked(b), Ranked(c)
    PROVE  /\ ~Better(a, a)
           /\ Better(a, b) /\ Better(b, c) => Better(a, c)
           /\ Better(a, b) => ~Better(b, a)
<1>. DEFINE da == AdminDistance(a.proto)
            db == AdminDistance(b.proto)
            dc == AdminDistance(c.proto)
<1>1. da \in Nat /\ db \in Nat /\ dc \in Nat
  BY DistanceType
<1>. HIDE DEF da, db, dc
<1>2. \A x, y \in {a, b, c} :
        Better(x, y) <=>
          \/ AdminDistance(x.proto) < AdminDistance(y.proto)
          \/ /\ AdminDistance(x.proto) = AdminDistance(y.proto)
             /\ \/ x.metric < y.metric
                \/ x.metric = y.metric /\ x.sequence < y.sequence
  BY DEF Better
<1>3. Better(a, a) <=> \/ da < da
                       \/ da = da /\ \/ a.metric < a.metric
                                     \/ a.metric = a.metric /\ a.sequence < a.sequence
  BY <1>2 DEF da
<1>4. Better(a, b) <=> \/ da < db
                       \/ da = db /\ \/ a.metric < b.metric
                                     \/ a.metric = b.metric /\ a.sequence < b.sequence
  BY <1>2 DEF da, db
<1>5. Better(b, a) <=> \/ db < da
                       \/ db = da /\ \/ b.metric < a.metric
                                     \/ b.metric = a.metric /\ b.sequence < a.sequence
  BY <1>2 DEF da, db
<1>6. Better(b, c) <=> \/ db < dc
                       \/ db = dc /\ \/ b.metric < c.metric
                                     \/ b.metric = c.metric /\ b.sequence < c.sequence
  BY <1>2 DEF db, dc
<1>7. Better(a, c) <=> \/ da < dc
                       \/ da = dc /\ \/ a.metric < c.metric
                                     \/ a.metric = c.metric /\ a.sequence < c.sequence
  BY <1>2 DEF da, dc
<1>8. /\ a.metric \in Nat /\ b.metric \in Nat /\ c.metric \in Nat
      /\ a.sequence \in Nat /\ b.sequence \in Nat /\ c.sequence \in Nat
  BY DEF Ranked
<1>. QED  BY <1>1, <1>3, <1>4, <1>5, <1>6, <1>7, <1>8

-----------------------------------------------------------------------------
(***************************************************************************)
(* The loop of route_table_rebuild_fib.                                    *)
(***************************************************************************)
Tables == [rib   : [Slots -> RibEntries \cup {NoRoute}],
           fib   : [Slots -> FibEntries \cup {NoRoute}],
           count : Nat]

\* Two slots hold the same candidate, selected or not.
Like(e, c) ==
    /\ e = NoRoute <=> c = NoRoute
    /\ e # NoRoute =>
          /\ e.prefix = c.prefix /\ e.len = c.len /\ e.proto = c.proto
          /\ e.via = c.via /\ e.metric = c.metric /\ e.sequence = c.sequence

SameNet(e, c) == e.prefix = c.prefix /\ e.len = c.len

\* FIB entry e describes the best of the first n candidates of its prefix.
BestOf(e, r, n) ==
    /\ e.index \in Used(r) /\ e.index <= n
    /\ e = FibEntry(r[e.index], e.index)
    /\ \A k \in Used(r) : k <= n /\ SameNet(r[k], r[e.index]) =>
                             ~Better(r[k], r[e.index])

\* After n iterations of the rebuild of RIB r: the candidates are untouched,
\* the first slots of the FIB are in use, and the FIB has the best of the first
\* n candidates of every prefix once, which are the selected ones.
Loop(t, r, n) ==
    /\ t \in Tables
    /\ \A i \in Slots : Like(t.rib[i], r[i])
    /\ t.count <= n /\ Used(t.fib) = 1 .. t.count
    /\ \A j \in Used(t.fib) : BestOf(t.fib[j], r, n)
    /\ \A j, k \in Used(t.fib) : SameNet(t.fib[j], t.fib[k]) => j = k
    /\ \A i \in Used(r) : i <= n => \E j \in Used(t.fib) : SameNet(t.fib[j], r[i])
    /\ \A i \in Used(r) :
          t.rib[i].selected <=> \E j \in Used(t.fib) : t.fib[j].index = i

Ribs == [Slots -> RibEntries \cup {NoRoute}]

\* An entry that is in use is one.
LEMMA EntryOf ==
    ASSUME NEW r \in Ribs, NEW i \in Used(r)
    PROVE  /\ r[i] \in RibEntries /\ Ranked(r[i]) /\ i \in Slots /\ r[i] # NoRoute
           /\ FibEntry(r[i], i) \in FibEntries
<1>1. r[i] \in RibEntries /\ i \in Slots /\ r[i] # NoRoute
  BY DEF Ribs, Used
<1>2. Ranked(r[i])
  <2>1. r[i].metric \in Metrics /\ r[i].sequence \in 1 .. MaxSequence
    BY <1>1 DEF RibEntries
  <2>2. r[i].metric \in Nat
    BY <2>1
  <2>3. r[i].sequence \in Nat
    BY <2>1
  <2>. QED  BY <2>2, <2>3 DEF Ranked
<1>3. FibEntry(r[i], i) \in FibEntries
  BY <1>1 DEF FibEntry, RibEntries, FibEntries
<1>. QED  BY <1>1, <1>2, <1>3

\* A set of slots that is not empty has a first one.
LEMMA FirstExists ==
    ASSUME NEW S \in SUBSET Slots, S # {}
    PROVE  First(S, CHOOSE i \in Slots : First(S, i))
<1>1. S \in SUBSET Nat
  OBVIOUS
<1>2. PICK m \in S : \A k \in S : m <= k
  BY <1>1, Least
<1>3. m \in Slots /\ First(S, m)
  BY <1>2 DEF First
<1>. QED  BY <1>3

LEMMA LoopStart ==
    ASSUME NEW r \in Ribs
    PROVE  Loop(Cleared(r), r, 0)
<1>. DEFINE t == Cleared(r)
<1>1. /\ t.rib = [i \in Slots |-> IF r[i] = NoRoute THEN NoRoute
                                  ELSE [r[i] EXCEPT !.selected = FALSE]]
      /\ t.fib = [i \in Slots |-> NoRoute] /\ t.count = 0
      /\ t = [rib |-> t.rib, fib |-> t.fib, count |-> t.count]
  BY DEF Cleared
<1>. HIDE DEF t
<1>2. ASSUME NEW i \in Slots, r[i] # NoRoute
      PROVE  /\ t.rib[i] = [r[i] EXCEPT !.selected = FALSE]
             /\ t.rib[i] \in RibEntries /\ ~t.rib[i].selected
             /\ t.rib[i] # NoRoute /\ Like(t.rib[i], r[i])
  <2>1. r[i] \in RibEntries /\ t.rib[i] = [r[i] EXCEPT !.selected = FALSE]
    BY <1>1, <1>2 DEF Ribs
  <2>2. t.rib[i] \in RibEntries /\ ~t.rib[i].selected
    BY <2>1 DEF RibEntries
  <2>3. t.rib[i] # NoRoute
    BY <2>2
  <2>4. Like(t.rib[i], r[i])
    BY <2>1, <2>3, <1>2 DEF Like, RibEntries
  <2>. QED  BY <2>1, <2>2, <2>3, <2>4
<1>3. ASSUME NEW i \in Slots, r[i] = NoRoute
      PROVE  t.rib[i] = NoRoute /\ Like(t.rib[i], r[i])
  BY <1>1, <1>3 DEF Like
<1>4. t.rib \in Ribs /\ DOMAIN t.rib = Slots
  <2>1. \A i \in Slots : t.rib[i] \in RibEntries \cup {NoRoute}
    BY <1>2, <1>3
  <2>. QED  BY <2>1, <1>1 DEF Ribs
<1>5. t \in Tables
  <2>1. t.fib \in [Slots -> FibEntries \cup {NoRoute}] /\ t.count \in Nat
    BY <1>1
  <2>2. t.rib \in [Slots -> RibEntries \cup {NoRoute}]
    BY <1>4 DEF Ribs
  <2>. QED  BY <1>1, <2>1, <2>2 DEF Tables
<1>6. Used(t.fib) = {}
  BY <1>1 DEF Used
<1>7. \A i \in Used(r) : ~t.rib[i].selected
  BY <1>2 DEF Used
<1>8. \A i \in Used(r) : ~(i <= 0)
  BY DEF Used
<1>9. Used(t.fib) = 1 .. t.count /\ t.count <= 0
  <2>1. t.count = 0 /\ 1 .. 0 = {}
    BY <1>1
  <2>. QED  BY <1>6, <2>1
<1>. QED  BY <1>2, <1>3, <1>5, <1>6, <1>7, <1>8, <1>9 DEF Loop, t

\* What Loop says, for a slot in use.
LEMMA LoopFacts ==
    ASSUME NEW r \in Ribs, NEW t, NEW m \in 0 .. Size, Loop(t, r, m)
    PROVE  /\ t.rib \in Ribs /\ t.fib \in [Slots -> FibEntries \cup {NoRoute}]
           /\ t.count \in 0 .. m /\ Used(t.rib) = Used(r)
           /\ \A i \in Used(r) :
                 /\ t.rib[i] \in RibEntries /\ Like(t.rib[i], r[i])
                 /\ FibEntry(t.rib[i], i) = FibEntry(r[i], i)
                 /\ SamePrefix(t, i) = {j \in Used(t.fib) : SameNet(t.fib[j], r[i])}
           /\ \A j \in Used(t.fib) :
                 /\ t.fib[j] \in FibEntries /\ t.fib[j].index \in Used(r)
                 /\ t.fib[j].index <= m /\ SameNet(t.fib[j], r[t.fib[j].index])
           /\ \A i, k \in Used(r) :
                 Better(t.rib[i], t.rib[k]) <=> Better(r[i], r[k])
<1>1. /\ t.rib \in Ribs /\ t.fib \in [Slots -> FibEntries \cup {NoRoute}]
      /\ t.count \in 0 .. m
  <2>1. t.count \in Nat /\ t.count <= m
    BY DEF Loop, Tables
  <2>2. t.rib \in Ribs /\ t.fib \in [Slots -> FibEntries \cup {NoRoute}]
    BY DEF Loop, Tables, Ribs
  <2>. QED  BY <2>1, <2>2
<1>2. Used(t.rib) = Used(r)
  BY DEF Loop, Like, Used
<1>3. ASSUME NEW i \in Used(r)
      PROVE  /\ t.rib[i] \in RibEntries /\ Like(t.rib[i], r[i])
             /\ t.rib[i] # NoRoute /\ r[i] # NoRoute
             /\ FibEntry(t.rib[i], i) = FibEntry(r[i], i)
             /\ SamePrefix(t, i) = {j \in Used(t.fib) : SameNet(t.fib[j], r[i])}
  <2>1. i \in Slots /\ r[i] # NoRoute
    BY DEF Used
  <2>2. Like(t.rib[i], r[i]) /\ t.rib[i] # NoRoute
    BY <2>1 DEF Loop, Like
  <2>3. t.rib[i] \in RibEntries
    BY <1>1, <2>1, <2>2 DEF Ribs
  <2>4. FibEntry(t.rib[i], i) = FibEntry(r[i], i)
    BY <2>1, <2>2 DEF Like, FibEntry
  <2>5. SamePrefix(t, i) = {j \in Used(t.fib) : SameNet(t.fib[j], r[i])}
    BY <2>1, <2>2 DEF Like, SamePrefix, SameNet
  <2>. QED  BY <2>1, <2>2, <2>3, <2>4, <2>5
<1>4. ASSUME NEW j \in Used(t.fib)
      PROVE  /\ t.fib[j] \in FibEntries /\ t.fib[j].index \in Used(r)
             /\ t.fib[j].index <= m /\ SameNet(t.fib[j], r[t.fib[j].index])
  <2>1. BestOf(t.fib[j], r, m)
    BY DEF Loop
  <2>2. t.fib[j] \in FibEntries
    BY <1>1 DEF Used
  <2>3. SameNet(t.fib[j], r[t.fib[j].index])
    <3>. DEFINE k == t.fib[j].index
                e == t.fib[j]
    <3>1. e = FibEntry(r[k], k)
      BY <2>1 DEF BestOf
    <3>. HIDE DEF k, e
    <3>2. e.prefix = r[k].prefix /\ e.len = r[k].len
      BY <3>1 DEF FibEntry
    <3>. QED  BY <3>2 DEF SameNet, k, e
  <2>. QED  BY <2>1, <2>2, <2>3 DEF BestOf
<1>5. ASSUME NEW i \in Used(r), NEW k \in Used(r)
      PROVE  Better(t.rib[i], t.rib[k]) <=> Better(r[i], r[k])
  BY <1>3 DEF Like, Better
<1>. QED  BY <1>1, <1>2, <1>3, <1>4, <1>5

\* The next slot of the RIB is not in use.
LEMMA InstallSkips ==
    ASSUME NEW r \in Ribs, NEW t, NEW n \in 1 .. Size, Loop(t, r, n - 1),
           n \notin Used(r)
    PROVE  Loop(t, r, n)
<1>1. ASSUME NEW k \in Used(r), k <= n PROVE k <= n - 1
  BY <1>1 DEF Used
<1>2. \A j \in Used(t.fib) : BestOf(t.fib[j], r, n)
  <2>1. ASSUME NEW e, BestOf(e, r, n - 1) PROVE BestOf(e, r, n)
    <3>1. e.index \in Nat
      BY <2>1 DEF BestOf, Used
    <3>2. e.index <= n
      BY <2>1, <3>1 DEF BestOf
    <3>. QED  BY <2>1, <1>1, <3>2 DEF BestOf
  <2>. QED  BY <2>1 DEF Loop
<1>3. t.count <= n
  BY DEF Loop, Tables
<1>. QED  BY <1>1, <1>2, <1>3 DEF Loop

\* The FIB has a candidate of the next one's prefix, which is not better.
LEMMA InstallKeeps ==
    ASSUME NEW r \in Ribs, NEW t, NEW n \in 1 .. Size, Loop(t, r, n - 1),
           n \in Used(r), NEW j \in SamePrefix(t, n),
           ~Better(t.rib[n], t.rib[t.fib[j].index])
    PROVE  Loop(t, r, n)
<1>1. n - 1 \in 0 .. Size
  OBVIOUS
<1>2. /\ j \in Used(t.fib) /\ SameNet(t.fib[j], r[n])
      /\ t.fib[j].index \in Used(r) /\ SameNet(t.fib[j], r[t.fib[j].index])
      /\ ~Better(r[n], r[t.fib[j].index])
  <2>1. SamePrefix(t, n) = {l \in Used(t.fib) : SameNet(t.fib[l], r[n])}
    BY <1>1, LoopFacts
  <2>2. j \in Used(t.fib) /\ SameNet(t.fib[j], r[n])
    BY <2>1
  <2>3. t.fib[j].index \in Used(r) /\ SameNet(t.fib[j], r[t.fib[j].index])
    BY <2>2, <1>1, LoopFacts
  <2>4. ~Better(r[n], r[t.fib[j].index])
    BY <2>3, <1>1, LoopFacts
  <2>. QED  BY <2>2, <2>3, <2>4
<1>3. ASSUME NEW l \in Used(t.fib) PROVE BestOf(t.fib[l], r, n)
  <2>. DEFINE i == t.fib[l].index
  <2>1. BestOf(t.fib[l], r, n - 1)
    BY DEF Loop
  <2>2. i \in Used(r) /\ i <= n - 1 /\ i \in Nat
    BY <2>1 DEF BestOf, Used
  <2>3. SameNet(t.fib[l], r[i])
    BY <1>1, LoopFacts
  <2>4. ASSUME NEW k \in Used(r), k <= n, SameNet(r[k], r[i])
        PROVE  ~Better(r[k], r[i])
    <3>1. CASE k # n
      <4>1. k <= n - 1
        BY <2>4, <3>1 DEF Used
      <4>. QED  BY <4>1, <2>1, <2>4 DEF BestOf
    <3>2. CASE k = n
      <4>1. SameNet(t.fib[l], t.fib[j])
        BY <3>2, <2>3, <2>4, <1>2 DEF SameNet
      <4>2. l = j
        BY <4>1, <1>2 DEF Loop
      <4>. QED  BY <4>2, <3>2, <1>2
    <3>. QED  BY <3>1, <3>2
  <2>5. i <= n
    BY <2>2
  <2>. QED  BY <2>1, <2>2, <2>4, <2>5 DEF BestOf
<1>4. ASSUME NEW i \in Used(r), i <= n
      PROVE  \E l \in Used(t.fib) : SameNet(t.fib[l], r[i])
  <2>1. CASE i = n
    BY <2>1, <1>2
  <2>2. CASE i # n
    <3>1. i <= n - 1
      BY <1>4, <2>2 DEF Used
    <3>. QED  BY <3>1 DEF Loop
  <2>. QED  BY <2>1, <2>2
<1>5. t.count <= n
  BY DEF Loop, Tables
<1>. QED  BY <1>3, <1>4, <1>5 DEF Loop

Flagged(u, i)   == [u EXCEPT ![i].selected = TRUE]
Unflagged(u, i) == [u EXCEPT ![i].selected = FALSE]

\* Setting the flag of a slot in use.
LEMMA FlagSet ==
    ASSUME NEW r \in Ribs, NEW u \in Ribs, \A i \in Slots : Like(u[i], r[i]),
           NEW i \in Used(r)
    PROVE  /\ Flagged(u, i) \in Ribs
           /\ \A k \in Slots : Like(Flagged(u, i)[k], r[k])
           /\ Flagged(u, i)[i].selected
           /\ \A k \in Slots : k # i => Flagged(u, i)[k] = u[k]
<1>. DEFINE e == [u[i] EXCEPT !.selected = TRUE]
            v == Flagged(u, i)
<1>1. i \in Slots /\ u[i] # NoRoute /\ r[i] # NoRoute /\ u[i] \in RibEntries
  BY DEF Used, Like, Ribs
<1>2. e \in RibEntries /\ e.selected
  BY <1>1 DEF RibEntries
<1>3. Like(e, r[i])
  <2>1. Like(u[i], r[i])
    BY <1>1
  <2>2. /\ e.prefix = u[i].prefix /\ e.len = u[i].len /\ e.proto = u[i].proto
        /\ e.via = u[i].via /\ e.metric = u[i].metric /\ e.sequence = u[i].sequence
    BY <1>1 DEF RibEntries
  <2>3. e # NoRoute
    BY <1>2
  <2>. HIDE DEF e
  <2>. QED  BY <2>1, <2>2, <2>3, <1>1 DEF Like
<1>4. v = [u EXCEPT ![i] = e]
  BY DEF Flagged
<1>. HIDE DEF e, v
<1>5. v \in Ribs
  BY <1>2, <1>4 DEF Ribs
<1>6. v[i] = e /\ \A k \in Slots : k # i => v[k] = u[k]
  BY <1>1, <1>4 DEF Ribs
<1>7. \A k \in Slots : Like(v[k], r[k])
  BY <1>3, <1>6
<1>. QED  BY <1>2, <1>5, <1>6, <1>7 DEF v

\* Clearing the flag of a slot in use.
LEMMA FlagCleared ==
    ASSUME NEW r \in Ribs, NEW u \in Ribs, \A i \in Slots : Like(u[i], r[i]),
           NEW i \in Used(r)
    PROVE  /\ Unflagged(u, i) \in Ribs
           /\ \A k \in Slots : Like(Unflagged(u, i)[k], r[k])
           /\ ~Unflagged(u, i)[i].selected
           /\ \A k \in Slots : k # i => Unflagged(u, i)[k] = u[k]
<1>. DEFINE e == [u[i] EXCEPT !.selected = FALSE]
            v == Unflagged(u, i)
<1>1. i \in Slots /\ u[i] # NoRoute /\ r[i] # NoRoute /\ u[i] \in RibEntries
  BY DEF Used, Like, Ribs
<1>2. e \in RibEntries /\ ~e.selected
  BY <1>1 DEF RibEntries
<1>3. Like(e, r[i])
  <2>1. Like(u[i], r[i])
    BY <1>1
  <2>2. /\ e.prefix = u[i].prefix /\ e.len = u[i].len /\ e.proto = u[i].proto
        /\ e.via = u[i].via /\ e.metric = u[i].metric /\ e.sequence = u[i].sequence
    BY <1>1 DEF RibEntries
  <2>3. e # NoRoute
    BY <1>2
  <2>. HIDE DEF e
  <2>. QED  BY <2>1, <2>2, <2>3, <1>1 DEF Like
<1>4. v = [u EXCEPT ![i] = e]
  BY DEF Unflagged
<1>. HIDE DEF e, v
<1>5. v \in Ribs
  BY <1>2, <1>4 DEF Ribs
<1>6. v[i] = e /\ \A k \in Slots : k # i => v[k] = u[k]
  BY <1>1, <1>4 DEF Ribs
<1>7. \A k \in Slots : Like(v[k], r[k])
  BY <1>3, <1>6
<1>. QED  BY <1>2, <1>5, <1>6, <1>7 DEF v

\* An entry of another prefix stays the best of its own.
LEMMA BestStays ==
    ASSUME NEW r \in Ribs, NEW t, NEW n \in 1 .. Size, Loop(t, r, n - 1),
           NEW l \in Used(t.fib), n \in Used(r) => ~SameNet(t.fib[l], r[n])
    PROVE  BestOf(t.fib[l], r, n)
<1>. DEFINE i == t.fib[l].index
<1>1. BestOf(t.fib[l], r, n - 1)
  BY DEF Loop
<1>2. i \in Used(r) /\ i <= n /\ i \in Nat
  BY <1>1 DEF BestOf, Used
<1>3. SameNet(t.fib[l], r[i])
  <2>1. n - 1 \in 0 .. Size
    OBVIOUS
  <2>. QED  BY <2>1, LoopFacts
<1>4. ASSUME NEW k \in Used(r), k <= n, SameNet(r[k], r[i])
      PROVE  ~Better(r[k], r[i])
  <2>1. k # n
    BY <1>3, <1>4 DEF SameNet
  <2>2. k <= n - 1
    BY <1>4, <2>1 DEF Used
  <2>. QED  BY <2>2, <1>1, <1>4 DEF BestOf
<1>. QED  BY <1>1, <1>2, <1>4 DEF BestOf

\* The next candidate is better than the one the FIB has of its prefix.
LEMMA InstallReplaces ==
    ASSUME NEW r \in Ribs, NEW t, NEW n \in 1 .. Size, Loop(t, r, n - 1),
           n \in Used(r), NEW j \in SamePrefix(t, n),
           Better(t.rib[n], t.rib[t.fib[j].index])
    PROVE  Loop(Replace(t, n, j), r, n)
<1>. DEFINE c  == t.fib[j].index
            e  == FibEntry(r[n], n)
            u  == Unflagged(t.rib, c)
            v  == Flagged(u, n)
            g  == [t.fib EXCEPT ![j] = e]
            t2 == Replace(t, n, j)
<1>1. n - 1 \in 0 .. Size
  OBVIOUS
<1>2. /\ j \in Used(t.fib) /\ SameNet(t.fib[j], r[n]) /\ c \in Used(r) /\ c <= n - 1
      /\ SameNet(t.fib[j], r[c]) /\ Better(r[n], r[c])
      /\ FibEntry(t.rib[n], n) = e /\ t.rib \in Ribs
      /\ t.fib \in [Slots -> FibEntries \cup {NoRoute}] /\ t.count \in 0 .. n - 1
      /\ e \in FibEntries
  <2>1. SamePrefix(t, n) = {l \in Used(t.fib) : SameNet(t.fib[l], r[n])}
        /\ FibEntry(t.rib[n], n) = e
    BY <1>1, LoopFacts
  <2>2. j \in Used(t.fib) /\ SameNet(t.fib[j], r[n])
    BY <2>1
  <2>3. c \in Used(r) /\ c <= n - 1 /\ SameNet(t.fib[j], r[c])
    BY <2>2, <1>1, LoopFacts
  <2>4. Better(r[n], r[c])
    BY <2>3, <1>1, LoopFacts
  <2>5. /\ t.rib \in Ribs /\ t.fib \in [Slots -> FibEntries \cup {NoRoute}]
        /\ t.count \in 0 .. n - 1
    BY <1>1, LoopFacts
  <2>6. e \in FibEntries
    BY EntryOf
  <2>. QED  BY <2>1, <2>2, <2>3, <2>4, <2>5, <2>6
<1>3. c \in Slots /\ n \in Slots /\ c # n /\ j \in Slots
  BY <1>2 DEF Used
<1>4. t = [rib |-> t.rib, fib |-> t.fib, count |-> t.count]
  BY DEF Loop, Tables
<1>5. t2.rib = v /\ t2.fib = g /\ t2.count = t.count /\ t2 = [rib |-> v, fib |-> g, count |-> t.count]
  <2>1. t2 = [t EXCEPT !.fib[j] = e,
                       !.rib = [@ EXCEPT ![c].selected = FALSE, ![n].selected = TRUE]]
    BY <1>2 DEF Replace
  <2>2. [t.rib EXCEPT ![c].selected = FALSE, ![n].selected = TRUE] = v
    BY DEF Flagged, Unflagged
  <2>. HIDE DEF v, c, e
  <2>. QED  BY <1>4, <2>1, <2>2
<1>6. u \in Ribs /\ (\A k \in Slots : Like(u[k], r[k])) /\ ~u[c].selected
      /\ \A k \in Slots : k # c => u[k] = t.rib[k]
  <2>1. \A k \in Slots : Like(t.rib[k], r[k])
    BY DEF Loop
  <2>. HIDE DEF c
  <2>. QED  BY <2>1, <1>2, FlagCleared
<1>. HIDE DEF u
<1>7. v \in Ribs /\ (\A k \in Slots : Like(v[k], r[k])) /\ v[n].selected
      /\ \A k \in Slots : k # n => v[k] = u[k]
  BY <1>6, FlagSet
<1>. HIDE DEF v, e
<1>8. g[j] = e /\ (\A l \in Slots : l # j => g[l] = t.fib[l])
      /\ g \in [Slots -> FibEntries \cup {NoRoute}] /\ Used(g) = Used(t.fib)
  <2>1. g[j] = e /\ (\A l \in Slots : l # j => g[l] = t.fib[l])
        /\ g \in [Slots -> FibEntries \cup {NoRoute}]
    BY <1>2, <1>3
  <2>2. e # NoRoute
    BY <1>2
  <2>3. j \in Used(t.fib)
    BY <1>2
  <2>. HIDE DEF g
  <2>4. \A l \in Slots : g[l] # NoRoute <=> t.fib[l] # NoRoute
    BY <2>1, <2>2, <2>3 DEF Used
  <2>5. Used(g) = Used(t.fib)
    BY <2>4 DEF Used
  <2>. QED  BY <2>1, <2>5
<1>. HIDE DEF g, t2
<1>9. t2 \in Tables
  <2>1. v \in [Slots -> RibEntries \cup {NoRoute}]
    BY <1>7 DEF Ribs
  <2>2. t.count \in Nat
    BY <1>2
  <2>. QED  BY <1>5, <1>8, <2>1, <2>2 DEF Tables
<1>10. e.index = n /\ SameNet(e, r[n])
  BY DEF e, FibEntry, SameNet
<1>11. ASSUME NEW l \in Used(t2.fib) PROVE BestOf(t2.fib[l], r, n)
  <2>1. CASE l # j
    <3>1. l \in Used(t.fib) /\ t2.fib[l] = t.fib[l]
      BY <2>1, <1>5, <1>8 DEF Used
    <3>2. ~SameNet(t.fib[l], r[n])
      <4>1. SUFFICES ASSUME SameNet(t.fib[l], r[n]) PROVE FALSE
        OBVIOUS
      <4>2. SameNet(t.fib[l], t.fib[j])
        BY <4>1, <1>2 DEF SameNet
      <4>. QED  BY <4>2, <3>1, <1>2, <2>1 DEF Loop
    <3>. QED  BY <3>1, <3>2, BestStays
  <2>2. CASE l = j
    <3>1. t2.fib[l] = e
      BY <2>2, <1>5, <1>8
    <3>2. ASSUME NEW k \in Used(r), k <= n, SameNet(r[k], r[n])
          PROVE  ~Better(r[k], r[n])
      <4>1. Ranked(r[k]) /\ Ranked(r[n]) /\ Ranked(r[c])
        BY <1>2, EntryOf
      <4>2. CASE k = n
        BY <4>1, <4>2, BetterIsOrder
      <4>3. CASE k # n
        <5>1. k <= n - 1
          BY <3>2, <4>3 DEF Used
        <5>2. SameNet(r[k], r[c])
          BY <3>2, <1>2 DEF SameNet
        <5>3. ~Better(r[k], r[c])
          BY <5>1, <5>2, <1>2 DEF Loop, BestOf
        <5>. QED  BY <4>1, <5>3, <1>2, BetterIsOrder
      <4>. QED  BY <4>2, <4>3
    <3>. QED  BY <3>1, <3>2, <1>10 DEF BestOf, e
  <2>. QED  BY <2>1, <2>2
<1>12. ASSUME NEW l \in Used(t2.fib) PROVE SameNet(t2.fib[l], t.fib[l])
  <2>1. CASE l = j
    BY <2>1, <1>2, <1>5, <1>8, <1>10 DEF SameNet
  <2>2. CASE l # j
    BY <2>2, <1>5, <1>8 DEF SameNet, Used
  <2>. QED  BY <2>1, <2>2
<1>13. \A l, k \in Used(t2.fib) : SameNet(t2.fib[l], t2.fib[k]) => l = k
  <2>1. \A l, k \in Used(t.fib) : SameNet(t.fib[l], t.fib[k]) => l = k
    BY DEF Loop
  <2>. QED  BY <2>1, <1>5, <1>8, <1>12 DEF SameNet
<1>14. ASSUME NEW i \in Used(r), i <= n
       PROVE  \E l \in Used(t2.fib) : SameNet(t2.fib[l], r[i])
  <2>1. PICK l \in Used(t.fib) : SameNet(t.fib[l], r[i])
    <3>1. CASE i = n
      BY <3>1, <1>2
    <3>2. CASE i # n
      <4>1. i <= n - 1
        BY <3>2, <1>14 DEF Used
      <4>. QED  BY <4>1 DEF Loop
    <3>. QED  BY <3>1, <3>2
  <2>2. l \in Used(t2.fib) /\ SameNet(t2.fib[l], t.fib[l])
    BY <2>1, <1>5, <1>8, <1>12
  <2>. QED  BY <2>1, <2>2 DEF SameNet
<1>15. ASSUME NEW i \in Used(r)
       PROVE  t2.rib[i].selected <=> \E l \in Used(t2.fib) : t2.fib[l].index = i
  <2>0. i \in Slots
    BY DEF Used
  <2>1. t.rib[i].selected <=> \E l \in Used(t.fib) : t.fib[l].index = i
    BY DEF Loop
  <2>2. CASE i = n
    BY <2>2, <1>2, <1>5, <1>7, <1>8, <1>10
  <2>3. CASE i = c /\ i # n
    <3>1. ~t2.rib[i].selected
      BY <2>3, <2>0, <1>5, <1>6, <1>7
    <3>2. ASSUME NEW l \in Used(t2.fib), t2.fib[l].index = i PROVE FALSE
      <4>1. l # j
        BY <3>2, <2>3, <1>5, <1>8, <1>10
      <4>2. l \in Used(t.fib) /\ t.fib[l].index = c
        BY <3>2, <4>1, <2>3, <1>5, <1>8 DEF Used
      <4>3. SameNet(t.fib[l], r[c])
        BY <4>2, <1>1, LoopFacts
      <4>4. SameNet(t.fib[l], t.fib[j])
        BY <4>3, <1>2 DEF SameNet
      <4>. QED  BY <4>1, <4>2, <4>4, <1>2 DEF Loop
    <3>. QED  BY <3>1, <3>2
  <2>4. CASE i # n /\ i # c
    <3>1. t2.rib[i] = t.rib[i]
      BY <2>4, <2>0, <1>5, <1>6, <1>7
    <3>2. \A l \in Used(t.fib) : t.fib[l].index = i <=> t2.fib[l].index = i
      BY <2>4, <1>5, <1>8, <1>10 DEF Used
    <3>. QED  BY <2>1, <3>1, <3>2, <1>5, <1>8
  <2>. QED  BY <2>2, <2>3, <2>4
<1>16. t2.count <= n /\ Used(t2.fib) = 1 .. t2.count
  <2>1. Used(t.fib) = 1 .. t.count
    BY DEF Loop
  <2>. QED  BY <2>1, <1>2, <1>5, <1>8
<1>17. Loop(t2, r, n)
  BY <1>5, <1>7, <1>9, <1>11, <1>13, <1>14, <1>15, <1>16 DEF Loop
<1>. QED  BY <1>17 DEF t2

\* The next candidate is the first of its prefix: it gets the next slot.
LEMMA InstallAdds ==
    ASSUME NEW r \in Ribs, NEW t, NEW n \in 1 .. Size, Loop(t, r, n - 1),
           n \in Used(r), SamePrefix(t, n) = {}
    PROVE  Loop(InstallNew(t, n, t.count + 1), r, n)
<1>. DEFINE j  == t.count + 1
            e  == FibEntry(r[n], n)
            v  == Flagged(t.rib, n)
            g  == [t.fib EXCEPT ![j] = e]
            t2 == InstallNew(t, n, j)
<1>1. n - 1 \in 0 .. Size
  OBVIOUS
<1>2. /\ \A l \in Used(t.fib) : ~SameNet(t.fib[l], r[n])
      /\ FibEntry(t.rib[n], n) = e /\ t.rib \in Ribs
      /\ t.fib \in [Slots -> FibEntries \cup {NoRoute}] /\ t.count \in 0 .. n - 1
      /\ e \in FibEntries
  <2>1. SamePrefix(t, n) = {l \in Used(t.fib) : SameNet(t.fib[l], r[n])}
        /\ FibEntry(t.rib[n], n) = e
    BY <1>1, LoopFacts
  <2>2. /\ t.rib \in Ribs /\ t.fib \in [Slots -> FibEntries \cup {NoRoute}]
        /\ t.count \in 0 .. n - 1
    BY <1>1, LoopFacts
  <2>3. e \in FibEntries
    BY EntryOf
  <2>. QED  BY <2>1, <2>2, <2>3
<1>3. j \in Slots /\ n \in Slots /\ j \notin Used(t.fib) /\ Used(t.fib) = 1 .. t.count
  <2>1. Used(t.fib) = 1 .. t.count
    BY DEF Loop
  <2>. QED  BY <2>1, <1>2
<1>4. t = [rib |-> t.rib, fib |-> t.fib, count |-> t.count]
  BY DEF Loop, Tables
<1>5. /\ t2.rib = v /\ t2.fib = g /\ t2.count = j
      /\ t2 = [rib |-> v, fib |-> g, count |-> j]
  <2>1. t2 = [t EXCEPT !.fib[j] = e, !.rib[n].selected = TRUE, !.count = @ + 1]
    BY <1>2 DEF InstallNew
  <2>2. t2 = [rib |-> [t.rib EXCEPT ![n].selected = TRUE], fib |-> g, count |-> j]
    <3>. HIDE DEF e
    <3>. QED  BY <1>4, <2>1
  <2>3. v = [t.rib EXCEPT ![n].selected = TRUE]
    BY DEF Flagged
  <2>. HIDE DEF v, e, j, g, t2
  <2>. QED  BY <2>2, <2>3
<1>6. v \in Ribs /\ (\A k \in Slots : Like(v[k], r[k])) /\ v[n].selected
      /\ \A k \in Slots : k # n => v[k] = t.rib[k]
  <2>1. \A k \in Slots : Like(t.rib[k], r[k])
    BY DEF Loop
  <2>. QED  BY <2>1, <1>2, FlagSet
<1>. HIDE DEF v, e, j
<1>7. g[j] = e /\ (\A l \in Slots : l # j => g[l] = t.fib[l])
      /\ g \in [Slots -> FibEntries \cup {NoRoute}] /\ Used(g) = Used(t.fib) \cup {j}
  <2>1. g[j] = e /\ (\A l \in Slots : l # j => g[l] = t.fib[l])
        /\ g \in [Slots -> FibEntries \cup {NoRoute}]
    BY <1>2, <1>3
  <2>2. e # NoRoute
    BY <1>2
  <2>. HIDE DEF g
  <2>. QED  BY <2>1, <2>2, <1>3 DEF Used
<1>. HIDE DEF g, t2
<1>8. t2 \in Tables
  <2>1. v \in [Slots -> RibEntries \cup {NoRoute}]
    BY <1>6 DEF Ribs
  <2>2. j \in Nat
    BY <1>3
  <2>. QED  BY <1>5, <1>7, <2>1, <2>2 DEF Tables
<1>9. e.index = n /\ SameNet(e, r[n]) /\ e = FibEntry(r[n], n)
  BY DEF e, FibEntry, SameNet
<1>10. ASSUME NEW l \in Used(t.fib)
       PROVE  /\ l # j /\ l \in Used(t2.fib) /\ t2.fib[l] = t.fib[l]
              /\ t2.fib[l].index # n
  <2>1. l # j /\ l \in Used(t2.fib) /\ t2.fib[l] = t.fib[l]
    BY <1>3, <1>5, <1>7 DEF Used
  <2>2. t.fib[l].index <= n - 1 /\ t.fib[l].index \in Used(r)
    BY <1>1, LoopFacts
  <2>3. t.fib[l].index # n
    BY <2>2 DEF Used
  <2>. QED  BY <2>1, <2>3
<1>11. j \in Used(t2.fib) /\ t2.fib[j] = e /\ Used(t2.fib) = Used(t.fib) \cup {j}
  BY <1>5, <1>7
<1>12. ASSUME NEW l \in Used(t2.fib) PROVE BestOf(t2.fib[l], r, n)
  <2>1. CASE l \in Used(t.fib)
    <3>1. BestOf(t.fib[l], r, n)
      BY <2>1, <1>2, BestStays
    <3>. QED  BY <2>1, <3>1, <1>10
  <2>2. CASE l = j
    <3>1. ASSUME NEW k \in Used(r), k <= n, SameNet(r[k], r[n])
          PROVE  ~Better(r[k], r[n])
      <4>1. CASE k = n
        BY <4>1, EntryOf, BetterIsOrder
      <4>2. CASE k # n
        <5>1. k <= n - 1
          BY <3>1, <4>2 DEF Used
        <5>2. PICK m \in Used(t.fib) : SameNet(t.fib[m], r[k])
          BY <5>1 DEF Loop
        <5>. QED  BY <5>2, <3>1, <1>2 DEF SameNet
      <4>. QED  BY <4>1, <4>2
    <3>2. BestOf(e, r, n)
      BY <3>1, <1>9 DEF BestOf
    <3>. QED  BY <3>2, <2>2, <1>11
  <2>. QED  BY <2>1, <2>2, <1>11
<1>13. ASSUME NEW l \in Used(t2.fib), NEW k \in Used(t2.fib),
              SameNet(t2.fib[l], t2.fib[k])
       PROVE  l = k
  <2>1. CASE l \in Used(t.fib) /\ k \in Used(t.fib)
    BY <2>1, <1>10, <1>13 DEF Loop
  <2>2. CASE l = j /\ k \in Used(t.fib)
    BY <2>2, <1>2, <1>9, <1>10, <1>11, <1>13 DEF SameNet
  <2>3. CASE l \in Used(t.fib) /\ k = j
    BY <2>3, <1>2, <1>9, <1>10, <1>11, <1>13 DEF SameNet
  <2>. QED  BY <2>1, <2>2, <2>3, <1>11
<1>14. ASSUME NEW i \in Used(r), i <= n
       PROVE  \E l \in Used(t2.fib) : SameNet(t2.fib[l], r[i])
  <2>1. CASE i = n
    BY <2>1, <1>9, <1>11
  <2>2. CASE i # n
    <3>1. i <= n - 1
      BY <1>14, <2>2 DEF Used
    <3>2. PICK l \in Used(t.fib) : SameNet(t.fib[l], r[i])
      BY <3>1 DEF Loop
    <3>. QED  BY <3>2, <1>10
  <2>. QED  BY <2>1, <2>2
<1>15. ASSUME NEW i \in Used(r)
       PROVE  t2.rib[i].selected <=> \E l \in Used(t2.fib) : t2.fib[l].index = i
  <2>0. i \in Slots
    BY DEF Used
  <2>1. CASE i = n
    BY <2>1, <1>5, <1>6, <1>9, <1>11
  <2>2. CASE i # n
    <3>1. t2.rib[i] = t.rib[i]
      BY <2>0, <2>2, <1>5, <1>6
    <3>2. t.rib[i].selected <=> \E l \in Used(t.fib) : t.fib[l].index = i
      BY DEF Loop
    <3>. QED  BY <2>2, <3>1, <3>2, <1>9, <1>10, <1>11
  <2>. QED  BY <2>1, <2>2
<1>16. t2.count <= n /\ Used(t2.fib) = 1 .. t2.count
  <2>1. t.count \in Nat /\ t.count <= n - 1 /\ j = t.count + 1
    BY <1>2 DEF j
  <2>2. (1 .. t.count) \cup {j} = 1 .. j /\ j <= n
    BY <2>1
  <2>3. Used(t2.fib) = (1 .. t.count) \cup {j}
    BY <1>3, <1>11
  <2>. QED  BY <2>2, <2>3, <1>5
<1>17. Loop(t2, r, n)
  BY <1>5, <1>6, <1>8, <1>12, <1>13, <1>14, <1>15, <1>16 DEF Loop
<1>. QED  BY <1>17 DEF t2, j

\* One iteration keeps Loop.
LEMMA InstallStep ==
    ASSUME NEW r \in Ribs, NEW t, NEW n \in 1 .. Size, Loop(t, r, n - 1)
    PROVE  Loop(Install(t, n), r, n)
<1>1. n - 1 \in 0 .. Size /\ n \in Slots
  OBVIOUS
<1>2. Used(t.rib) = Used(r)
  BY <1>1, LoopFacts
<1>3. CASE t.rib[n] = NoRoute
  <2>1. n \notin Used(r)
    BY <1>2, <1>3 DEF Used
  <2>2. Install(t, n) = t
    BY <1>3 DEF Install
  <2>. QED  BY <2>1, <2>2, InstallSkips
<1>4. CASE t.rib[n] # NoRoute /\ SamePrefix(t, n) # {}
  <2>. DEFINE j == CHOOSE j \in Slots : First(SamePrefix(t, n), j)
  <2>1. n \in Used(r)
    BY <1>1, <1>2, <1>4 DEF Used
  <2>2. SamePrefix(t, n) \in SUBSET Slots
    BY DEF SamePrefix, Used
  <2>3. First(SamePrefix(t, n), j)
    BY <1>4, <2>2, FirstExists
  <2>4. Install(t, n) = IF Better(t.rib[n], t.rib[t.fib[j].index])
                        THEN Replace(t, n, j) ELSE t
    BY <1>4 DEF Install
  <2>. HIDE DEF j
  <2>5. j \in SamePrefix(t, n)
    BY <2>3 DEF First
  <2>6. CASE Better(t.rib[n], t.rib[t.fib[j].index])
    <3>1. Install(t, n) = Replace(t, n, j)
      BY <2>4, <2>6
    <3>. QED  BY <2>1, <2>5, <2>6, <3>1, InstallReplaces
  <2>7. CASE ~Better(t.rib[n], t.rib[t.fib[j].index])
    <3>1. Install(t, n) = t
      BY <2>4, <2>7
    <3>. QED  BY <2>1, <2>5, <2>7, <3>1, InstallKeeps
  <2>. QED  BY <2>6, <2>7
<1>5. CASE t.rib[n] # NoRoute /\ SamePrefix(t, n) = {}
  <2>. DEFINE j == CHOOSE j \in Slots : First(Slots \ Used(t.fib), j)
  <2>1. n \in Used(r)
    BY <1>1, <1>2, <1>5 DEF Used
  <2>2. t.count \in 0 .. n - 1 /\ Used(t.fib) = 1 .. t.count
    <3>1. t.count \in 0 .. n - 1
      BY <1>1, LoopFacts
    <3>. QED  BY <3>1 DEF Loop
  <2>3. t.count + 1 \in Slots \ Used(t.fib)
    BY <2>2
  <2>4. First(Slots \ Used(t.fib), j)
    <3>1. Slots \ Used(t.fib) \in SUBSET Slots /\ Slots \ Used(t.fib) # {}
      BY <2>3
    <3>. QED  BY <3>1, FirstExists
  <2>5. Install(t, n) = InstallNew(t, n, j)
    BY <1>5 DEF Install
  <2>. HIDE DEF j
  <2>6. j = t.count + 1
    <3>1. j \in Slots /\ j \notin 1 .. t.count /\ j <= t.count + 1
      BY <2>2, <2>3, <2>4 DEF First
    <3>. QED  BY <3>1, <2>2
  <2>. QED  BY <1>5, <2>1, <2>5, <2>6, InstallAdds
<1>. QED  BY <1>3, <1>4, <1>5

\* The rebuild leaves the FIB with the best candidate of every prefix.
LEMMA RebuildLoop ==
    ASSUME NEW r \in Ribs
    PROVE  Loop(Rebuilt(r), r, Size)
<1>1. PICK run : /\ run[0] = Cleared(r)
                 /\ \A n \in 1 .. Size : run[n] = Install(run[n - 1], n)
                 /\ Rebuilt(r) = run[Size]
  BY RunExists
<1>. DEFINE T == {n \in Nat : n <= Size => Loop(run[n], r, n)}
<1>2. 0 \in T
  BY <1>1, LoopStart
<1>3. ASSUME NEW n \in T PROVE n + 1 \in T
  <2>1. CASE n + 1 <= Size
    <3>1. n + 1 \in 1 .. Size /\ (n + 1) - 1 = n /\ n <= Size
      BY <2>1
    <3>2. Loop(run[n], r, (n + 1) - 1) /\ run[n + 1] = Install(run[n], n + 1)
      BY <1>1, <3>1
    <3>3. Loop(run[n + 1], r, n + 1)
      BY <3>1, <3>2, InstallStep
    <3>. QED  BY <3>3
  <2>2. CASE ~(n + 1 <= Size)
    BY <2>2
  <2>. QED  BY <2>1, <2>2
<1>4. T = Nat
  <2>1. T \in SUBSET Nat
    OBVIOUS
  <2>. HIDE DEF T
  <2>. QED  BY <1>2, <1>3, <2>1, Induction
<1>5. Size \in T
  BY <1>4
<1>6. Loop(run[Size], r, Size)
  BY <1>5
<1>. QED  BY <1>1, <1>6

\* The loop's invariant is one about the RIB that the loop leaves.
LEMMA LoopOwn ==
    ASSUME NEW r \in Ribs, NEW t, Loop(t, r, Size)
    PROVE  Loop(t, t.rib, Size)
<1>1. Size \in 0 .. Size
  OBVIOUS
<1>2. t.rib \in Ribs /\ Used(t.rib) = Used(r)
  BY <1>1, LoopFacts
<1>3. ASSUME NEW i \in Used(r)
      PROVE  /\ SameNet(t.rib[i], r[i])
             /\ FibEntry(t.rib[i], i) = FibEntry(r[i], i)
  <2>1. Like(t.rib[i], r[i]) /\ FibEntry(t.rib[i], i) = FibEntry(r[i], i) /\ r[i] # NoRoute
    <3>1. r[i] # NoRoute
      BY DEF Used
    <3>. QED  BY <1>1, <3>1, LoopFacts
  <2>. QED  BY <2>1 DEF Like, SameNet
<1>4. ASSUME NEW i \in Used(r), NEW k \in Used(r)
      PROVE  Better(t.rib[i], t.rib[k]) <=> Better(r[i], r[k])
  BY <1>1, LoopFacts
<1>5. ASSUME NEW e, BestOf(e, r, Size) PROVE BestOf(e, t.rib, Size)
  <2>1. e.index \in Used(r) /\ e.index <= Size /\ e = FibEntry(r[e.index], e.index)
    BY <1>5 DEF BestOf
  <2>2. e = FibEntry(t.rib[e.index], e.index)
    BY <2>1, <1>3
  <2>3. ASSUME NEW k \in Used(r), k <= Size, SameNet(t.rib[k], t.rib[e.index])
        PROVE  ~Better(t.rib[k], t.rib[e.index])
    <3>1. SameNet(r[k], r[e.index])
      BY <2>1, <2>3, <1>3 DEF SameNet
    <3>2. ~Better(r[k], r[e.index])
      BY <3>1, <2>3, <1>5 DEF BestOf
    <3>. QED  BY <3>2, <2>1, <1>4
  <2>. QED  BY <2>1, <2>2, <2>3, <1>2 DEF BestOf
<1>6. ASSUME NEW i \in Used(t.rib), i <= Size
      PROVE  \E j \in Used(t.fib) : SameNet(t.fib[j], t.rib[i])
  <2>1. PICK j \in Used(t.fib) : SameNet(t.fib[j], r[i])
    BY <1>2, <1>6 DEF Loop
  <2>. QED  BY <2>1, <1>2, <1>3 DEF SameNet
<1>7. \A i \in Slots : Like(t.rib[i], t.rib[i])
  BY DEF Like
<1>. QED  BY <1>2, <1>5, <1>6, <1>7 DEF Loop

-----------------------------------------------------------------------------
(***************************************************************************)
(* The invariant of the table.                                             *)
(***************************************************************************)
\* RIB r with its counters: prefixes are masked, no two slots hold the same key
\* or the same sequence, and the next sequence is later than all.
RibInv(r, c, s) ==
    /\ r \in Ribs /\ c = Cardinality(Used(r)) /\ s \in 1 .. MaxSequence
    /\ \A i \in Used(r) : /\ r[i].prefix % Block[Width - r[i].len] = 0
                          /\ r[i].sequence < s
    /\ \A i, k \in Used(r) :
          SameNet(r[i], r[k]) /\ r[i].proto = r[k].proto => i = k
    /\ \A i, k \in Used(r) : r[i].sequence = r[k].sequence => i = k

\* The invariant: the rebuild was the last thing to happen to the RIB.
RouteInv ==
    /\ RibInv(rib, ribCount, nextSequence)
    /\ Loop([rib |-> rib, fib |-> fib, count |-> fibCount], rib, Size)

\* Slots, and the used ones, are finitely many.
LEMMA UsedFinite ==
    ASSUME NEW r
    PROVE  /\ IsFiniteSet(Used(r)) /\ Cardinality(Used(r)) \in Nat
           /\ Used(r) \subseteq Slots
<1>1. IsFiniteSet(Slots)
  BY FS_Interval
<1>2. Used(r) \subseteq Slots
  BY DEF Used
<1>. QED  BY <1>1, <1>2, FS_Subset, FS_CardinalityType

\* Selecting is no change of the RIB.
LEMMA RibInvLike ==
    ASSUME NEW r, NEW c, NEW s, RibInv(r, c, s),
           NEW u \in Ribs, \A i \in Slots : Like(u[i], r[i])
    PROVE  /\ RibInv(u, c, s) /\ Used(u) = Used(r)
           /\ \A i \in Used(r) : Route(u[i]) = Route(r[i])
<1>1. Used(u) = Used(r)
  BY DEF Used, Like
<1>2. ASSUME NEW i \in Used(r)
      PROVE  /\ u[i].prefix = r[i].prefix /\ u[i].len = r[i].len
             /\ u[i].proto = r[i].proto /\ u[i].via = r[i].via
             /\ u[i].metric = r[i].metric /\ u[i].sequence = r[i].sequence
  BY <1>1 DEF Used, Like
<1>3. \A i \in Used(r) : Route(u[i]) = Route(r[i])
  BY <1>2 DEF Route
<1>. QED  BY <1>1, <1>2, <1>3 DEF RibInv, SameNet

\* What a call leaves, when the RIB it rebuilds from is r.
LEMMA RebuildKeeps ==
    ASSUME NEW r, RibInv(r, ribCount', nextSequence'), RebuildFib(r)
    PROVE  /\ RouteInv' /\ Used(rib') = Used(r)
           /\ \A i \in Used(r) : Route(rib'[i]) = Route(r[i])
<1>. DEFINE t == Rebuilt(r)
<1>1. r \in Ribs
  BY DEF RibInv
<1>2. Loop(t, r, Size)
  BY <1>1, RebuildLoop
<1>3. rib' = t.rib /\ fib' = t.fib /\ fibCount' = t.count
  BY DEF RebuildFib
<1>. HIDE DEF t
<1>4. Loop(t, t.rib, Size)
  BY <1>1, <1>2, LoopOwn
<1>5. t = [rib |-> rib', fib |-> fib', count |-> fibCount']
  BY <1>2, <1>3 DEF Loop, Tables
<1>6. t.rib \in Ribs /\ \A i \in Slots : Like(t.rib[i], r[i])
  BY <1>2 DEF Loop, Tables, Ribs
<1>7. /\ RibInv(t.rib, ribCount', nextSequence') /\ Used(t.rib) = Used(r)
      /\ \A i \in Used(r) : Route(t.rib[i]) = Route(r[i])
  BY <1>6, RibInvLike
<1>8. Loop([rib |-> rib', fib |-> fib', count |-> fibCount'], rib', Size)
  BY <1>3, <1>4, <1>5
<1>. QED  BY <1>3, <1>7, <1>8 DEF RouteInv

-----------------------------------------------------------------------------
LEMMA RouteInitially == Init => RouteInv
<1>. SUFFICES ASSUME Init PROVE RouteInv
  OBVIOUS
<1>. DEFINE t == [rib |-> rib, fib |-> fib, count |-> fibCount]
<1>1. rib = [i \in Slots |-> NoRoute] /\ fib = [i \in Slots |-> NoRoute]
      /\ ribCount = 0 /\ fibCount = 0 /\ nextSequence = 1
  BY DEF Init
<1>2. Used(rib) = {} /\ Used(fib) = {}
  BY <1>1 DEF Used
<1>3. RibInv(rib, ribCount, nextSequence)
  <2>1. rib \in Ribs
    BY <1>1 DEF Ribs
  <2>2. Cardinality({}) = 0
    BY FS_EmptySet
  <2>3. nextSequence \in 1 .. MaxSequence
    BY <1>1
  <2>4. ribCount = Cardinality(Used(rib))
    BY <1>1, <1>2, <2>2
  <2>. QED  BY <1>2, <2>1, <2>3, <2>4 DEF RibInv
<1>4. t \in Tables /\ t.rib = rib /\ t.fib = fib /\ t.count = 0
  BY <1>1 DEF Tables
<1>5. \A i \in Slots : Like(t.rib[i], rib[i])
  BY <1>4 DEF Like
<1>6. Used(t.fib) = 1 .. t.count /\ t.count <= Size
  <2>1. 1 .. 0 = {}
    OBVIOUS
  <2>. QED  BY <1>2, <1>4, <2>1
<1>. HIDE DEF t
<1>7. Loop(t, rib, Size)
  BY <1>2, <1>4, <1>5, <1>6 DEF Loop
<1>. QED  BY <1>3, <1>7 DEF RouteInv, t

-----------------------------------------------------------------------------
(***************************************************************************)
(* The changes of the RIB.                                                 *)
(***************************************************************************)
Contents(r) == {Route(r[i]) : i \in Used(r)}

\* The sequence tells the routes of a RIB apart.
LEMMA RouteOfSlot ==
    ASSUME NEW r, NEW c, NEW s, RibInv(r, c, s),
           NEW i \in Used(r), NEW k \in Used(r), Route(r[i]) = Route(r[k])
    PROVE  i = k
<1>1. Route(r[i]).age = r[i].sequence /\ Route(r[k]).age = r[k].sequence
  BY DEF Route
<1>. QED  BY <1>1 DEF RibInv

Changed(r, i, via, m) == [r EXCEPT ![i].via = via, ![i].metric = m]
Stored(r, i, e)       == [r EXCEPT ![i] = e]

\* No candidate has the key of e.
NewKey(r, e) == \A k \in Used(r) : ~(SameNet(r[k], e) /\ r[k].proto = e.proto)

\* A candidate gets another next hop or metric.
LEMMA UpdateRib ==
    ASSUME NEW r, NEW c, NEW s, RibInv(r, c, s), NEW i \in Used(r),
           NEW via \in Vias, NEW m \in Metrics,
           NEW u, u = Changed(r, i, via, m)
    PROVE  /\ RibInv(u, c, s) /\ Used(u) = Used(r)
           /\ Contents(u) = (Contents(r) \ {Route(r[i])}) \cup {Route(u[i])}
           /\ u[i].prefix = r[i].prefix /\ u[i].len = r[i].len
           /\ u[i].proto = r[i].proto /\ u[i].sequence = r[i].sequence
<1>. DEFINE e == [r[i] EXCEPT !.via = via, !.metric = m]
<1>1. r \in Ribs /\ i \in Slots /\ r[i] # NoRoute /\ r[i] \in RibEntries
  BY EntryOf DEF RibInv
<1>2. /\ e \in RibEntries /\ e.prefix = r[i].prefix /\ e.len = r[i].len
      /\ e.proto = r[i].proto /\ e.sequence = r[i].sequence
  BY <1>1 DEF RibEntries
<1>3. u = [r EXCEPT ![i] = e]
  BY DEF Changed
<1>. HIDE DEF e
<1>4. /\ u \in Ribs /\ u[i] = e /\ e # NoRoute
      /\ \A k \in Slots : k # i => u[k] = r[k]
  BY <1>1, <1>2, <1>3 DEF Ribs
<1>5. Used(u) = Used(r)
  BY <1>1, <1>4 DEF Used
<1>6. ASSUME NEW k \in Used(r)
      PROVE  /\ u[k].prefix = r[k].prefix /\ u[k].len = r[k].len
             /\ u[k].proto = r[k].proto /\ u[k].sequence = r[k].sequence
             /\ k # i => u[k] = r[k]
  BY <1>2, <1>4 DEF Used
<1>7. RibInv(u, c, s)
  <2>1. /\ c = Cardinality(Used(u)) /\ s \in 1 .. MaxSequence
        /\ \A k \in Used(u) : /\ u[k].prefix % Block[Width - u[k].len] = 0
                              /\ u[k].sequence < s
    BY <1>5, <1>6 DEF RibInv
  <2>2. \A k, l \in Used(u) :
           SameNet(u[k], u[l]) /\ u[k].proto = u[l].proto => k = l
    BY <1>5, <1>6 DEF RibInv, SameNet
  <2>3. \A k, l \in Used(u) : u[k].sequence = u[l].sequence => k = l
    BY <1>5, <1>6 DEF RibInv
  <2>. QED  BY <1>4, <2>1, <2>2, <2>3, Zenon DEF RibInv
<1>8. Contents(u) = (Contents(r) \ {Route(r[i])}) \cup {Route(u[i])}
  <2>1. ASSUME NEW x \in Contents(u)
        PROVE  x \in (Contents(r) \ {Route(r[i])}) \cup {Route(u[i])}
    <3>1. PICK k \in Used(r) : x = Route(u[k])
      BY <1>5 DEF Contents
    <3>2. CASE k # i
      <4>1. x = Route(r[k]) /\ x # Route(r[i])
        BY <3>1, <3>2, <1>6, RouteOfSlot
      <4>. QED  BY <4>1 DEF Contents
    <3>. QED  BY <3>1, <3>2
  <2>2. ASSUME NEW x \in Contents(r), x # Route(r[i]) PROVE x \in Contents(u)
    <3>1. PICK k \in Used(r) : x = Route(r[k])
      BY DEF Contents
    <3>2. x = Route(u[k])
      BY <2>2, <3>1, <1>6
    <3>. QED  BY <3>2, <1>5 DEF Contents
  <2>3. Route(u[i]) \in Contents(u)
    BY <1>5 DEF Contents
  <2>. QED  BY <2>1, <2>2, <2>3
<1>. QED  BY <1>2, <1>4, <1>5, <1>7, <1>8

\* A candidate with a new key and the next sequence goes to a free slot.
LEMMA AddRib ==
    ASSUME NEW r, NEW c, NEW s, RibInv(r, c, s), s < MaxSequence,
           NEW i \in Slots \ Used(r), NEW e \in RibEntries, e.sequence = s,
           e.prefix % Block[Width - e.len] = 0,
           NewKey(r, e), NEW u, u = Stored(r, i, e)
    PROVE  /\ RibInv(u, c + 1, s + 1) /\ Contents(u) = Contents(r) \cup {Route(e)}
           /\ Cardinality(Contents(r)) < Size
<1>1. r \in Ribs /\ e # NoRoute /\ s \in 1 .. MaxSequence /\ s + 1 \in 1 .. MaxSequence
  BY DEF RibInv
<1>2. u \in Ribs /\ u[i] = e /\ \A k \in Slots : k # i => u[k] = r[k]
  BY <1>1 DEF Ribs, Stored
<1>3. Used(u) = Used(r) \cup {i} /\ i \notin Used(r)
  BY <1>1, <1>2 DEF Used
<1>4. \A k \in Used(r) : k # i /\ u[k] = r[k] /\ r[k].sequence < s /\ r[k] \in RibEntries
  BY <1>2, <1>3, EntryOf DEF Used, RibInv
<1>5. \A k \in Used(r) : r[k].sequence \in Nat
  BY <1>4 DEF RibEntries
<1>6. Cardinality(Used(u)) = c + 1
  <2>1. IsFiniteSet(Used(r)) /\ Cardinality(Used(r)) = c
    BY UsedFinite DEF RibInv
  <2>2. Cardinality(Used(r) \cup {i}) =
           IF i \in Used(r) THEN Cardinality(Used(r)) ELSE Cardinality(Used(r)) + 1
    BY <2>1, FS_AddElement, Zenon
  <2>. QED  BY <1>3, <2>1, <2>2
<1>7. \A k \in Used(u) : /\ u[k].prefix % Block[Width - u[k].len] = 0
                         /\ u[k].sequence < s + 1
  <2>1. ASSUME NEW k \in Used(r)
        PROVE  u[k].prefix % Block[Width - u[k].len] = 0 /\ u[k].sequence < s + 1
    <3>1. r[k].prefix % Block[Width - r[k].len] = 0
      BY DEF RibInv
    <3>2. r[k].sequence < s + 1
      BY <1>1, <1>4, <1>5
    <3>. QED  BY <3>1, <3>2, <1>4
  <2>2. u[i].prefix % Block[Width - u[i].len] = 0 /\ u[i].sequence < s + 1
    BY <1>1, <1>2
  <2>. QED  BY <1>3, <2>1, <2>2
<1>8. \A k, l \in Used(u) : SameNet(u[k], u[l]) /\ u[k].proto = u[l].proto => k = l
  <2>1. \A k \in Used(r) : ~(SameNet(u[k], e) /\ u[k].proto = e.proto)
                          /\ ~(SameNet(e, u[k]) /\ e.proto = u[k].proto)
    BY <1>4 DEF SameNet, NewKey
  <2>2. \A k, l \in Used(r) : SameNet(u[k], u[l]) /\ u[k].proto = u[l].proto => k = l
    BY <1>4 DEF RibInv
  <2>3. ASSUME NEW k \in Used(u), NEW l \in Used(u),
               SameNet(u[k], u[l]), u[k].proto = u[l].proto
        PROVE  k = l
    <3>1. CASE k \in Used(r) /\ l \in Used(r)
      BY <2>2, <2>3, <3>1
    <3>2. CASE k = i /\ l \in Used(r)
      BY <2>1, <2>3, <3>2, <1>2
    <3>3. CASE k \in Used(r) /\ l = i
      BY <2>1, <2>3, <3>3, <1>2
    <3>. QED  BY <3>1, <3>2, <3>3, <1>3
  <2>. QED  BY <2>3
<1>9. \A k, l \in Used(u) : u[k].sequence = u[l].sequence => k = l
  <2>1. \A k \in Used(r) : u[k].sequence # s
    BY <1>1, <1>4, <1>5
  <2>2. \A k, l \in Used(r) : u[k].sequence = u[l].sequence => k = l
    BY <1>4 DEF RibInv
  <2>3. u[i].sequence = s
    BY <1>2
  <2>. QED  BY <2>1, <2>2, <2>3, <1>3
<1>10. RibInv(u, c + 1, s + 1)
  <2>1. u \in Ribs /\ c + 1 = Cardinality(Used(u)) /\ s + 1 \in 1 .. MaxSequence
    BY <1>1, <1>2, <1>6
  <2>. QED  BY <2>1, <1>7, <1>8, <1>9 DEF RibInv
<1>11. Contents(u) = Contents(r) \cup {Route(e)}
  <2>1. Contents(u) = {Route(u[k]) : k \in Used(r)} \cup {Route(u[i])}
    BY <1>3 DEF Contents
  <2>2. {Route(u[k]) : k \in Used(r)} = Contents(r)
    BY <1>4 DEF Contents
  <2>. QED  BY <2>1, <2>2, <1>2
<1>12. Cardinality(Contents(r)) < Size
  <2>. DEFINE f == [k \in Used(r) |-> Route(r[k])]
  <2>1. f \in Surjection(Used(r), Contents(r))
    BY DEF Surjection, Contents
  <2>2. Cardinality(Contents(r)) <= Cardinality(Used(r)) /\ IsFiniteSet(Contents(r))
    <3>1. IsFiniteSet(Used(r))
      BY UsedFinite
    <3>. HIDE DEF f
    <3>2. Cardinality(Contents(r)) <= Cardinality(Used(r))
      BY <2>1, <3>1, FS_Surjection, Zenon
    <3>3. IsFiniteSet(Contents(r))
      BY <2>1, <3>1, FS_Surjection, Zenon
    <3>. QED  BY <3>2, <3>3
  <2>3. IsFiniteSet(Slots) /\ Cardinality(Slots) = Size
    <3>1. 1 \in Int /\ Size \in Int
      OBVIOUS
    <3>2. /\ IsFiniteSet(1 .. Size)
          /\ Cardinality(1 .. Size) = IF 1 > Size THEN 0 ELSE Size - 1 + 1
      BY <3>1, FS_Interval, Zenon
    <3>. QED  BY <3>2
  <2>4. Cardinality(Used(u)) <= Size
    BY <2>3, UsedFinite, FS_Subset
  <2>5. Cardinality(Used(r)) + 1 = Cardinality(Used(u))
    BY <1>6 DEF RibInv
  <2>6. Cardinality(Contents(r)) \in Nat /\ Cardinality(Used(r)) \in Nat
        /\ Cardinality(Used(u)) \in Nat
    BY <2>2, UsedFinite, FS_CardinalityType
  <2>. QED  BY <2>2, <2>4, <2>5, <2>6
<1>. QED  BY <1>10, <1>11, <1>12

\* Candidates leave their slots.
LEMMA RemoveRib ==
    ASSUME NEW r, NEW c, NEW s, RibInv(r, c, s), NEW gone \in SUBSET Used(r),
           NEW u, u = [i \in Slots |-> IF i \in gone THEN NoRoute ELSE r[i]]
    PROVE  /\ RibInv(u, Decremented(c, Cardinality(gone)), s)
           /\ Contents(u) = {Route(r[i]) : i \in Used(r) \ gone}
<1>1. r \in Ribs
  BY DEF RibInv
<1>2. u \in Ribs /\ Used(u) = Used(r) \ gone
  BY <1>1 DEF Ribs, Used
<1>3. \A k \in Used(u) : k \in Used(r) /\ u[k] = r[k]
  BY <1>2 DEF Used
<1>4. Cardinality(Used(u)) = Decremented(c, Cardinality(gone))
  <2>1. IsFiniteSet(Used(r)) /\ Cardinality(Used(r)) \in Nat
    BY UsedFinite
  <2>2. IsFiniteSet(gone) /\ Cardinality(gone) <= Cardinality(Used(r))
    BY <2>1, FS_Subset
  <2>3. Cardinality(gone) \in Nat
    BY <2>2, FS_CardinalityType
  <2>4. Used(r) \cap gone = gone
    OBVIOUS
  <2>5. Cardinality(Used(u)) = Cardinality(Used(r)) - Cardinality(gone)
    <3>1. Cardinality(Used(r) \ gone)
             = Cardinality(Used(r)) - Cardinality(Used(r) \cap gone)
      BY <2>1, FS_Difference, Zenon
    <3>. QED  BY <2>4, <1>2, <3>1
  <2>6. c = Cardinality(Used(r))
    BY DEF RibInv
  <2>. DEFINE m == Cardinality(Used(r))
              n == Cardinality(gone)
  <2>7. m \in Nat /\ n \in Nat /\ n <= m /\ Cardinality(Used(u)) = m - n /\ c = m
    BY <2>1, <2>2, <2>3, <2>5, <2>6
  <2>8. Decremented(c, n) = m - n
    <3>. HIDE DEF m, n
    <3>. QED  BY <2>7 DEF Decremented
  <2>. QED  BY <2>7, <2>8
<1>5. RibInv(u, Decremented(c, Cardinality(gone)), s)
  <2>1. s \in 1 .. MaxSequence
    BY DEF RibInv
  <2>2. \A k \in Used(u) : u[k].prefix % Block[Width - u[k].len] = 0 /\ u[k].sequence < s
    BY <1>3 DEF RibInv
  <2>3. \A k, l \in Used(u) : SameNet(u[k], u[l]) /\ u[k].proto = u[l].proto => k = l
    BY <1>3 DEF RibInv
  <2>4. \A k, l \in Used(u) : u[k].sequence = u[l].sequence => k = l
    BY <1>3 DEF RibInv
  <2>. QED  BY <1>2, <1>4, <2>1, <2>2, <2>3, <2>4 DEF RibInv
<1>6. Contents(u) = {Route(r[i]) : i \in Used(r) \ gone}
  BY <1>2, <1>3 DEF Contents
<1>. QED  BY <1>5, <1>6

-----------------------------------------------------------------------------
(***************************************************************************)
(* Every call keeps the invariant, and does to the routes what Routes says.*)
(***************************************************************************)
\* What a call leaves has the routes of the RIB it rebuilds from.
LEMMA RebuildContents ==
    ASSUME NEW r, RibInv(r, ribCount', nextSequence'), RebuildFib(r)
    PROVE  RouteInv' /\ Contents(rib') = Contents(r)
<1>1. RouteInv' /\ Used(rib') = Used(r) /\ \A i \in Used(r) : Route(rib'[i]) = Route(r[i])
  BY RebuildKeeps
<1>2. {Route(rib'[i]) : i \in Used(r)} = {Route(r[i]) : i \in Used(r)}
  BY <1>1
<1>. QED  BY <1>1, <1>2 DEF Contents

\* The routes, as Routes sees them.
MayUpdate ==
    \E x \in Contents(rib), y \in Contents(rib') :
        /\ R!Key(x) = R!Key(y) /\ x.age = y.age
        /\ Contents(rib') = (Contents(rib) \ {x}) \cup {y}
MayLearn ==
    \E x \in Contents(rib') :
        /\ x \notin Contents(rib) /\ Cardinality(Contents(rib)) < Size
        /\ \A y \in Contents(rib) : R!Key(y) # R!Key(x) /\ y.age < x.age
        /\ Contents(rib') = Contents(rib) \cup {x}
MayWithdraw ==
    \E x \in Contents(rib) : Contents(rib') = Contents(rib) \ {x}
MayFlush(p) ==
    Contents(rib') = {x \in Contents(rib) : x.proto # p}

LEMMA AddUpdateStep ==
    ASSUME RouteInv, NEW a, NEW n, NEW via \in Vias, NEW m \in Metrics, NEW p,
           AddUpdate(a, n, via, m, p)
    PROVE  RouteInv' /\ MayUpdate
<1>1. PICK i \in Slots :
          /\ First(SameKey(Masked(a, n), n, p), i)
          /\ RebuildFib([rib EXCEPT ![i].via = via, ![i].metric = m])
          /\ UNCHANGED <<ribCount, nextSequence>>
  BY DEF AddUpdate
<1>. DEFINE u == [rib EXCEPT ![i].via = via, ![i].metric = m]
<1>2. i \in Used(rib)
  BY <1>1 DEF First, SameKey
<1>3. RibInv(rib, ribCount, nextSequence) /\ RebuildFib(u)
  BY <1>1 DEF RouteInv
<1>4. u = Changed(rib, i, via, m)
  BY DEF Changed
<1>. HIDE DEF u
<1>5. /\ RibInv(u, ribCount, nextSequence) /\ Used(u) = Used(rib)
      /\ Contents(u) = (Contents(rib) \ {Route(rib[i])}) \cup {Route(u[i])}
      /\ u[i].prefix = rib[i].prefix /\ u[i].len = rib[i].len
      /\ u[i].proto = rib[i].proto /\ u[i].sequence = rib[i].sequence
  BY <1>2, <1>3, <1>4, UpdateRib
<1>6. RibInv(u, ribCount', nextSequence')
  BY <1>1, <1>5
<1>7. RouteInv' /\ Contents(rib') = Contents(u)
  BY <1>3, <1>6, RebuildContents
<1>8. R!Key(Route(rib[i])) = R!Key(Route(u[i])) /\ Route(rib[i]).age = Route(u[i]).age
  BY <1>5 DEF Route, R!Key
<1>9. Route(rib[i]) \in Contents(rib) /\ Route(u[i]) \in Contents(rib')
  BY <1>2, <1>5, <1>7 DEF Contents
<1>. QED  BY <1>5, <1>7, <1>8, <1>9 DEF MayUpdate

LEMMA AddNewStep ==
    ASSUME RouteInv, NEW a \in Addresses, NEW n \in 0 .. Width, NEW via \in Vias,
           NEW m \in Metrics, NEW p \in Protos, AddNew(a, n, via, m, p)
    PROVE  RouteInv' /\ MayLearn
<1>. DEFINE e == [prefix |-> Masked(a, n), len |-> n, proto |-> p, via |-> via,
                  metric |-> m, selected |-> FALSE, sequence |-> nextSequence]
<1>1. PICK i \in Slots : /\ First(Slots \ Used(rib), i)
                         /\ RebuildFib([rib EXCEPT ![i] = e])
  BY DEF AddNew
<1>. DEFINE u == [rib EXCEPT ![i] = e]
<1>2. /\ nextSequence < MaxSequence /\ SameKey(Masked(a, n), n, p) = {}
      /\ nextSequence' = nextSequence + 1 /\ ribCount' = ribCount + 1
  BY DEF AddNew
<1>3. RibInv(rib, ribCount, nextSequence)
  BY DEF RouteInv
<1>4. /\ e.prefix = Masked(a, n) /\ e.len = n /\ e.proto = p
      /\ e.sequence = nextSequence /\ e \in RibEntries
  BY <1>3, MaskedIsPrefix DEF RibEntries, RibInv
<1>. HIDE DEF e
<1>5. e.prefix % Block[Width - e.len] = 0
  BY <1>4, MaskedIsPrefix
<1>6. NewKey(rib, e)
  BY <1>2, <1>4 DEF SameKey, SameNet, NewKey
<1>7. i \in Slots \ Used(rib)
  BY <1>1 DEF First
<1>8. u = Stored(rib, i, e) /\ RebuildFib(u)
  BY <1>1 DEF Stored
<1>. HIDE DEF u
<1>9. /\ RibInv(u, ribCount + 1, nextSequence + 1)
      /\ Contents(u) = Contents(rib) \cup {Route(e)}
      /\ Cardinality(Contents(rib)) < Size
  BY <1>2, <1>3, <1>4, <1>5, <1>6, <1>7, <1>8, AddRib
<1>10. RouteInv' /\ Contents(rib') = Contents(u)
  BY <1>2, <1>8, <1>9, RebuildContents
<1>11. ASSUME NEW y \in Contents(rib)
       PROVE  R!Key(y) # R!Key(Route(e)) /\ y.age < Route(e).age
  <2>1. PICK k \in Used(rib) : y = Route(rib[k])
    BY DEF Contents
  <2>2. /\ y.prefix = rib[k].prefix /\ y.len = rib[k].len
        /\ y.proto = rib[k].proto /\ y.age = rib[k].sequence
        /\ Route(e).prefix = e.prefix /\ Route(e).len = e.len
        /\ Route(e).proto = e.proto /\ Route(e).age = e.sequence
    BY <2>1 DEF Route
  <2>3. rib[k].sequence < nextSequence
    BY <1>3 DEF RibInv
  <2>4. R!Key(y) # R!Key(Route(e))
    BY <2>2, <1>6 DEF R!Key, SameNet, NewKey
  <2>. QED  BY <2>2, <2>3, <2>4, <1>4
<1>12. Route(e) \notin Contents(rib)
  BY <1>11
<1>13. Route(e) \in Contents(rib') /\ Contents(rib') = Contents(rib) \cup {Route(e)}
  BY <1>9, <1>10
<1>. QED  BY <1>9, <1>10, <1>11, <1>12, <1>13 DEF MayLearn

LEMMA DeleteStep ==
    ASSUME RouteInv, NEW a, NEW n, NEW p, Delete(a, n, p)
    PROVE  RouteInv' /\ MayWithdraw
<1>1. PICK i \in Slots : /\ First(SameKey(Masked(a, n), n, p), i)
                         /\ RebuildFib([rib EXCEPT ![i] = NoRoute])
                         /\ ribCount' = Decremented(ribCount, 1)
                         /\ UNCHANGED nextSequence
  BY DEF Delete
<1>. DEFINE u == [rib EXCEPT ![i] = NoRoute]
<1>2. i \in Used(rib)
  BY <1>1 DEF First, SameKey
<1>3. RibInv(rib, ribCount, nextSequence) /\ RebuildFib(u)
  BY <1>1 DEF RouteInv
<1>4. u = [k \in Slots |-> IF k \in {i} THEN NoRoute ELSE rib[k]]
  BY <1>3 DEF RibInv, Ribs
<1>5. Cardinality({i}) = 1 /\ {i} \in SUBSET Used(rib)
  BY <1>2, FS_Singleton
<1>. HIDE DEF u
<1>6. /\ RibInv(u, Decremented(ribCount, Cardinality({i})), nextSequence)
      /\ Contents(u) = {Route(rib[k]) : k \in Used(rib) \ {i}}
  BY <1>3, <1>4, <1>5, RemoveRib
<1>7. RouteInv' /\ Contents(rib') = Contents(u)
  BY <1>1, <1>3, <1>5, <1>6, RebuildContents
<1>8. Contents(u) = Contents(rib) \ {Route(rib[i])}
  <2>1. ASSUME NEW k \in Used(rib) \ {i} PROVE Route(rib[k]) # Route(rib[i])
    BY <1>2, <1>3, RouteOfSlot
  <2>. QED  BY <2>1, <1>6 DEF Contents
<1>9. Route(rib[i]) \in Contents(rib)
  BY <1>2 DEF Contents
<1>. QED  BY <1>7, <1>8, <1>9 DEF MayWithdraw

LEMMA FlushStep ==
    ASSUME RouteInv, NEW p, FlushProto(p)
    PROVE  RouteInv' /\ MayFlush(p)
<1>. DEFINE gone == {i \in Used(rib) : rib[i].proto = p}
            u    == [i \in Slots |-> IF i \in gone THEN NoRoute ELSE rib[i]]
<1>1. /\ RebuildFib(u) /\ ribCount' = Decremented(ribCount, Cardinality(gone))
      /\ nextSequence' = nextSequence
  BY DEF FlushProto
<1>2. RibInv(rib, ribCount, nextSequence)
  BY DEF RouteInv
<1>3. gone \in SUBSET Used(rib)
      /\ u = [i \in Slots |-> IF i \in gone THEN NoRoute ELSE rib[i]]
      /\ \A i \in Used(rib) : i \in gone <=> rib[i].proto = p
  OBVIOUS
<1>. HIDE DEF u, gone
<1>4. /\ RibInv(u, Decremented(ribCount, Cardinality(gone)), nextSequence)
      /\ Contents(u) = {Route(rib[i]) : i \in Used(rib) \ gone}
  BY <1>2, <1>3, RemoveRib
<1>5. RouteInv' /\ Contents(rib') = Contents(u)
  BY <1>1, <1>4, RebuildContents
<1>6. \A i \in Used(rib) : Route(rib[i]).proto = rib[i].proto
  BY DEF Route
<1>7. Contents(u) = {x \in Contents(rib) : x.proto # p}
  BY <1>3, <1>4, <1>6 DEF Contents
<1>. QED  BY <1>5, <1>7 DEF MayFlush

\* What a step does, of the FIB only that the invariant holds again.
LEMMA RouteStep ==
    ASSUME RouteInv, Next
    PROVE  /\ RouteInv'
           /\ MayUpdate \/ MayLearn \/ MayWithdraw \/ \E p \in Protos : MayFlush(p)
<1>1. CASE \E t \in Targets, via \in Vias, m \in Metrics, p \in Protos :
              AddUpdate(t[1], t[2], via, m, p) \/ AddNew(t[1], t[2], via, m, p)
  <2>1. PICK t \in Targets, via \in Vias, m \in Metrics, p \in Protos :
            AddUpdate(t[1], t[2], via, m, p) \/ AddNew(t[1], t[2], via, m, p)
    BY <1>1
  <2>2. t[1] \in Addresses /\ t[2] \in 0 .. Width
    BY TargetAssumption
  <2>. QED  BY <2>1, <2>2, AddUpdateStep, AddNewStep
<1>2. CASE \E t \in Targets, p \in Protos : Delete(t[1], t[2], p)
  BY <1>2, DeleteStep
<1>3. CASE \E p \in Protos : FlushProto(p)
  BY <1>3, FlushStep
<1>. QED  BY <1>1, <1>2, <1>3 DEF Next

\* Nothing happens.
LEMMA RouteStutter ==
    ASSUME RouteInv, UNCHANGED vars
    PROVE  RouteInv'
BY DEF RouteInv, vars

LEMMA RouteAlways == Spec => []RouteInv
<1>1. RouteInv /\ [Next]_vars => RouteInv'
  BY RouteStep, RouteStutter
<1>. QED  BY <1>1, RouteInitially, PTL DEF Spec

\* The slots hold entries, every stored prefix is masked, and rib_count and
\* fib_count are the numbers of slots in use, after any calls.
THEOREM TypeCorrect == Spec => []TypeOK
<1>1. RouteInv => TypeOK
  <2>. SUFFICES ASSUME RouteInv PROVE TypeOK
    OBVIOUS
  <2>. DEFINE t == [rib |-> rib, fib |-> fib, count |-> fibCount]
  <2>1. RibInv(rib, ribCount, nextSequence) /\ Loop(t, rib, Size)
    BY DEF RouteInv
  <2>2. /\ rib \in [Slots -> RibEntries \cup {NoRoute}]
        /\ \A i \in Used(rib) : rib[i].prefix % Block[Width - rib[i].len] = 0
        /\ ribCount = Cardinality(Used(rib)) /\ nextSequence \in 1 .. MaxSequence
    BY <2>1 DEF RibInv, Ribs
  <2>3. t.fib = fib /\ t.count = fibCount
    OBVIOUS
  <2>. HIDE DEF t
  <2>4. /\ fib \in [Slots -> FibEntries \cup {NoRoute}] /\ fibCount \in Nat
        /\ Used(fib) = 1 .. fibCount
    BY <2>1, <2>3 DEF Loop, Tables
  <2>5. Cardinality(Used(fib)) = fibCount
    <3>1. 1 \in Int /\ fibCount \in Int
      BY <2>4
    <3>2. Cardinality(1 .. fibCount) = IF 1 > fibCount THEN 0 ELSE fibCount - 1 + 1
      BY <3>1, FS_Interval, Zenon
    <3>. QED  BY <2>4, <3>2
  <2>. QED  BY <2>2, <2>4, <2>5 DEF TypeOK
<1>. QED  BY <1>1, RouteAlways, PTL

\* After every call the FIB has every prefix of the RIB once, with the best of
\* its candidates, and those are the selected ones.
THEOREM FollowTheorem == Spec => []FibFollowsRib
<1>1. RouteInv => FibFollowsRib
  <2>. SUFFICES ASSUME RouteInv PROVE FibFollowsRib
    OBVIOUS
  <2>. DEFINE t == [rib |-> rib, fib |-> fib, count |-> fibCount]
  <2>1. RibInv(rib, ribCount, nextSequence) /\ Loop(t, rib, Size)
    BY DEF RouteInv
  <2>2. t.rib = rib /\ t.fib = fib
    OBVIOUS
  <2>. HIDE DEF t
  <2>3. /\ \A j \in Used(fib) : BestOf(fib[j], rib, Size)
        /\ \A j, k \in Used(fib) : SameNet(fib[j], fib[k]) => j = k
        /\ \A i \in Used(rib) : i <= Size => \E j \in Used(fib) : SameNet(fib[j], rib[i])
        /\ \A i \in Used(rib) :
              rib[i].selected <=> \E j \in Used(fib) : fib[j].index = i
    BY <2>1, <2>2 DEF Loop
  <2>4. ASSUME NEW j \in Used(fib)
        PROVE  /\ fib[j].index \in Used(rib)
               /\ fib[j] = FibEntry(rib[fib[j].index], fib[j].index)
               /\ \A k \in Used(rib) :
                     rib[k].prefix = rib[fib[j].index].prefix
                     /\ rib[k].len = rib[fib[j].index].len =>
                        ~Better(rib[k], rib[fib[j].index])
    <3>1. BestOf(fib[j], rib, Size)
      BY <2>3
    <3>2. \A k \in Used(rib) : k <= Size
      BY DEF Used
    <3>. QED  BY <3>1, <3>2 DEF BestOf, SameNet
  <2>5. ASSUME NEW i \in Used(rib)
        PROVE  Cardinality({j \in Used(fib) : fib[j].prefix = rib[i].prefix
                                              /\ fib[j].len = rib[i].len}) = 1
    <3>. DEFINE S == {j \in Used(fib) : fib[j].prefix = rib[i].prefix
                                        /\ fib[j].len = rib[i].len}
    <3>1. i <= Size
      BY DEF Used
    <3>2. PICK j \in Used(fib) : SameNet(fib[j], rib[i])
      BY <2>3, <3>1
    <3>3. \A k \in S : k = j
      BY <2>3, <3>2 DEF SameNet
    <3>4. S = {j}
      BY <3>2, <3>3 DEF SameNet
    <3>. HIDE DEF S
    <3>5. Cardinality(S) = 1
      BY <3>4, FS_Singleton
    <3>. QED  BY <3>5 DEF S
  <2>. QED  BY <2>3, <2>4, <2>5 DEF FibFollowsRib
<1>. QED  BY <1>1, RouteAlways, PTL

-----------------------------------------------------------------------------
(***************************************************************************)
(* route_table_lookup answers by the best route.                           *)
(***************************************************************************)
\* What the invariant says of the table in use.
LEMMA FibFacts ==
    ASSUME RouteInv
    PROVE  /\ \A i \in Used(rib) : \E j \in Used(fib) : SameNet(fib[j], rib[i])
           /\ \A j, k \in Used(fib) : SameNet(fib[j], fib[k]) => j = k
           /\ \A j \in Used(fib) :
                 /\ j \in Slots /\ fib[j].len \in 0 .. Width
                 /\ fib[j].index \in Used(rib)
                 /\ SameNet(fib[j], rib[fib[j].index])
                 /\ fib[j].via = rib[fib[j].index].via
                 /\ \A k \in Used(rib) : SameNet(rib[k], fib[j]) =>
                                            ~Better(rib[k], rib[fib[j].index])
<1>. DEFINE t == [rib |-> rib, fib |-> fib, count |-> fibCount]
<1>1. RibInv(rib, ribCount, nextSequence) /\ Loop(t, rib, Size)
  BY DEF RouteInv
<1>2. t.rib = rib /\ t.fib = fib
  OBVIOUS
<1>. HIDE DEF t
<1>3. /\ fib \in [Slots -> FibEntries \cup {NoRoute}]
      /\ \A j \in Used(fib) : BestOf(fib[j], rib, Size)
      /\ \A j, k \in Used(fib) : SameNet(fib[j], fib[k]) => j = k
      /\ \A i \in Used(rib) : i <= Size => \E j \in Used(fib) : SameNet(fib[j], rib[i])
  BY <1>1, <1>2 DEF Loop, Tables
<1>4. \A i \in Used(rib) : i <= Size
  BY DEF Used
<1>5. ASSUME NEW j \in Used(fib)
      PROVE  /\ j \in Slots /\ fib[j].len \in 0 .. Width
             /\ fib[j].index \in Used(rib) /\ SameNet(fib[j], rib[fib[j].index])
             /\ fib[j].via = rib[fib[j].index].via
             /\ \A k \in Used(rib) : SameNet(rib[k], fib[j]) =>
                                        ~Better(rib[k], rib[fib[j].index])
  <2>. DEFINE i == fib[j].index
              e == fib[j]
  <2>1. BestOf(fib[j], rib, Size)
    BY <1>3
  <2>2. j \in Slots /\ fib[j] \in FibEntries
    BY <1>3 DEF Used
  <2>3. fib[j].len \in 0 .. Width
    BY <2>2 DEF FibEntries
  <2>4. i \in Used(rib) /\ e = FibEntry(rib[i], i)
    BY <2>1 DEF BestOf
  <2>5. SameNet(e, rib[i]) /\ e.via = rib[i].via
    <3>. HIDE DEF e, i
    <3>. QED  BY <2>4 DEF FibEntry, SameNet
  <2>6. ASSUME NEW k \in Used(rib), SameNet(rib[k], fib[j])
        PROVE  ~Better(rib[k], rib[i])
    <3>1. SameNet(rib[k], rib[i])
      BY <2>5, <2>6 DEF SameNet
    <3>. QED  BY <3>1, <2>1, <1>4 DEF BestOf
  <2>. QED  BY <2>2, <2>3, <2>4, <2>5, <2>6
<1>. QED  BY <1>3, <1>4, <1>5

\* The entry the scan of route_table_lookup ends with is the only longest one.
LEMMA LookupFinds ==
    ASSUME RouteInv, NEW ip, Matching(ip) # {}
    PROVE  BestMatch(ip, CHOOSE j \in Slots : BestMatch(ip, j))
<1>. DEFINE T == {Width - fib[j].len : j \in Matching(ip)}
<1>1. \A j \in Matching(ip) : j \in Used(fib) /\ fib[j].len \in 0 .. Width
                              /\ Masked(ip, fib[j].len) = fib[j].prefix
  BY FibFacts DEF Matching
<1>2. T \in SUBSET Nat /\ T # {}
  BY <1>1
<1>3. PICK m \in T : \A k \in T : m <= k
  <2>. HIDE DEF T
  <2>. QED  BY <1>2, Least
<1>4. PICK j \in Matching(ip) : m = Width - fib[j].len
  OBVIOUS
<1>5. ASSUME NEW k \in Matching(ip)
      PROVE  fib[j].len > fib[k].len \/ (fib[j].len = fib[k].len /\ j <= k)
  <2>1. Width - fib[j].len <= Width - fib[k].len
    BY <1>3, <1>4
  <2>2. fib[j].len >= fib[k].len
    BY <2>1, <1>1
  <2>3. CASE fib[j].len = fib[k].len
    <3>1. SameNet(fib[j], fib[k])
      BY <2>3, <1>1 DEF SameNet
    <3>2. j = k /\ j \in Slots
      BY <3>1, <1>1, FibFacts
    <3>. QED  BY <2>3, <3>2
  <2>. QED  BY <2>2, <2>3, <1>1
<1>6. BestMatch(ip, j) /\ j \in Slots
  BY <1>1, <1>5, FibFacts DEF BestMatch
<1>. QED  BY <1>6

\* Routes counts and masks alike.
LEMMA SameCardinality == \A S : R!Cardinality(S) = Cardinality(S)
BY DEF R!Cardinality, Cardinality

LEMMA SameBlocks == R!Block = Block /\ R!Addresses = Addresses
BY DEF R!Block, Block, R!Addresses, Addresses

\* Two routes of a RIB with the same fields that Preferred reads.
LEMMA PreferredIs ==
    ASSUME NEW r \in Ribs, NEW i \in Used(r), NEW k \in Used(r)
    PROVE  R!Preferred(Route(r[i]), Route(r[k])) <=>
             \/ r[i].len > r[k].len
             \/ /\ r[i].len = r[k].len
                /\ ~Better(r[k], r[i])
<1>. DEFINE a == Route(r[i])
            b == Route(r[k])
            D == [p \in Protos |-> AdminDistance(p)]
<1>1. /\ r[i].proto \in Protos /\ r[k].proto \in Protos
      /\ r[i].metric \in Metrics /\ r[k].metric \in Metrics
      /\ r[i].sequence \in Nat /\ r[k].sequence \in Nat
  <2>1. r[i] \in RibEntries /\ r[k] \in RibEntries
    BY EntryOf
  <2>. QED  BY <2>1 DEF RibEntries
<1>2. /\ r[i].metric \in Nat /\ r[k].metric \in Nat
      /\ AdminDistance(r[i].proto) \in Nat /\ AdminDistance(r[k].proto) \in Nat
  BY <1>1, DistanceType
<1>3. /\ D[r[i].proto] = AdminDistance(r[i].proto)
      /\ D[r[k].proto] = AdminDistance(r[k].proto)
  BY <1>1
<1>4. /\ a.len = r[i].len /\ a.proto = r[i].proto /\ a.metric = r[i].metric
      /\ a.age = r[i].sequence
      /\ b.len = r[k].len /\ b.proto = r[k].proto /\ b.metric = r[k].metric
      /\ b.age = r[k].sequence
  BY DEF Route
<1>5. R!Preferred(a, b) <=>
        \/ a.len > b.len
        \/ a.len = b.len /\ D[a.proto] < D[b.proto]
        \/ /\ a.len = b.len /\ D[a.proto] = D[b.proto]
           /\ a.metric < b.metric \/ (a.metric = b.metric /\ a.age <= b.age)
  BY DEF R!Preferred
<1>. HIDE DEF a, b, D
<1>6. R!Preferred(a, b) <=>
        \/ r[i].len > r[k].len
        \/ r[i].len = r[k].len /\ AdminDistance(r[i].proto) < AdminDistance(r[k].proto)
        \/ /\ r[i].len = r[k].len
           /\ AdminDistance(r[i].proto) = AdminDistance(r[k].proto)
           /\ \/ r[i].metric < r[k].metric
              \/ r[i].metric = r[k].metric /\ r[i].sequence <= r[k].sequence
  BY <1>3, <1>4, <1>5
<1>7. ~Better(r[k], r[i]) <=>
        \/ AdminDistance(r[i].proto) < AdminDistance(r[k].proto)
        \/ /\ AdminDistance(r[i].proto) = AdminDistance(r[k].proto)
           /\ \/ r[i].metric < r[k].metric
              \/ r[i].metric = r[k].metric /\ r[i].sequence <= r[k].sequence
  BY <1>1, <1>2 DEF Better
<1>. QED  BY <1>6, <1>7 DEF a, b

\* A lookup answers what Routes forwards by.
LEMMA LookupIs ==
    ASSUME RouteInv, NEW ip \in Addresses
    PROVE  Lookup(ip) = R!ForwardBy(Contents(rib))[ip]
<1>. DEFINE C == {x \in Contents(rib) : R!Covers(x, ip)}
<1>1. rib \in Ribs /\ RibInv(rib, ribCount, nextSequence)
  BY DEF RouteInv, RibInv
<1>2. ASSUME NEW i \in Used(rib)
      PROVE  R!Covers(Route(rib[i]), ip) <=> Masked(ip, rib[i].len) = rib[i].prefix
  BY SameBlocks DEF R!Covers, Masked, Route
<1>3. ASSUME NEW i \in Used(rib), NEW j \in Used(fib), SameNet(fib[j], rib[i])
      PROVE  Route(rib[i]) \in C <=> j \in Matching(ip)
  <2>1. Route(rib[i]) \in Contents(rib)
    BY DEF Contents
  <2>. QED  BY <2>1, <1>2, <1>3 DEF Matching, SameNet
<1>4. R!ForwardBy(Contents(rib))[ip] =
         IF C = {} THEN NoVia
         ELSE (CHOOSE x \in C : \A y \in C : R!Preferred(x, y)).via
  BY SameBlocks DEF R!ForwardBy
<1>5. ASSUME NEW x \in C
      PROVE  \E i \in Used(rib), j \in Matching(ip) :
                 x = Route(rib[i]) /\ j \in Used(fib) /\ SameNet(fib[j], rib[i])
  <2>1. PICK i \in Used(rib) : x = Route(rib[i])
    BY DEF Contents
  <2>2. PICK j \in Used(fib) : SameNet(fib[j], rib[i])
    BY FibFacts
  <2>. QED  BY <2>1, <2>2, <1>3
<1>6. CASE Matching(ip) = {}
  <2>1. C = {}
    BY <1>5, <1>6
  <2>2. Lookup(ip) = NoVia
    BY <1>6 DEF Lookup
  <2>. QED  BY <2>1, <2>2, <1>4
<1>7. CASE Matching(ip) # {}
  <2>. DEFINE j == CHOOSE j \in Slots : BestMatch(ip, j)
              i == fib[j].index
              x == Route(rib[i])
  <2>1. BestMatch(ip, j) /\ Lookup(ip) = fib[j].via
    BY <1>7, LookupFinds DEF Lookup
  <2>. HIDE DEF j
  <2>2. j \in Matching(ip) /\ j \in Used(fib)
    BY <2>1 DEF BestMatch, Matching
  <2>3. /\ i \in Used(rib) /\ SameNet(fib[j], rib[i]) /\ fib[j].via = rib[i].via
        /\ \A k \in Used(rib) : SameNet(rib[k], fib[j]) => ~Better(rib[k], rib[i])
    BY <2>2, FibFacts
  <2>. HIDE DEF i
  <2>4. x \in C
    BY <2>2, <2>3, <1>3
  <2>. HIDE DEF C
  <2>5. ASSUME NEW y \in C PROVE R!Preferred(x, y)
    <3>1. PICK k \in Used(rib), l \in Matching(ip) :
              y = Route(rib[k]) /\ l \in Used(fib) /\ SameNet(fib[l], rib[k])
      BY <1>5
    <3>2. fib[j].len > fib[l].len \/ (fib[j].len = fib[l].len /\ j <= l)
      BY <2>1, <3>1 DEF BestMatch
    <3>3. CASE fib[j].len > fib[l].len
      BY <3>1, <3>3, <2>3, <1>1, PreferredIs DEF SameNet
    <3>4. CASE fib[j].len = fib[l].len
      <4>1. SameNet(fib[j], fib[l])
        BY <2>2, <3>1, <3>4 DEF Matching, SameNet
      <4>2. SameNet(rib[k], fib[j]) /\ rib[i].len = rib[k].len
        BY <4>1, <3>1, <2>3 DEF SameNet
      <4>3. ~Better(rib[k], rib[i])
        BY <4>2, <2>3
      <4>. QED  BY <4>2, <4>3, <3>1, <2>3, <1>1, PreferredIs
    <3>. QED  BY <3>2, <3>3, <3>4
  <2>6. ASSUME NEW y \in C, \A z \in C : R!Preferred(y, z) PROVE y = x
    <3>1. PICK k \in Used(rib), l \in Matching(ip) :
              y = Route(rib[k]) /\ l \in Used(fib) /\ SameNet(fib[l], rib[k])
      BY <1>5
    <3>2. R!Preferred(Route(rib[i]), Route(rib[k]))
      BY <3>1, <2>5
    <3>3. R!Preferred(Route(rib[k]), Route(rib[i]))
      BY <3>1, <2>4, <2>6
    <3>4. rib[i].len \in Nat /\ rib[k].len \in Nat
      <4>1. rib[i] \in RibEntries /\ rib[k] \in RibEntries
        BY <2>3, <1>1, EntryOf
      <4>. QED  BY <4>1 DEF RibEntries
    <3>5. \/ rib[i].len > rib[k].len
          \/ rib[i].len = rib[k].len /\ ~Better(rib[k], rib[i])
      BY <3>2, <2>3, <1>1, PreferredIs
    <3>6. \/ rib[k].len > rib[i].len
          \/ rib[k].len = rib[i].len /\ ~Better(rib[i], rib[k])
      BY <3>3, <2>3, <1>1, PreferredIs
    <3>7. /\ rib[i].len = rib[k].len
          /\ ~Better(rib[k], rib[i]) /\ ~Better(rib[i], rib[k])
      BY <3>4, <3>5, <3>6
    <3>8. rib[i].sequence = rib[k].sequence
      <4>1. Ranked(rib[i]) /\ Ranked(rib[k])
        BY <2>3, <1>1, EntryOf
      <4>2. AdminDistance(rib[i].proto) \in Nat /\ AdminDistance(rib[k].proto) \in Nat
        BY DistanceType
      <4>. QED  BY <4>1, <4>2, <3>7 DEF Better, Ranked
    <3>9. i = k
      BY <3>8, <2>3, <1>1 DEF RibInv
    <3>. QED  BY <3>1, <3>9
  <2>7. (CHOOSE y \in C : \A z \in C : R!Preferred(y, z)) = x
    BY <2>4, <2>5, <2>6
  <2>8. x.via = rib[i].via
    BY DEF Route
  <2>9. R!ForwardBy(Contents(rib))[ip] = x.via
    BY <1>4, <2>4, <2>7
  <2>. QED  BY <2>1, <2>3, <2>8, <2>9
<1>. QED  BY <1>6, <1>7

\* What every address is sent to is a function of the routes alone.
LEMMA ForwardIs ==
    RouteInv => [ip \in Addresses |-> Lookup(ip)] = R!ForwardBy(Contents(rib))
<1>. SUFFICES ASSUME RouteInv
     PROVE  [ip \in Addresses |-> Lookup(ip)] = R!ForwardBy(Contents(rib))
  OBVIOUS
<1>1. R!ForwardBy(Contents(rib)) =
         [ip \in Addresses |-> R!ForwardBy(Contents(rib))[ip]]
  BY SameBlocks DEF R!ForwardBy
<1>. HIDE DEF R!ForwardBy
<1>. QED  BY <1>1, LookupIs

\* Slots and counters hide nothing: the table implements Routes.
THEOREM RoutesTheorem == Spec => ImplementsRoutes
<1>1. Init => R!Init
  <2>. SUFFICES ASSUME Init PROVE R!Init
    OBVIOUS
  <2>1. RouteInv
    BY RouteInitially
  <2>2. Contents(rib) = {}
    BY DEF Init, Contents, Used
  <2>3. [ip \in Addresses |-> Lookup(ip)] = R!ForwardBy({})
    BY <2>1, <2>2, ForwardIs
  <2>. QED  BY <2>2, <2>3 DEF R!Init, Contents
<1>2. (RouteInv => [ip \in Addresses |-> Lookup(ip)] = R!ForwardBy(Contents(rib)))'
  BY ForwardIs, PTL
<1>3. RouteInv /\ Next => R!Next
  <2>. SUFFICES ASSUME RouteInv, Next PROVE R!Next
    OBVIOUS
  <2>1. RouteInv'
    BY RouteStep
  <2>2. [ip \in Addresses |-> Lookup(ip)]' = R!ForwardBy(Contents(rib'))
    BY <2>1, <1>2
  <2>3. CASE MayUpdate
    BY <2>2, <2>3 DEF MayUpdate, R!Next, R!Update, Contents
  <2>4. CASE MayLearn
    <3>1. PICK x \in Contents(rib') :
              /\ x \notin Contents(rib) /\ Cardinality(Contents(rib)) < Size
              /\ \A y \in Contents(rib) : R!Key(y) # R!Key(x) /\ y.age < x.age
              /\ Contents(rib') = Contents(rib) \cup {x}
      BY <2>4 DEF MayLearn
    <3>2. R!Learn(x)
      <4>. DEFINE D == {Route(rib[i]) : i \in Used(rib)}
      <4>1. D = Contents(rib)
        BY DEF Contents
      <4>2. {Route(rib[i]) : i \in Used(rib)}' = Contents(rib')
        BY DEF Contents
      <4>3. R!Learn(x) <=>
              /\ x \notin D /\ Cardinality(D) < Size
              /\ \A y \in D : R!Key(y) # R!Key(x) /\ y.age < x.age
              /\ {Route(rib[i]) : i \in Used(rib)}' = D \cup {x}
        BY SameCardinality DEF R!Learn
      <4>. HIDE DEF D
      <4>. QED  BY <3>1, <4>1, <4>2, <4>3
    <3>3. x \in Contents(rib)'
      BY <3>1 DEF Contents
    <3>. QED  BY <2>2, <3>2, <3>3 DEF R!Next, Contents
  <2>5. CASE MayWithdraw
    BY <2>2, <2>5 DEF MayWithdraw, R!Next, R!Withdraw, Contents
  <2>6. CASE \E p \in Protos : MayFlush(p)
    <3>1. PICK p \in Protos : MayFlush(p)
      BY <2>6
    <3>2. R!Flush(p)
      BY <3>1 DEF MayFlush, R!Flush, Contents
    <3>3. p \in DOMAIN [q \in Protos |-> AdminDistance(q)]
      OBVIOUS
    <3>. QED  BY <2>2, <3>2, <3>3 DEF R!Next, Contents
  <2>. QED  BY <2>3, <2>4, <2>5, <2>6, RouteStep
<1>4. UNCHANGED vars =>
        UNCHANGED <<{Route(rib[i]) : i \in Used(rib)}, [ip \in Addresses |-> Lookup(ip)]>>
  BY DEF vars, Lookup, BestMatch, Matching
<1>. QED
  BY <1>1, <1>3, <1>4, RouteAlways, PTL DEF Spec, ImplementsRoutes, R!Spec
=============================================================================
