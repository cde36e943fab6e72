--------------------------- MODULE SchedulerProofs ---------------------------
(***************************************************************************)
(* Theorems about the scheduler, for every set of types and handlers and   *)
(* every capacity and bound.                                               *)
(***************************************************************************)
EXTENDS Scheduler, TLAPS

(***************************************************************************)
(* Lemmas about the event queue's operators, for queues over any set.      *)
(***************************************************************************)
\* The empty queue (what a new scheduler, or a drained one, holds).
LEMMA EmptyQueue ==
    ASSUME NEW S
    PROVE  <<>> \in Seq(S) /\ Len(<<>>) = 0 /\ DOMAIN <<>> = {}
OBVIOUS

\* Every entry of a queue is in the set it draws from.
LEMMA EntryOf ==
    ASSUME NEW S, NEW q \in Seq(S)
    PROVE  \A k \in DOMAIN q : q[k] \in S
OBVIOUS

\* A queue of one entry.
LEMMA SingletonQueue ==
    ASSUME NEW S, NEW e \in S
    PROVE  <<e>> \in Seq(S) /\ Len(<<e>>) = 1
OBVIOUS

\* r is q with e stored behind position i and the later entries shifted.
Inserted(r, q, e, i) ==
    /\ Len(r) = Len(q) + 1
    /\ \A k \in 1 .. Len(q) + 1 :
          r[k] = IF k <= i THEN q[k] ELSE IF k = i + 1 THEN e ELSE q[k - 1]

\* Inserting behind position i of a queue: its length and every entry of the
\* result (the shift loop and the store of event_queue_push).
LEMMA PushAtProperties ==
    ASSUME NEW S, NEW q \in Seq(S), NEW e \in S, NEW i \in 0 .. Len(q)
    PROVE  /\ PushAt(q, e, i) \in Seq(S)
           /\ Inserted(PushAt(q, e, i), q, e, i)
<1> DEFINE a == SubSeq(q, 1, i)
           b == SubSeq(q, i + 1, Len(q))
<1>0. Len(q) \in Nat /\ i \in Nat /\ (i + 1) - 1 = i
  OBVIOUS
<1>1. PushAt(q, e, i) = (a \o <<e>>) \o b
  BY <1>0 DEF PushAt, InsertAt
<1>2. a \in Seq(S) /\ Len(a) = i /\ \A k \in 1 .. i : a[k] = q[k]
  OBVIOUS
<1>3. /\ b \in Seq(S) /\ Len(b) = Len(q) - i
      /\ \A k \in 1 .. Len(q) - i : b[k] = q[i + k]
  OBVIOUS
<1>4. /\ a \o <<e>> \in Seq(S) /\ Len(a \o <<e>>) = i + 1
      /\ \A k \in 1 .. i + 1 : (a \o <<e>>)[k] = IF k <= i THEN q[k] ELSE e
  BY <1>2
<1>. HIDE DEF a, b
<1>5. /\ (a \o <<e>>) \o b \in Seq(S)
      /\ Len((a \o <<e>>) \o b) = Len(q) + 1
  BY <1>3, <1>4
<1>6. ASSUME NEW k \in 1 .. Len(q) + 1
      PROVE ((a \o <<e>>) \o b)[k] =
                IF k <= i THEN q[k] ELSE IF k = i + 1 THEN e ELSE q[k - 1]
  <2>0. k \in Nat
    BY <1>0
  <2>1. CASE k <= i + 1
    <3>1. k \in 1 .. i + 1
      BY <2>0, <2>1, <1>0
    <3>2. ((a \o <<e>>) \o b)[k] = (a \o <<e>>)[k]
      BY <3>1, <1>3, <1>4
    <3>. QED
      BY <3>1, <3>2, <1>0, <1>4
  <2>2. CASE ~(k <= i + 1)
    <3>1. ((a \o <<e>>) \o b)[k] = b[k - (i + 1)]
      BY <2>0, <2>2, <1>0, <1>3, <1>4
    <3>2. b[k - (i + 1)] = q[i + (k - (i + 1))]
      BY <2>0, <2>2, <1>0, <1>3
    <3>3. i + (k - (i + 1)) = k - 1 /\ ~(k <= i) /\ k # i + 1
      BY <2>0, <2>2, <1>0
    <3>. QED
      BY <3>1, <3>2, <3>3
  <2>. QED BY <2>1, <2>2
<1>7. Inserted((a \o <<e>>) \o b, q, e, i)
  BY <1>5, <1>6 DEF Inserted
<1>. QED
  BY <1>1, <1>5, <1>7

\* Popping a nonempty queue: the first entry and the rest, shifted by one.
LEMMA PopProperties ==
    ASSUME NEW S, NEW q \in Seq(S), q # <<>>
    PROVE  /\ Len(q) \in Nat \ {0}
           /\ Popped(q) \in S /\ Popped(q) = q[1]
           /\ Remaining(q) \in Seq(S)
           /\ Len(Remaining(q)) = Len(q) - 1
           /\ \A k \in 1 .. Len(q) - 1 : Remaining(q)[k] = q[k + 1]
BY DEF Popped, Remaining
\* A push adds the id of what is pushed, wherever the scan stopped.
LEMMA PushIds ==
    ASSUME NEW S, NEW q \in Seq(S), NEW e \in S, NEW i \in 0 .. Len(q)
    PROVE  Ids(PushAt(q, e, i)) = Ids(q) \cup {e.id}
<1> DEFINE r == PushAt(q, e, i)
<1>0. Len(q) \in Nat /\ i \in Nat /\ DOMAIN q = 1 .. Len(q)
  OBVIOUS
<1>1. r \in Seq(S) /\ Inserted(r, q, e, i)
  BY PushAtProperties
<1>. HIDE DEF r
<1>2. /\ DOMAIN r = 1 .. Len(q) + 1
      /\ \A k \in 1 .. Len(q) + 1 :
            r[k] = IF k <= i THEN q[k] ELSE IF k = i + 1 THEN e ELSE q[k - 1]
  BY <1>0, <1>1 DEF Inserted
<1>3. ASSUME NEW k \in DOMAIN r PROVE r[k].id \in Ids(q) \cup {e.id}
  <2>1. CASE k <= i
    <3>1. k \in DOMAIN q /\ r[k] = q[k]
      BY <1>0, <1>2, <2>1
    <3>. QED
      BY <3>1 DEF Ids
  <2>2. CASE k = i + 1
    <3>1. r[k] = e
      BY <1>0, <1>2, <2>2
    <3>. QED
      BY <3>1
  <2>3. CASE k > i + 1
    <3>1. k - 1 \in DOMAIN q /\ r[k] = q[k - 1]
      BY <1>0, <1>2, <2>3
    <3>. QED
      BY <3>1 DEF Ids
  <2>. QED
    BY <1>0, <1>2, <2>1, <2>2, <2>3
<1>4. i + 1 \in DOMAIN r /\ r[i + 1] = e
  BY <1>0, <1>2
<1>5. ASSUME NEW k \in DOMAIN q PROVE \E j \in DOMAIN r : r[j] = q[k]
  <2>1. CASE k <= i
    <3>1. k \in DOMAIN r /\ r[k] = q[k]
      BY <1>0, <1>2, <2>1
    <3>. QED
      BY <3>1
  <2>2. CASE k > i
    <3>1. k + 1 \in DOMAIN r /\ r[k + 1] = q[k]
      BY <1>0, <1>2, <2>2
    <3>. QED
      BY <3>1
  <2>. QED
    BY <1>0, <2>1, <2>2
<1>6. Ids(q) \cup {e.id} \subseteq Ids(r)
  BY <1>4, <1>5 DEF Ids
<1>7. Ids(r) \subseteq Ids(q) \cup {e.id}
  BY <1>3 DEF Ids
<1>. QED
  BY <1>6, <1>7 DEF r

\* A pop takes away the id of what is popped, when no two entries share one.
LEMMA PopIds ==
    ASSUME NEW S, NEW q \in Seq(S), q # <<>>,
           \A j, k \in DOMAIN q : q[j].id = q[k].id => j = k
    PROVE  /\ Popped(q).id \in Ids(q)
           /\ Ids(Remaining(q)) = Ids(q) \ {Popped(q).id}
<1> DEFINE r == Remaining(q)
           e == Popped(q)
<1>1. /\ Len(q) \in Nat \ {0} /\ e = q[1]
      /\ r \in Seq(S) /\ Len(r) = Len(q) - 1
      /\ \A k \in 1 .. Len(q) - 1 : r[k] = q[k + 1]
  BY PopProperties
<1>. HIDE DEF r, e
<1>2. DOMAIN q = 1 .. Len(q) /\ DOMAIN r = 1 .. Len(q) - 1 /\ 1 \in DOMAIN q
  BY <1>1
<1>3. ASSUME NEW k \in DOMAIN r PROVE r[k].id \in Ids(q) \ {e.id}
  <2>1. k + 1 \in DOMAIN q /\ k + 1 # 1 /\ r[k] = q[k + 1]
    BY <1>1, <1>2
  <2>. QED
    BY <1>1, <1>2, <2>1 DEF Ids
<1>4. ASSUME NEW k \in DOMAIN q, q[k].id # e.id PROVE q[k].id \in Ids(r)
  <2>1. k - 1 \in DOMAIN r /\ (k - 1) + 1 = k
    BY <1>1, <1>2, <1>4
  <2>2. r[k - 1] = q[k]
    BY <1>1, <1>2, <2>1
  <2>. QED
    BY <2>1, <2>2 DEF Ids
<1>5. Ids(r) \subseteq Ids(q) \ {e.id}
  BY <1>3 DEF Ids
<1>6. Ids(q) \ {e.id} \subseteq Ids(r)
  BY <1>4 DEF Ids
<1>7. e.id \in Ids(q)
  BY <1>1, <1>2 DEF Ids
<1>8. Ids(r) = Ids(q) \ {e.id}
  BY <1>5, <1>6
<1>. QED
  BY <1>7, <1>8 DEF r, e

-----------------------------------------------------------------------------
(***************************************************************************)
(* Types.                                                                  *)
(***************************************************************************)

LEMMA TypeInitially == Init => TypeOK
<1> SUFFICES ASSUME Init PROVE TypeOK
  OBVIOUS
<1>1. eq \in Seq(Event) /\ cur \in Seq(Event) /\ Len(cur) <= 1
  BY EmptyQueue DEF Init
<1>2. log \in Seq([ev : Event, clock : Times])
  BY EmptyQueue DEF Init
<1>3. handlers \in [Types -> MaybeFn]
  BY DEF Init, MaybeFn
<1>4. capacity \in Nat \ {0} /\ now \in Times /\ created \in 0 .. MaxEvents
  BY CapacityAssumption, BoundsAssumption DEF Init, Times
<1>5. live \subseteq 1 .. created /\ leaked \subseteq 1 .. created
  BY DEF Init
<1>6. Len(eq) <= capacity
  BY CapacityAssumption, EmptyQueue DEF Init
<1>. QED
  BY <1>1, <1>2, <1>3, <1>4, <1>5, <1>6 DEF Init, TypeOK

LEMMA TypeStep == TypeOK /\ [Next]_vars => TypeOK'
<1> SUFFICES ASSUME TypeOK, [Next]_vars PROVE TypeOK'
  OBVIOUS
<1> USE BoundsAssumption DEF TypeOK, cvars, hvars
<1>1. ASSUME NEW ts \in Times, NEW t \in Types, NEW f \in MaybeFn,
             Schedule(ts, t, f)
      PROVE  TypeOK'
  <2>1. NewEvent(ts, t, f) \in Event
    BY DEF NewEvent, Event, Times
  <2>2. PICK i \in 0 .. Len(eq) :
            /\ eq' = PushAt(eq, NewEvent(ts, t, f), i)
            /\ capacity' = Grown(capacity, Len(eq))
    BY <1>1 DEF Schedule, Push
  <2>3. eq' \in Seq(Event)
    BY <2>1, <2>2, PushAtProperties
  <2>4. Len(eq') = Len(eq) + 1
    BY <2>1, <2>2, PushAtProperties DEF Inserted
  <2>5. capacity' \in Nat \ {0} /\ Len(eq') <= capacity'
    BY <2>2, <2>4 DEF Grown
  <2>. QED
    BY <1>1, <2>3, <2>5 DEF Schedule
<1>2. CASE ScheduleFails
  BY <1>2 DEF ScheduleFails
<1>3. ASSUME NEW t \in Types, NEW f \in MaybeFn, Register(t, f)
      PROVE  TypeOK'
  BY <1>3 DEF Register
<1>4. CASE Stop
  BY <1>4 DEF Stop
<1>5. CASE CallStep
  BY <1>5 DEF CallStep
<1>6. CASE CallRun
  BY <1>6 DEF CallRun
<1>7. CASE Free
  <2>1. Len(eq') = 0 /\ eq' \in Seq(Event)
    BY <1>7, EmptyQueue DEF Free
  <2>2. capacity' \in Nat \ {0} /\ Len(eq') <= capacity'
    BY <1>7, <2>1 DEF Free
  <2>3. live' \subseteq 1 .. created' /\ leaked' \subseteq 1 .. created'
    BY <1>7 DEF Free
  <2>. QED
    BY <1>7, <2>1, <2>2, <2>3 DEF Free
<1>8. CASE Dispatch
  <2>1. Head(eq) \in Event /\ Tail(eq) \in Seq(Event)
    BY <1>8 DEF Dispatch
  <2>2. now' = Advance(now, Head(eq).ts) /\ now' \in Times
    BY <1>8, <2>1 DEF Dispatch, Popped, Advance, Event, Times
  <2>3. log' \in Seq([ev : Event, clock : Times])
    <3> DEFINE entry == [ev |-> Head(eq), clock |-> now']
    <3>1. entry \in [ev : Event, clock : Times]
      BY <2>1, <2>2
    <3>2. log' = Append(log, entry)
      BY <1>8 DEF Dispatch, Popped
    <3>. QED
      BY <3>1, <3>2
  <2>4. cur' \in Seq(Event) /\ Len(cur') <= 1
    <3>1. cur' = <<Head(eq)>> \/ cur' = cur
      BY <1>8 DEF Dispatch, Popped
    <3>2. <<Head(eq)>> \in Seq(Event) /\ Len(<<Head(eq)>>) = 1
      BY <2>1, SingletonQueue
    <3>3. CASE cur' = <<Head(eq)>>
      BY <3>2, <3>3
    <3>4. CASE cur' = cur
      BY <3>4
    <3>. QED
      BY <3>1, <3>3, <3>4
  <2>5. Len(Remaining(eq)) <= capacity
    <3>1. Len(Tail(eq)) = Len(eq) - 1
      BY <1>8 DEF Dispatch
    <3>. QED
      BY <3>1 DEF Remaining
  <2>. QED
    BY <1>8, <2>1, <2>2, <2>3, <2>4, <2>5 DEF Dispatch, Remaining
<1>9. CASE HandlerReturns
  <2>1. cur' \in Seq(Event) /\ Len(cur') <= 1
    BY <1>9, EmptyQueue DEF HandlerReturns
  <2>. QED
    BY <1>9, <2>1 DEF HandlerReturns
<1>10. CASE NothingToDo
  BY <1>10 DEF NothingToDo
<1>11. CASE StepReturns
  BY <1>11 DEF StepReturns, Return
<1>12. CASE RunTest
  BY <1>12 DEF RunTest, Return, Again
<1>13. CASE UNCHANGED vars
  BY <1>13 DEF vars
<1>. QED
  BY <1>1, <1>2, <1>3, <1>4, <1>5, <1>6, <1>7, <1>8, <1>9, <1>10, <1>11,
     <1>12, <1>13 DEF Next, Calls, Engine

\* Every variable keeps its type.
THEOREM TypeCorrect == Spec => []TypeOK
  BY TypeInitially, TypeStep, PTL DEF Spec

-----------------------------------------------------------------------------
(***************************************************************************)
(* What a step can do to the queue, the clock and the dispatch log.  Every *)
(* action is one of four, and the invariants below look no further.        *)
(***************************************************************************)
Quiet ==
    /\ UNCHANGED <<eq, log, now>>
    /\ created' = created \/ created' = created + 1

Pushed(e, i) ==
    /\ e.id = created + 1 /\ e.born = Len(log)
    /\ ScanStopsAt(eq, e, i) /\ eq' = PushAt(eq, e, i)
    /\ created' = created + 1
    /\ UNCHANGED <<log, now>>

Dispatched ==
    /\ eq # <<>>
    /\ eq' = Remaining(eq)
    /\ now' = Advance(now, Popped(eq).ts)
    /\ log' = Append(log, [ev |-> Popped(eq), clock |-> now'])
    /\ UNCHANGED created

Drained == eq' = <<>> /\ UNCHANGED <<log, now, created>>

QueueStep ==
    \/ Quiet
    \/ \E e \in Event, i \in 0 .. Len(eq) : Pushed(e, i)
    \/ Dispatched
    \/ Drained

\* The case analysis every invariance proof of this module starts from.
LEMMA QueueSteps ==
    ASSUME TypeOK, [Next]_vars
    PROVE  QueueStep
<1> USE DEF cvars, hvars
<1>1. ASSUME NEW ts \in Times, NEW t \in Types, NEW f \in MaybeFn,
             Schedule(ts, t, f)
      PROVE  \E e \in Event, i \in 0 .. Len(eq) : Pushed(e, i)
  <2> DEFINE e == NewEvent(ts, t, f)
  <2>1. e \in Event /\ e.id = created + 1 /\ e.born = Len(log)
    BY BoundsAssumption DEF NewEvent, Event, Times, TypeOK
  <2>2. PICK i \in 0 .. Len(eq) : ScanStopsAt(eq, e, i) /\ eq' = PushAt(eq, e, i)
    BY <1>1 DEF Schedule, Push
  <2>3. Pushed(e, i)
    BY <1>1, <2>1, <2>2 DEF Schedule, Pushed
  <2>. QED
    BY <2>1, <2>3
<1>2. ScheduleFails => Quiet
  BY DEF ScheduleFails, Quiet
<1>3. ASSUME NEW t \in Types, NEW f \in MaybeFn, Register(t, f)
      PROVE  Quiet
  BY <1>3 DEF Register, Quiet
<1>4. Stop \/ CallStep \/ CallRun => Quiet
  BY DEF Stop, CallStep, CallRun, Quiet
<1>5. Free => Drained
  BY DEF Free, Drained
<1>6. Dispatch => Dispatched
  BY DEF Dispatch, Dispatched
<1>7. HandlerReturns \/ NothingToDo \/ StepReturns \/ RunTest => Quiet
  BY DEF HandlerReturns, NothingToDo, StepReturns, RunTest, Quiet
<1>8. UNCHANGED vars => Quiet
  BY DEF vars, Quiet
<1>. QED
  BY <1>1, <1>2, <1>3, <1>4, <1>5, <1>6, <1>7, <1>8 DEF Next, Calls, Engine, QueueStep

\* A step either leaves the clock alone or dispatches an event, and Advance
\* returns the later of the two times.
LEMMA ClockStep == ASSUME TypeOK, QueueStep PROVE now' >= now
<1>1. now \in Nat
  BY BoundsAssumption DEF TypeOK, Times
<1>2. CASE Dispatched
  <2>1. Popped(eq) \in Event
    BY <1>2, PopProperties DEF TypeOK, Dispatched
  <2>2. Popped(eq).ts \in Nat
    BY <2>1, BoundsAssumption DEF Event, Times
  <2>. QED
    BY <1>1, <1>2, <2>2 DEF Dispatched, Advance
<1>3. CASE ~Dispatched
  BY <1>1, <1>3 DEF QueueStep, Quiet, Pushed, Drained
<1>. QED
  BY <1>2, <1>3

\* The clock never moves backward, whatever handlers schedule into the past.
THEOREM ClockTheorem == Spec => ClockNeverRewinds
<1>1. TypeOK /\ [Next]_vars => [now' >= now]_vars
  BY QueueSteps, ClockStep
<1>. QED
  BY <1>1, TypeCorrect, PTL DEF Spec, ClockNeverRewinds

-----------------------------------------------------------------------------
(***************************************************************************)
(* The order of the queue and of the dispatches.  The queue alone is       *)
(* ordered because ids grow (conjunct IdsAreOld); the dispatch log is, up  *)
(* to events of the past, because whatever is still queued and runs before *)
(* something already dispatched was pushed later (conjunct Overdue).       *)
(***************************************************************************)
IdsAreOld ==
    /\ \A k \in DOMAIN eq : eq[k].id <= created
    /\ \A i \in DOMAIN log : log[i].ev.id <= created

IdsDiffer == \A j, k \in DOMAIN eq : eq[j].id = eq[k].id => j = k

Overdue ==
    /\ \A k \in DOMAIN eq : eq[k].born <= Len(log)
    /\ \A i \in DOMAIN log, k \in DOMAIN eq :
           Before(eq[k], log[i].ev) => eq[k].born >= i

OrderInv ==
    QueueOrdered /\ IdsAreOld /\ IdsDiffer /\ Overdue /\ CausalOrder /\ DispatchedOnce

\* Before is a strict order on events.
LEMMA BeforeIsStrict ==
    ASSUME NEW e \in Event, NEW f \in Event
    PROVE  ~(Before(e, f) /\ Before(f, e))
BY BoundsAssumption DEF Before, Event, Times

\* event_queue_push keeps the invariant: the new event has the largest id, so it
\* belongs behind its equals, which is where the scan stops.
LEMMA PushKeepsOrder ==
    ASSUME TypeOK, OrderInv,
           NEW e \in Event, NEW i \in 0 .. Len(eq), Pushed(e, i)
    PROVE  OrderInv'
<1> DEFINE n == Len(eq)
<1>0. /\ n \in Nat /\ i \in Nat /\ DOMAIN eq = 1 .. n /\ created \in Nat
      /\ DOMAIN log = 1 .. Len(log) /\ Len(log) \in Nat
  BY BoundsAssumption DEF TypeOK
<1>1. /\ \A k \in 1 .. n : eq[k] \in Event
      /\ \A k \in DOMAIN log : log[k].ev \in Event
  <2>1. eq \in Seq(Event) /\ log \in Seq([ev : Event, clock : Times])
    BY DEF TypeOK
  <2>2. \A k \in DOMAIN log : log[k] \in [ev : Event, clock : Times]
    BY <2>1, EntryOf
  <2>. QED
    BY <2>1, <2>2
<1>2. /\ Len(eq') = n + 1 /\ DOMAIN eq' = 1 .. n + 1
      /\ \A k \in 1 .. n + 1 :
            eq'[k] = IF k <= i THEN eq[k] ELSE IF k = i + 1 THEN e ELSE eq[k - 1]
  <2>1. eq \in Seq(Event) /\ eq' = PushAt(eq, e, i)
    BY DEF TypeOK, Pushed
  <2>2. /\ PushAt(eq, e, i) \in Seq(Event)
        /\ Inserted(PushAt(eq, e, i), eq, e, i)
    BY <2>1, PushAtProperties
  <2>. QED
    BY <2>1, <2>2 DEF Inserted
<1>3. log' = log /\ created' = created + 1 /\ e.id = created + 1 /\ e.born = Len(log)
  BY DEF Pushed
<1>4. ScanStopsAt(eq, e, i)
  BY DEF Pushed
<1>5. QueueOrdered'
  <2> SUFFICES ASSUME NEW j \in 1 .. n + 1, NEW k \in 1 .. n + 1, j < k
               PROVE  Before(eq'[j], eq'[k])
    BY <1>2 DEF QueueOrdered
  <2>1. j \in Nat /\ k \in Nat
    BY <1>0
  <2>2. CASE k <= i
    BY <1>0, <1>2, <2>1, <2>2 DEF OrderInv, QueueOrdered
  <2>3. CASE k = i + 1
    <3>1. eq'[k] = e /\ eq'[j] = eq[j] /\ j \in 1 .. i /\ i \in 1 .. n
      BY <1>0, <1>2, <2>1, <2>3
    <3>2. eq[i].ts <= e.ts /\ eq[j].id < e.id
      <4>1. eq[i].ts <= e.ts
        BY <1>0, <1>4, <3>1 DEF ScanStopsAt
      <4>a. j \in 1 .. n
        BY <1>0, <3>1
      <4>b. eq[j] \in Event
        BY <1>1, <4>a
      <4>2. eq[j].id <= created /\ eq[j].id \in Nat
        BY <1>0, <4>a, <4>b DEF OrderInv, IdsAreOld, Event
      <4>. QED
        BY <1>0, <1>3, <4>1, <4>2
    <3>3. j < i => Before(eq[j], eq[i])
      BY <1>0, <3>1 DEF OrderInv, QueueOrdered
    <3>4. eq[j] \in Event /\ eq[i] \in Event
      BY <1>0, <1>1, <3>1
    <3>5. eq[j].ts \in Nat /\ eq[i].ts \in Nat /\ e.ts \in Nat
      <4>1. \A f \in Event : f.ts \in Nat
        BY BoundsAssumption DEF Event, Times
      <4>. QED
        BY <3>4, <4>1
    <3>6. eq[j].ts <= eq[i].ts
      <4>1. CASE j = i
        BY <3>5, <4>1
      <4>2. CASE j < i
        BY <3>3, <3>5, <4>2 DEF Before
      <4>. QED
        BY <3>1, <4>1, <4>2
    <3>7. eq[j].ts <= e.ts /\ eq[j].id < e.id
      BY <3>2, <3>5, <3>6
    <3>. QED
      BY <3>1, <3>5, <3>7 DEF Before
  <2>4. CASE k > i + 1 /\ j = i + 1
    <3>1. eq'[j] = e /\ eq'[k] = eq[k - 1] /\ k - 1 \in i + 1 .. n
      BY <1>0, <1>2, <2>1, <2>4
    <3>2. eq[k - 1].ts > e.ts
      BY <1>0, <1>4, <3>1 DEF ScanStopsAt
    <3>3. eq[k - 1] \in Event
      BY <1>0, <1>1, <3>1
    <3>. QED
      BY <3>1, <3>2, <3>3, BoundsAssumption DEF Before, Event, Times
  <2>5. CASE k > i + 1 /\ j <= i
    <3>1. eq'[j] = eq[j] /\ eq'[k] = eq[k - 1] /\ j \in 1 .. n /\ k - 1 \in 1 .. n /\ j < k - 1
      BY <1>0, <1>2, <2>1, <2>5
    <3>. QED
      BY <1>0, <3>1 DEF OrderInv, QueueOrdered
  <2>6. CASE k > i + 1 /\ j > i + 1
    <3>1. eq'[j] = eq[j - 1] /\ eq'[k] = eq[k - 1] /\ j - 1 \in 1 .. n /\ k - 1 \in 1 .. n
          /\ j - 1 < k - 1
      BY <1>0, <1>2, <2>1, <2>6
    <3>. QED
      BY <1>0, <3>1 DEF OrderInv, QueueOrdered
  <2>. QED
    BY <1>0, <2>1, <2>2, <2>3, <2>4, <2>5, <2>6
<1>6. \A k \in 1 .. n + 1 : eq'[k] = e \/ \E j \in 1 .. n : eq'[k] = eq[j]
  <2> SUFFICES ASSUME NEW k \in 1 .. n + 1
               PROVE  eq'[k] = e \/ \E j \in 1 .. n : eq'[k] = eq[j]
    OBVIOUS
  <2>1. CASE k <= i
    BY <1>0, <1>2, <2>1
  <2>2. CASE k = i + 1
    BY <1>0, <1>2, <2>2
  <2>3. CASE k > i + 1
    <3>1. k - 1 \in 1 .. n /\ eq'[k] = eq[k - 1]
      BY <1>0, <1>2, <2>3
    <3>. QED
      BY <3>1
  <2>. QED
    BY <1>0, <2>1, <2>2, <2>3
<1>7. IdsAreOld'
  <2>1. \A k \in 1 .. n : eq[k].id <= created + 1
    <3>1. \A k \in 1 .. n : eq[k].id \in Nat /\ eq[k].id <= created
      BY <1>0, <1>1 DEF OrderInv, IdsAreOld, Event
    <3>. QED
      BY <1>0, <3>1
  <2>2. \A k \in 1 .. n + 1 : eq'[k].id <= created + 1
    <3>1. e.id <= created + 1
      BY <1>0, <1>3
    <3>. QED
      BY <1>6, <2>1, <3>1
  <2>3. \A k \in DOMAIN log : log[k].ev.id <= created + 1
    <3>1. \A k \in DOMAIN log : log[k].ev.id \in Nat /\ log[k].ev.id <= created
      BY <1>0, <1>1 DEF OrderInv, IdsAreOld, Event
    <3>. QED
      BY <1>0, <3>1
  <2>. QED
    BY <1>2, <1>3, <2>2, <2>3 DEF IdsAreOld
<1>8. IdsDiffer'
  <2> SUFFICES ASSUME NEW j \in 1 .. n + 1, NEW k \in 1 .. n + 1, eq'[j].id = eq'[k].id
               PROVE  j = k
    BY <1>2 DEF IdsDiffer
  <2>1. ASSUME NEW m \in 1 .. n PROVE eq[m].id # e.id
    <3>1. eq[m] \in Event /\ eq[m].id <= created
      BY <1>0, <1>1 DEF OrderInv, IdsAreOld
    <3>2. eq[m].id \in Nat
      BY <3>1 DEF Event
    <3>. QED
      BY <1>0, <1>3, <3>1, <3>2
  <2>2. \A m \in 1 .. n + 1 : m # i + 1 =>
            \E l \in 1 .. n : eq'[m] = eq[l] /\ l = IF m <= i THEN m ELSE m - 1
    BY <1>0, <1>2
  <2>3. eq'[i + 1] = e /\ i + 1 \in 1 .. n + 1
    BY <1>0, <1>2
  <2>4. CASE j = i + 1 \/ k = i + 1
    BY <2>1, <2>2, <2>3, <2>4
  <2>5. CASE j # i + 1 /\ k # i + 1
    <3>1. PICK l \in 1 .. n : eq'[j] = eq[l] /\ l = IF j <= i THEN j ELSE j - 1
      BY <2>2, <2>5
    <3>2. PICK m \in 1 .. n : eq'[k] = eq[m] /\ m = IF k <= i THEN k ELSE k - 1
      BY <2>2, <2>5
    <3>3. l = m
      BY <1>0, <3>1, <3>2 DEF OrderInv, IdsDiffer
    <3>. QED
      BY <1>0, <2>5, <3>1, <3>2, <3>3
  <2>. QED
    BY <2>4, <2>5
<1>9. Overdue'
  <2>1. \A k \in 1 .. n + 1 : eq'[k].born <= Len(log)
    BY <1>0, <1>3, <1>6 DEF OrderInv, Overdue
  <2>2. ASSUME NEW m \in DOMAIN log, NEW k \in 1 .. n + 1, Before(eq'[k], log[m].ev)
        PROVE  eq'[k].born >= m
    <3>1. CASE eq'[k] = e
      BY <1>0, <1>3, <3>1
    <3>2. CASE \E l \in 1 .. n : eq'[k] = eq[l]
      BY <1>0, <2>2, <3>2 DEF OrderInv, Overdue
    <3>. QED
      BY <1>6, <3>1, <3>2
  <2>. QED
    BY <1>2, <1>3, <2>1, <2>2 DEF Overdue
<1>10. CausalOrder' /\ DispatchedOnce'
  <2>1. CausalOrder'
    BY <1>3 DEF OrderInv, CausalOrder
  <2>2. ASSUME NEW k \in DOMAIN log PROVE log[k].ev.id # e.id
    <3>1. log[k].ev \in Event /\ log[k].ev.id <= created
      BY <1>1 DEF OrderInv, IdsAreOld
    <3>2. log[k].ev.id \in Nat
      BY <3>1 DEF Event
    <3>. QED
      BY <1>0, <1>3, <3>1, <3>2
  <2>3. Ids(eq') = Ids(eq) \cup {e.id}
    BY PushIds DEF Pushed, TypeOK
  <2>. QED
    BY <1>3, <2>1, <2>2, <2>3 DEF OrderInv, DispatchedOnce
<1>. QED
  BY <1>5, <1>7, <1>8, <1>9, <1>10 DEF OrderInv

\* Dispatching the first event keeps the invariant: nothing left in the queue
\* runs before it, so nothing becomes overdue.
LEMMA DispatchKeepsOrder ==
    ASSUME TypeOK, OrderInv, Dispatched
    PROVE  OrderInv'
<1> DEFINE e == Popped(eq)
           n == Len(eq)
           m == Len(log)
<1>1. eq \in Seq(Event) /\ log \in Seq([ev : Event, clock : Times]) /\ eq # <<>>
  BY DEF TypeOK, Dispatched
<1>2. /\ n \in Nat \ {0} /\ m \in Nat /\ DOMAIN eq = 1 .. n /\ DOMAIN log = 1 .. m
      /\ e \in Event /\ e = eq[1]
      /\ \A k \in 1 .. n : eq[k] \in Event
  BY <1>1, PopProperties, EntryOf
<1>3. /\ eq' \in Seq(Event) /\ Len(eq') = n - 1
      /\ \A k \in 1 .. n - 1 : eq'[k] = eq[k + 1]
  BY <1>1, PopProperties DEF Dispatched
<1>4. DOMAIN eq' = 1 .. n - 1
  BY <1>3
<1>5. /\ DOMAIN log' = 1 .. m + 1 /\ Len(log') = m + 1
      /\ \A i \in 1 .. m : log'[i] = log[i]
      /\ log'[m + 1].ev = e
  <2> DEFINE entry == [ev |-> e, clock |-> now']
  <2>1. log' = Append(log, entry)
    BY DEF Dispatched
  <2>2. entry.ev = e
    OBVIOUS
  <2>. HIDE DEF entry, e
  <2>3. /\ Len(Append(log, entry)) = m + 1
        /\ \A i \in 1 .. m : Append(log, entry)[i] = log[i]
        /\ Append(log, entry)[m + 1] = entry
        /\ DOMAIN Append(log, entry) = 1 .. m + 1
    BY <1>1, <1>2
  <2>. QED
    BY <2>1, <2>2, <2>3
<1>6. created' = created
  BY DEF Dispatched
<1>. HIDE DEF e
<1>7. \A k \in 1 .. n - 1 : k + 1 \in 2 .. n /\ k + 1 \in DOMAIN eq
  BY <1>2
<1>8. QueueOrdered'
  <2> SUFFICES ASSUME NEW i \in 1 .. n - 1, NEW j \in 1 .. n - 1, i < j
               PROVE  Before(eq'[i], eq'[j])
    BY <1>4 DEF QueueOrdered
  <2>1. i + 1 \in DOMAIN eq /\ j + 1 \in DOMAIN eq /\ i + 1 < j + 1
    BY <1>2, <1>7
  <2>2. Before(eq[i + 1], eq[j + 1])
    BY <2>1 DEF OrderInv, QueueOrdered
  <2>. QED
    BY <1>3, <2>2
<1>9. \A k \in 2 .. n : Before(e, eq[k]) /\ eq[k].id # e.id
  BY <1>2 DEF OrderInv, QueueOrdered, IdsDiffer
<1>10. IdsAreOld'
  <2>1. \A k \in 1 .. n - 1 : eq'[k].id <= created
    BY <1>3, <1>7 DEF OrderInv, IdsAreOld
  <2>2. e.id <= created
    BY <1>2 DEF OrderInv, IdsAreOld
  <2>3. ASSUME NEW i \in 1 .. m + 1 PROVE log'[i].ev.id <= created
    <3>1. CASE i \in 1 .. m
      BY <1>2, <1>5, <3>1 DEF OrderInv, IdsAreOld
    <3>2. CASE i = m + 1
      BY <1>5, <2>2, <3>2
    <3>. QED
      BY <1>2, <3>1, <3>2
  <2>. QED
    BY <1>4, <1>5, <1>6, <2>1, <2>3 DEF IdsAreOld
<1>11. IdsDiffer'
  <2> SUFFICES ASSUME NEW j \in 1 .. n - 1, NEW k \in 1 .. n - 1,
                      eq'[j].id = eq'[k].id
               PROVE  j = k
    BY <1>4 DEF IdsDiffer
  <2>1. j + 1 = k + 1
    BY <1>3, <1>7 DEF OrderInv, IdsDiffer
  <2>. QED
    BY <1>2, <2>1
<1>12. Overdue'
  <2>1. \A k \in 1 .. n - 1 : eq'[k].born <= m /\ eq'[k].born \in Nat
    BY <1>2, <1>3, <1>7 DEF OrderInv, Overdue, Event
  <2>2. \A k \in 1 .. n - 1 : eq'[k].born <= Len(log')
    BY <1>2, <1>5, <2>1
  <2>3. ASSUME NEW i \in 1 .. m + 1, NEW k \in 1 .. n - 1, Before(eq'[k], log'[i].ev)
        PROVE  eq'[k].born >= i
    <3>1. CASE i \in 1 .. m
      BY <1>2, <1>3, <1>5, <1>7, <2>3, <3>1 DEF OrderInv, Overdue
    <3>2. CASE i = m + 1
      <4>1. eq'[k] = eq[k + 1] /\ k + 1 \in 2 .. n /\ eq[k + 1] \in Event
        BY <1>2, <1>3, <1>7
      <4>2. Before(e, eq[k + 1]) /\ Before(eq[k + 1], e)
        BY <1>5, <1>9, <2>3, <3>2, <4>1
      <4>. QED
        BY <1>2, <4>1, <4>2, BeforeIsStrict
    <3>. QED
      BY <1>2, <3>1, <3>2
  <2>. QED
    BY <1>4, <1>5, <2>2, <2>3 DEF Overdue
<1>13. CausalOrder'
  <2> SUFFICES ASSUME NEW i \in 1 .. m + 1, NEW j \in 1 .. m + 1,
                      i < j, Before(log'[j].ev, log'[i].ev)
               PROVE  log'[j].ev.born >= i
    BY <1>5 DEF CausalOrder
  <2>1. i \in 1 .. m
    BY <1>2
  <2>2. CASE j \in 1 .. m
    BY <1>2, <1>5, <2>1, <2>2 DEF OrderInv, CausalOrder
  <2>3. CASE j = m + 1
    <3>1. Before(eq[1], log[i].ev) /\ 1 \in DOMAIN eq /\ i \in DOMAIN log
      BY <1>2, <1>5, <2>1, <2>3
    <3>2. eq[1].born >= i
      BY <3>1 DEF OrderInv, Overdue
    <3>. QED
      BY <1>2, <1>5, <2>3, <3>2
  <2>. QED
    BY <1>2, <2>2, <2>3
<1>14. DispatchedOnce'
  <2>1. \A i \in 1 .. m : log[i].ev.id # e.id
    <3>1. e.id \in Ids(eq)
      BY <1>2 DEF Ids
    <3>. QED
      BY <1>2, <3>1 DEF OrderInv, DispatchedOnce
  <2>2. Ids(eq') = Ids(eq) \ {e.id}
    BY <1>1, PopIds DEF Dispatched, OrderInv, IdsDiffer, e
  <2>3. ASSUME NEW i \in 1 .. m + 1, NEW j \in 1 .. m + 1,
               log'[i].ev.id = log'[j].ev.id
        PROVE  i = j
    <3>1. CASE i \in 1 .. m /\ j \in 1 .. m
      BY <1>2, <1>5, <2>3, <3>1 DEF OrderInv, DispatchedOnce
    <3>2. CASE i = m + 1 \/ j = m + 1
      BY <1>2, <1>5, <2>1, <2>3, <3>2
    <3>. QED
      BY <1>2, <3>1, <3>2
  <2>4. ASSUME NEW i \in 1 .. m + 1 PROVE log'[i].ev.id \notin Ids(eq')
    <3>1. CASE i \in 1 .. m
      BY <1>2, <1>5, <2>2, <3>1 DEF OrderInv, DispatchedOnce
    <3>2. CASE i = m + 1
      BY <1>5, <2>2, <3>2
    <3>. QED
      BY <1>2, <3>1, <3>2
  <2>. QED
    BY <1>5, <2>3, <2>4 DEF DispatchedOnce
<1>. QED
  BY <1>8, <1>10, <1>11, <1>12, <1>13, <1>14 DEF OrderInv

LEMMA OrderInitially == Init => OrderInv
  BY EmptyQueue DEF Init, OrderInv, QueueOrdered, IdsAreOld, IdsDiffer, Overdue,
     CausalOrder, DispatchedOnce

LEMMA OrderStep == ASSUME TypeOK, OrderInv, QueueStep PROVE OrderInv'
<1>1. CASE Quiet
  <2>1. eq' = eq /\ log' = log
    BY <1>1 DEF Quiet
  <2>2. IdsAreOld'
    <3>1. created \in Nat /\ created' >= created /\ created' \in Nat
      BY <1>1, BoundsAssumption DEF TypeOK, Quiet
    <3>2. /\ \A k \in DOMAIN eq : eq[k].id \in Nat
          /\ \A i \in DOMAIN log : log[i].ev.id \in Nat
      <4>1. /\ \A k \in DOMAIN eq : eq[k] \in Event
            /\ \A i \in DOMAIN log : log[i] \in [ev : Event, clock : Times]
        BY EntryOf DEF TypeOK
      <4>. QED
        BY <4>1 DEF Event
    <3>. QED
      BY <2>1, <3>1, <3>2 DEF OrderInv, IdsAreOld
  <2>. QED
    BY <2>1, <2>2 DEF OrderInv, QueueOrdered, IdsDiffer, Overdue, CausalOrder,
       DispatchedOnce
<1>2. ASSUME NEW e \in Event, NEW i \in 0 .. Len(eq), Pushed(e, i)
      PROVE  OrderInv'
  BY <1>2, PushKeepsOrder
<1>3. CASE Dispatched
  BY <1>3, DispatchKeepsOrder
<1>4. CASE Drained
  <2>1. eq' = <<>> /\ DOMAIN eq' = {} /\ log' = log /\ created' = created /\ Ids(eq') = {}
    BY <1>4, EmptyQueue DEF Drained, Ids
  <2>. QED
    BY <2>1 DEF OrderInv, QueueOrdered, IdsAreOld, IdsDiffer, Overdue,
       CausalOrder, DispatchedOnce
<1>. QED
  BY <1>1, <1>2, <1>3, <1>4 DEF QueueStep

\* The invariant holds in every reachable state.
THEOREM OrderTheorem == Spec => []OrderInv
<1>1. TypeOK /\ OrderInv /\ [Next]_vars => OrderInv'
  BY QueueSteps, OrderStep
<1>. QED
  BY <1>1, OrderInitially, TypeCorrect, PTL DEF Spec

\* The queue is ordered by timestamp and push order in every reachable state.
THEOREM QueueOrderTheorem == Spec => []QueueOrdered
<1>1. OrderInv => QueueOrdered
  BY DEF OrderInv
<1>. QED
  BY <1>1, OrderTheorem, PTL

\* Dispatches overtake each other only to catch up with the past.
THEOREM CausalOrderTheorem == Spec => []CausalOrder
<1>1. OrderInv => CausalOrder
  BY DEF OrderInv
<1>. QED
  BY <1>1, OrderTheorem, PTL

\* No event is dispatched twice.
THEOREM DispatchedOnceTheorem == Spec => []DispatchedOnce
<1>1. OrderInv => DispatchedOnce
  BY DEF OrderInv
<1>. QED
  BY <1>1, OrderTheorem, PTL

-----------------------------------------------------------------------------
LEMMA AgendaInitially == Init => A!AInit
  BY EmptyQueue DEF Init, A!AInit, Pending

\* A push is a posting, a dispatch executes the first appointment,
\* scheduler_free discards the agenda, and every other step leaves it alone.
LEMMA AgendaStep ==
    ASSUME TypeOK, OrderInv, QueueStep
    PROVE  A!ANext \/ UNCHANGED A!avars
<1> DEFINE n == Len(eq)
<1>0. /\ n \in Nat /\ DOMAIN eq = 1 .. n /\ created \in Nat
      /\ \A k \in 1 .. n : eq[k] \in Event
  BY EntryOf, BoundsAssumption DEF TypeOK
<1>1. CASE Quiet
  BY <1>1 DEF Quiet, A!avars, Pending
<1>2. ASSUME NEW e \in Event, NEW i \in 0 .. n, Pushed(e, i)
      PROVE  A!ANext
  <2>0. eq' = PushAt(eq, e, i) /\ eq \in Seq(Event) /\ i \in Nat
    BY <1>2 DEF Pushed, TypeOK
  <2>1. eq' \in Seq(Event) /\ Inserted(eq', eq, e, i)
    BY <2>0, PushAtProperties
  <2>2. DOMAIN eq' = 1 .. n + 1
    BY <2>1 DEF Inserted
  <2>3. Pending' \subseteq Pending \cup {e}
    <3> SUFFICES ASSUME NEW k \in 1 .. n + 1
                 PROVE  eq'[k] = e \/ \E j \in 1 .. n : eq'[k] = eq[j]
      BY <1>0, <2>2 DEF Pending
    <3>1. CASE k <= i
      BY <1>0, <2>0, <2>1, <3>1 DEF Inserted
    <3>2. CASE k = i + 1
      BY <1>0, <2>0, <2>1, <3>2 DEF Inserted
    <3>3. CASE k > i + 1
      <4>1. k - 1 \in 1 .. n /\ eq'[k] = eq[k - 1]
        BY <1>0, <2>0, <2>1, <3>3 DEF Inserted
      <4>. QED
        BY <4>1
    <3>. QED
      BY <1>0, <2>0, <3>1, <3>2, <3>3
  <2>4. e \in Pending'
    <3>1. i + 1 \in 1 .. n + 1 /\ eq'[i + 1] = e
      BY <1>0, <2>0, <2>1 DEF Inserted
    <3>. QED
      BY <2>2, <3>1 DEF Pending
  <2>5. ASSUME NEW k \in 1 .. n PROVE eq[k] \in Pending'
    <3>1. CASE k <= i
      <4>1. k \in 1 .. n + 1 /\ eq'[k] = eq[k]
        BY <1>0, <2>0, <2>1, <3>1 DEF Inserted
      <4>. QED
        BY <2>2, <4>1 DEF Pending
    <3>2. CASE k > i
      <4>1. k + 1 \in 1 .. n + 1 /\ eq'[k + 1] = eq[k]
        BY <1>0, <2>0, <2>1, <3>2 DEF Inserted
      <4>. QED
        BY <2>2, <4>1 DEF Pending
    <3>. QED
      BY <1>0, <2>0, <3>1, <3>2
  <2>6. Pending' = Pending \cup {e}
    BY <1>0, <2>3, <2>4, <2>5 DEF Pending
  <2>7. \A f \in Pending : f.id < e.id
    <3>1. \A k \in 1 .. n : eq[k].id \in Nat /\ eq[k].id <= created
      BY <1>0 DEF OrderInv, IdsAreOld, Event
    <3>2. e.id = created + 1
      BY <1>2 DEF Pushed
    <3>. QED
      BY <1>0, <3>1, <3>2 DEF Pending
  <2>8. A!Post(e)
    BY <1>2, <2>6, <2>7 DEF A!Post, Pushed
  <2>. QED
    BY <2>4, <2>8 DEF A!ANext
<1>3. CASE Dispatched
  <2> DEFINE e == Popped(eq)
  <2>0. eq \in Seq(Event) /\ eq # <<>>
    BY <1>3 DEF Dispatched, TypeOK
  <2>1. /\ n \in Nat \ {0} /\ e = eq[1] /\ e \in Event
        /\ eq' \in Seq(Event) /\ Len(eq') = n - 1
        /\ \A k \in 1 .. n - 1 : eq'[k] = eq[k + 1]
    BY <1>3, <2>0, PopProperties DEF Dispatched
  <2>2. DOMAIN eq' = 1 .. n - 1
    BY <2>1
  <2>3. now' = IF e.ts > now THEN e.ts ELSE now
    BY <1>3 DEF Dispatched, Advance
  <2>. HIDE DEF e
  <2>4. \A k \in 2 .. n : Before(e, eq[k])
    BY <1>0, <2>1 DEF OrderInv, QueueOrdered
  <2>5. \A k \in 2 .. n : eq[k] # e
    BY <1>0, <2>1, <2>4, BeforeIsStrict
  <2>6. \A f \in Pending \ {e} : \E k \in 2 .. n : f = eq[k]
    BY <1>0, <2>1 DEF Pending
  <2>7. e \in Pending
    BY <1>0, <2>1 DEF Pending
  <2>8. Pending' = Pending \ {e}
    <3>1. ASSUME NEW k \in 1 .. n - 1 PROVE eq'[k] \in Pending \ {e}
      <4>1. k + 1 \in 2 .. n /\ eq'[k] = eq[k + 1]
        BY <2>1
      <4>. QED
        BY <1>0, <2>5, <4>1 DEF Pending
    <3>2. ASSUME NEW k \in 2 .. n PROVE eq[k] \in Pending'
      <4>1. k - 1 \in 1 .. n - 1 /\ eq'[k - 1] = eq[(k - 1) + 1] /\ (k - 1) + 1 = k
        BY <2>1
      <4>. QED
        BY <2>2, <4>1 DEF Pending
    <3>3. Pending' \subseteq Pending \ {e}
      BY <2>2, <3>1 DEF Pending
    <3>4. Pending \ {e} \subseteq Pending'
      BY <2>6, <3>2
    <3>. QED
      BY <3>3, <3>4
  <2>9. A!First(e)
    BY <2>4, <2>6, <2>7 DEF A!First, A!Earlier, Before
  <2>10. A!Execute(e)
    BY <2>3, <2>8, <2>9 DEF A!Execute
  <2>. QED
    BY <2>7, <2>10 DEF A!ANext
<1>4. CASE Drained
  <2>1. Pending' = {} /\ now' = now
    BY <1>4, EmptyQueue DEF Drained, Pending
  <2>. QED
    BY <2>1 DEF A!ANext, A!Discard
<1>. QED
  BY <1>1, <1>2, <1>3, <1>4 DEF QueueStep

\* The scheduler implements the abstract agenda, step by step.
THEOREM AgendaTheorem == Spec => ImplementsAgenda
<1>1. TypeOK /\ OrderInv /\ [Next]_vars => [A!ANext]_(A!avars)
  BY QueueSteps, AgendaStep
<1>. QED
  BY <1>1, AgendaInitially, TypeCorrect, OrderTheorem, PTL
     DEF Spec, ImplementsAgenda, A!ASpec
=============================================================================
