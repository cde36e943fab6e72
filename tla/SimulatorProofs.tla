-------------------------- MODULE SimulatorProofs --------------------------
(***************************************************************************)
(* Theorems about the scheduler as the simulator drives it: the scheduler's *)
(* own theorems hold under the simulator's steps too, and so do those about *)
(* the run loops, the end time and the ownership of events.                *)
(***************************************************************************)
EXTENDS Simulator, SchedulerProofs

\* The steps the simulator adds to the scheduler's.
Added == InjectFails \/ CallSimRun \/ SimTest

\* An injection is a scheduling, and setting the end time is no step of the
\* scheduler.
LEMMA SimSteps == [SNext]_svars => [Next]_vars \/ Added
<1>. SUFFICES ASSUME [SNext]_svars PROVE [Next]_vars \/ Added
  OBVIOUS
<1>1. ASSUME NEW d \in 0 .. MaxDelay, InjectPacket(d) PROVE Next
  <2>1. Schedule(now + d, PacketSend, NoFn) /\ now + d \in Times
    BY <1>1 DEF InjectPacket
  <2>2. PacketSend \in Types /\ NoFn \in MaybeFn
    BY PacketSendAssumption DEF MaybeFn
  <2>. QED
    BY <2>1, <2>2 DEF Next, Calls
<1>2. ASSUME NEW t \in Times, SetEndTime(t) PROVE UNCHANGED vars
  BY <1>2 DEF SetEndTime
<1>. QED
  BY <1>1, <1>2 DEF SNext, Added, svars

LEMMA AddedIsQuiet == ASSUME TypeOK, Added PROVE TypeOK' /\ Quiet
<1>1. Quiet
  BY DEF Added, InjectFails, CallSimRun, SimTest, Quiet, cvars, hvars
<1>2. CASE InjectFails
  <2>1. created' \in 0 .. MaxEvents /\ 1 .. created \subseteq 1 .. created'
        /\ created + 1 \in 1 .. created'
    BY <1>2, BoundsAssumption DEF InjectFails, TypeOK
  <2>2. live' \subseteq 1 .. created' /\ leaked' \subseteq 1 .. created'
    BY <1>2, <2>1 DEF InjectFails, TypeOK
  <2>. QED
    BY <1>1, <1>2, <2>1, <2>2 DEF InjectFails, TypeOK, cvars
<1>3. CASE CallSimRun
  BY <1>1, <1>3 DEF CallSimRun, TypeOK
<1>4. CASE SimTest
  BY <1>1, <1>4 DEF SimTest, TypeOK, Return, Again, hvars
<1>. QED
  BY <1>2, <1>3, <1>4 DEF Added

LEMMA SimQueueSteps ==
    ASSUME TypeOK, [SNext]_svars PROVE TypeOK' /\ QueueStep
<1>1. CASE [Next]_vars
  BY <1>1, TypeStep, QueueSteps
<1>2. CASE Added
  BY <1>2, AddedIsQuiet DEF QueueStep
<1>. QED
  BY <1>1, <1>2, SimSteps

LEMMA SimOrder == SSpec => [](TypeOK /\ OrderInv)
<1>1. SInit => TypeOK /\ OrderInv
  BY TypeInitially, OrderInitially DEF SInit
<1>2. TypeOK /\ OrderInv /\ [SNext]_svars => (TypeOK /\ OrderInv)'
  BY SimQueueSteps, OrderStep
<1>. QED
  BY <1>1, <1>2, PTL DEF SSpec

\* Type correctness of the scheduler below the simulator.
THEOREM SimTypeCorrect == SSpec => []TypeOK
<1>1. TypeOK /\ OrderInv => TypeOK
  OBVIOUS
<1>. QED
  BY <1>1, SimOrder, PTL

\* event_queue_push keeps the queue ordered also under simulator_run, with its
\* injections and end times.
THEOREM SimQueueOrderTheorem == SSpec => []QueueOrdered
<1>1. TypeOK /\ OrderInv => QueueOrdered
  BY DEF OrderInv
<1>. QED
  BY <1>1, SimOrder, PTL

\* Dispatches overtake each other only to catch up with the past, over any
\* number of runs of either loop.
THEOREM SimCausalOrderTheorem == SSpec => []CausalOrder
<1>1. TypeOK /\ OrderInv => CausalOrder
  BY DEF OrderInv
<1>. QED
  BY <1>1, SimOrder, PTL

\* No event is dispatched twice, by whichever loop.
THEOREM SimDispatchedOnceTheorem == SSpec => []DispatchedOnce
<1>1. TypeOK /\ OrderInv => DispatchedOnce
  BY DEF OrderInv
<1>. QED
  BY <1>1, SimOrder, PTL

\* The clock never moves backward under the simulator either.
THEOREM SimClockTheorem == SSpec => ClockNeverRewinds
<1>1. TypeOK /\ [SNext]_svars => [now' >= now]_vars
  BY SimQueueSteps, ClockStep
<1>. QED
  BY <1>1, SimTypeCorrect, PTL DEF SSpec, ClockNeverRewinds

\* The simulator implements the abstract agenda as well.
THEOREM SimAgendaTheorem == SSpec => ImplementsAgenda
<1>1. TypeOK /\ OrderInv /\ [SNext]_svars => [A!ANext]_(A!avars)
  BY SimQueueSteps, AgendaStep
<1>2. SInit => A!AInit
  BY AgendaInitially DEF SInit
<1>. QED
  BY <1>1, <1>2, SimOrder, PTL DEF SSpec, ImplementsAgenda, A!ASpec

-----------------------------------------------------------------------------
(***************************************************************************)
(* The run loops.  Both loops read one flag, `running', that a handler     *)
(* clears, and the result of the last step.                                *)
(***************************************************************************)
\* A loop is on the stack exactly between its call and its return; it runs
\* unless a handler of this run stopped it; scheduler_step returned 0 because
\* the queue was empty, and still is.
LoopInv ==
    /\ caller = "none" <=> pc \in {"user", "freed"}
    /\ stopReq => ~running
    /\ pc = "step" => ~stopReq
    /\ caller \in {"run", "sim"} /\ ~running => stopReq
    /\ pc = "test" /\ result = 0 => eq = <<>>

LEMMA LoopStep == ASSUME TypeOK, LoopInv, [SNext]_svars PROVE LoopInv'
<1> USE DEF cvars, hvars
<1>t. running \in BOOLEAN /\ stopReq \in BOOLEAN
  BY DEF TypeOK
<1>1. ASSUME UNCHANGED <<caller, pc, running, stopReq>>, pc # "test"
      PROVE  LoopInv'
  BY <1>1 DEF LoopInv
<1>2. ASSUME NEW ts \in Times, NEW t \in Types, NEW f \in MaybeFn, Schedule(ts, t, f)
      PROVE  LoopInv'
  BY <1>1, <1>2 DEF Schedule, InCode
<1>3. CASE ScheduleFails
  BY <1>1, <1>3 DEF ScheduleFails, InCode
<1>4. ASSUME NEW t \in Types, NEW f \in MaybeFn, Register(t, f) PROVE LoopInv'
  BY <1>1, <1>4 DEF Register, InCode
<1>5. CASE Stop
  <2>1. CASE pc = "handler"
    <3>1. stopReq' /\ ~running'
      BY <1>5, <2>1 DEF Stop
    <3>. QED
      BY <1>5, <2>1, <3>1 DEF Stop, LoopInv
  <2>2. CASE pc = "user"
    <3>1. ~stopReq' /\ ~running'
      BY <1>5, <2>2 DEF Stop
    <3>. QED
      BY <1>5, <2>2, <3>1 DEF Stop, LoopInv
  <2>. QED
    BY <1>5, <2>1, <2>2 DEF Stop, InCode
<1>6. CASE CallStep
  BY <1>6 DEF CallStep, LoopInv
<1>7. CASE CallRun
  BY <1>7 DEF CallRun, LoopInv
<1>8. CASE CallSimRun
  BY <1>8 DEF CallSimRun, LoopInv
<1>9. CASE Free
  BY <1>9 DEF Free, LoopInv
<1>10. CASE Dispatch
  <2>1. pc = "step" /\ UNCHANGED <<caller, running, stopReq>>
    BY <1>10 DEF Dispatch
  <2>2. pc' = "handler" \/ (pc' = "test" /\ result' = 1)
    BY <1>10 DEF Dispatch
  <2>. QED
    BY <2>1, <2>2 DEF LoopInv
<1>11. CASE HandlerReturns
  BY <1>11 DEF HandlerReturns, LoopInv
<1>12. CASE NothingToDo
  BY <1>12 DEF NothingToDo, LoopInv
<1>13. CASE StepReturns
  BY <1>13 DEF StepReturns, Return, LoopInv
<1>14. CASE RunTest
  <2>1. CASE RunContinues
    BY <1>14, <2>1 DEF RunTest, RunContinues, Again, LoopInv
  <2>2. CASE ~RunContinues
    BY <1>14, <2>2 DEF RunTest, Return, LoopInv
  <2>. QED
    BY <2>1, <2>2
<1>15. CASE SimTest
  <2>1. CASE SimContinues
    BY <1>15, <2>1 DEF SimTest, SimContinues, Again, LoopInv
  <2>2. CASE ~SimContinues
    BY <1>15, <2>2 DEF SimTest, Return, LoopInv
  <2>. QED
    BY <2>1, <2>2
<1>16. CASE InjectFails
  BY <1>1, <1>16 DEF InjectFails, InCode
<1>17. CASE UNCHANGED vars
  BY <1>17 DEF vars, LoopInv
<1>. QED
  BY <1>2, <1>3, <1>4, <1>5, <1>6, <1>7, <1>8, <1>9, <1>10, <1>11, <1>12, <1>13,
     <1>14, <1>15, <1>16, <1>17, SimSteps DEF Next, Calls, Engine, Added

LEMMA LoopAlways == SSpec => []LoopInv
<1>1. SInit => LoopInv
  BY DEF SInit, Init, LoopInv
<1>2. TypeOK /\ LoopInv /\ [SNext]_svars => LoopInv'
  BY LoopStep
<1>. QED
  BY <1>1, <1>2, SimTypeCorrect, PTL DEF SSpec

\* Only a dispatch writes to the log.
LEMMA OnlyDispatchLogs ==
    ASSUME TypeOK, [SNext]_svars PROVE log' = log \/ Dispatch
<1>1. CASE [Next]_vars
  BY <1>1 DEF Next, Calls, Engine, Schedule, ScheduleFails, Register, Stop, CallStep,
     CallRun, Free, HandlerReturns, NothingToDo, StepReturns, RunTest, vars, hvars
<1>2. CASE Added
  BY <1>2, AddedIsQuiet DEF Quiet
<1>. QED
  BY <1>1, <1>2, SimSteps

\* scheduler_stop is prompt: both loops test the flag before the next step.
THEOREM StopTheorem == SSpec => StopIsPrompt
<1>1. TypeOK /\ LoopInv /\ [SNext]_svars
         => [(stopReq /\ caller # "step") => log' = log]_vars
  BY OnlyDispatchLogs DEF Dispatch, LoopInv
<1>. QED
  BY <1>1, SimTypeCorrect, LoopAlways, PTL DEF SSpec, StopIsPrompt

\* A loop that returns has emptied the queue, was stopped, or reached its end:
\* no flag of an earlier run ends it.
THEOREM RunTheorem == SSpec => RunIsComplete
<1>1. ASSUME TypeOK, LoopInv, [SNext]_svars, caller \in {"run", "sim"}, caller' = "none"
      PROVE  \/ eq' = <<>> \/ stopReq
             \/ caller = "sim" /\ endTime > 0 /\ now >= endTime
  <2>0. result \in {0, 1} /\ running \in BOOLEAN /\ pc \notin {"user", "freed"}
    BY <1>1 DEF TypeOK, LoopInv
  <2>1. RunTest \/ SimTest
    <3>1. CASE [Next]_vars
      BY <1>1, <2>0, <3>1 DEF Next, Calls, Engine, Schedule, ScheduleFails, Register,
         Stop, CallStep, CallRun, Free, Dispatch, HandlerReturns, NothingToDo,
         StepReturns, RunTest, vars
    <3>2. CASE Added
      BY <1>1, <2>0, <3>2 DEF Added, InjectFails, CallSimRun, SimTest
    <3>. QED
      BY <1>1, <3>1, <3>2, SimSteps
  <2>2. eq' = eq /\ pc = "test"
    BY <2>1 DEF RunTest, SimTest
  <2>3. CASE RunTest
    <3>1. ~RunContinues
      BY <1>1, <2>3 DEF RunTest, Again
    <3>. QED
      BY <1>1, <2>0, <2>2, <3>1 DEF RunContinues, LoopInv
  <2>4. CASE SimTest
    <3>1. ~SimContinues /\ caller = "sim"
      BY <1>1, <2>4 DEF SimTest, Again
    <3>. QED
      BY <1>1, <2>0, <2>2, <3>1 DEF SimContinues, EndReached, LoopInv
  <2>. QED
    BY <2>1, <2>3, <2>4
<1>2. TypeOK /\ LoopInv /\ [SNext]_svars
         => [(caller \in {"run", "sim"} /\ caller' = "none") =>
                \/ eq' = <<>> \/ stopReq
                \/ caller = "sim" /\ endTime > 0 /\ now >= endTime]_svars
  BY <1>1
<1>. QED
  BY <1>2, SimTypeCorrect, LoopAlways, PTL DEF SSpec, RunIsComplete
-----------------------------------------------------------------------------
(***************************************************************************)
(* The end time.                                                           *)
(***************************************************************************)
\* No dispatch had a later clock than the present one.  Whenever simulator_run
\* is about to step, every event of this run had its clock before the end.
EndInv ==
    /\ endTime \in Times
    /\ \A i \in DOMAIN log : log[i].clock <= now
    /\ OvershootsOnce
    /\ pc = "step" /\ caller = "sim" /\ endTime > 0 =>
          \A i \in DOMAIN log : mark < i => log[i].clock < endTime

\* A step that is neither a dispatch, a call, a test nor a new end time.
LEMMA EndUntouched ==
    ASSUME EndInv, UNCHANGED <<log, now, endTime, mark, caller>>, pc' # "step" \/ pc' = pc
    PROVE  EndInv'
  BY DEF EndInv, OvershootsOnce

LEMMA EndDispatch ==
    ASSUME TypeOK, LoopInv, EndInv, Dispatch, UNCHANGED <<endTime, mark>>
    PROVE  EndInv'
<1>1. /\ log \in Seq([ev : Event, clock : Times]) /\ eq \in Seq(Event) /\ eq # <<>>
      /\ now \in Nat
  BY BoundsAssumption DEF TypeOK, Dispatch, Times
<1>. DEFINE n == Len(log)
            entry == [ev |-> Popped(eq), clock |-> now']
<1>2. n \in Nat /\ DOMAIN log = 1 .. n
  BY <1>1
<1>3. now' \in Nat /\ now' >= now
  <2>1. Popped(eq) \in Event
    BY <1>1, PopProperties
  <2>2. Popped(eq).ts \in Nat
    BY <2>1, BoundsAssumption DEF Event, Times
  <2>3. now' = Advance(now, Popped(eq).ts)
    BY DEF Dispatch
  <2>. QED
    BY <1>1, <2>2, <2>3 DEF Advance
<1>4. log' = Append(log, entry) /\ entry.clock = now'
  BY DEF Dispatch
<1>. HIDE DEF entry
<1>5. /\ DOMAIN log' = 1 .. n + 1 /\ Len(log') = n + 1
      /\ \A i \in 1 .. n : log'[i] = log[i]
      /\ log'[n + 1].clock = now'
  BY <1>1, <1>2, <1>4
<1>6. \A i \in 1 .. n : log[i].clock \in Nat /\ log[i].clock <= now
  <2>1. \A i \in 1 .. n : log[i] \in [ev : Event, clock : Times]
    BY <1>1, <1>2, EntryOf
  <2>. QED
    BY <1>2, <2>1, BoundsAssumption DEF EndInv, Times
<1>7. \A i \in DOMAIN log' : log'[i].clock <= now'
  <2>1. \A i \in 1 .. n : log'[i].clock <= now'
    BY <1>1, <1>3, <1>5, <1>6
  <2>. QED
    BY <1>2, <1>3, <1>5, <2>1
<1>8. OvershootsOnce'
  <2>1. ASSUME caller = "sim", endTime > 0, NEW i \in 1 .. n, mark < i
        PROVE  log'[i].clock < endTime
    BY <1>2, <1>5, <2>1 DEF Dispatch, EndInv
  <2>2. caller' = caller /\ endTime' = endTime /\ mark' = mark
    BY DEF Dispatch
  <2>3. \A i \in 1 .. n + 1 : i < n + 1 => i \in 1 .. n
    BY <1>2
  <2>. QED
    BY <1>5, <2>1, <2>2, <2>3 DEF OvershootsOnce
<1>9. pc' # "step"
  BY DEF Dispatch
<1>. QED
  BY <1>7, <1>8, <1>9 DEF EndInv

LEMMA EndStep == ASSUME TypeOK, LoopInv, EndInv, [SNext]_svars PROVE EndInv'
<1> USE DEF cvars, hvars
<1>n. Len(log) \in Nat /\ DOMAIN log = 1 .. Len(log) /\ now \in Nat
  BY BoundsAssumption DEF TypeOK, Times
<1>1. ASSUME NEW ts \in Times, NEW t \in Types, NEW f \in MaybeFn, Schedule(ts, t, f),
             UNCHANGED <<endTime, mark>>
      PROVE  EndInv'
  BY <1>1, EndUntouched DEF Schedule
<1>2. CASE (ScheduleFails \/ Stop) /\ UNCHANGED <<endTime, mark>>
  BY <1>2, EndUntouched DEF ScheduleFails, Stop
<1>3. ASSUME NEW t \in Types, NEW f \in MaybeFn, Register(t, f), UNCHANGED <<endTime, mark>>
      PROVE  EndInv'
  BY <1>3, EndUntouched DEF Register
<1>4. ASSUME UNCHANGED <<log, now, endTime>>, caller' # "sim" PROVE EndInv'
  BY <1>4 DEF EndInv, OvershootsOnce
<1>5. CASE (CallStep \/ CallRun) /\ UNCHANGED <<endTime, mark>>
  BY <1>4, <1>5 DEF CallStep, CallRun
<1>6. CASE (Free \/ HandlerReturns \/ NothingToDo) /\ UNCHANGED <<endTime, mark>>
  BY <1>6, EndUntouched DEF Free, HandlerReturns, NothingToDo
<1>7. CASE StepReturns /\ UNCHANGED <<endTime, mark>>
  BY <1>4, <1>7 DEF StepReturns, Return
<1>8. CASE RunTest /\ UNCHANGED <<endTime, mark>>
  BY <1>4, <1>8 DEF RunTest, Return, Again
<1>9. CASE Dispatch /\ UNCHANGED <<endTime, mark>>
  BY <1>9, EndDispatch
<1>10. CASE InjectFails
  BY <1>10, EndUntouched DEF InjectFails
<1>11. CASE CallSimRun
  <2>1. mark' = Len(log) /\ log' = log /\ now' = now /\ endTime' = endTime
    BY <1>11 DEF CallSimRun
  <2>2. \A i \in DOMAIN log' : ~(mark' < i)
    BY <1>n, <2>1
  <2>. QED
    BY <2>1, <2>2 DEF EndInv, OvershootsOnce
<1>12. CASE SimTest
  <2>1. CASE SimContinues
    <3>1. /\ pc' = "step" /\ UNCHANGED <<caller, log, now, endTime, mark>>
          /\ caller = "sim" /\ (endTime > 0 => now < endTime) /\ endTime \in Nat
      BY <1>12, <1>n, <2>1, BoundsAssumption
         DEF SimTest, SimContinues, EndReached, Again, EndInv, Times
    <3>2. \A i \in DOMAIN log : log[i].clock \in Nat /\ log[i].clock <= now
      <4>1. \A i \in DOMAIN log : log[i] \in [ev : Event, clock : Times]
        BY EntryOf DEF TypeOK
      <4>. QED
        BY <4>1, BoundsAssumption DEF EndInv, Times
    <3>. QED
      BY <1>n, <3>1, <3>2 DEF EndInv, OvershootsOnce
  <2>2. CASE ~SimContinues
    BY <1>4, <1>12, <2>2 DEF SimTest, Return
  <2>. QED
    BY <2>1, <2>2
<1>13. ASSUME NEW t \in Times, SetEndTime(t) PROVE EndInv'
  <2>1. /\ UNCHANGED vars /\ InCode /\ endTime' = t
        /\ mark' = IF pc = "handler" THEN Len(log) - 1 ELSE Len(log)
    BY <1>13 DEF SetEndTime
  <2>2. \A i \in DOMAIN log' : ~(mark' < i /\ i < Len(log'))
    BY <1>n, <2>1 DEF vars
  <2>. QED
    BY <2>1, <2>2 DEF EndInv, OvershootsOnce, InCode, vars
<1>14. ASSUME NEW d \in 0 .. MaxDelay, InjectPacket(d) PROVE EndInv'
  BY <1>14, EndUntouched DEF InjectPacket, Schedule
<1>15. CASE UNCHANGED svars
  BY <1>15, EndUntouched DEF svars, vars
<1>. QED
  BY <1>1, <1>2, <1>3, <1>5, <1>6, <1>7, <1>8, <1>9, <1>10, <1>11, <1>12, <1>13,
     <1>14, <1>15 DEF SNext, Next, Calls, Engine

\* simulator_run runs at most one event at a clock that has reached the end
\* time, also when a handler moves the end time during the run.
THEOREM OvershootTheorem == SSpec => []OvershootsOnce
<1>1. SInit => EndInv
  BY EmptyQueue, BoundsAssumption DEF SInit, Init, EndInv, OvershootsOnce, Times
<1>2. TypeOK /\ LoopInv /\ EndInv /\ [SNext]_svars => EndInv'
  BY EndStep
<1>3. EndInv => OvershootsOnce
  BY DEF EndInv
<1>. QED
  BY <1>1, <1>2, <1>3, SimTypeCorrect, LoopAlways, PTL DEF SSpec
-----------------------------------------------------------------------------
(***************************************************************************)
(* Who owns the Event records.                                             *)
(***************************************************************************)
\* An event is in a handler's hands exactly while a handler runs, a record that
\* leaked is never freed, and a freed scheduler has an empty queue.
OwnInv ==
    /\ EventsOwned
    /\ cur # <<>> <=> pc = "handler"
    /\ leaked \subseteq live
    /\ pc = "freed" => eq = <<>>

\* The ids in the queue and in a handler's hands have been given out.
LEMMA OwnedIdsAreOld ==
    ASSUME TypeOK, OwnInv
    PROVE  created \in Nat /\ \A x \in live \cup leaked \cup Ids(eq) \cup Ids(cur) :
                                  x \in Nat /\ x <= created
<1>1. created \in Nat /\ live \subseteq 1 .. created /\ leaked \subseteq 1 .. created
  BY BoundsAssumption DEF TypeOK
<1>2. Ids(eq) \cup Ids(cur) \subseteq live
  BY DEF OwnInv, EventsOwned
<1>. QED
  BY <1>1, <1>2

LEMMA NothingHeld == Ids(<<>>) = {}
  BY EmptyQueue DEF Ids

\* A handler's event is the only one it holds.
LEMMA HeldId == ASSUME NEW e \in Event PROVE Ids(<<e>>) = {e.id} /\ <<e>> # <<>>
<1>1. DOMAIN <<e>> = {1} /\ <<e>>[1] = e /\ <<e>> # <<>>
  OBVIOUS
<1>. HIDE DEF Event
<1>2. Ids(<<e>>) = {<<e>>[k].id : k \in {1}}
  BY <1>1 DEF Ids
<1>. QED
  BY <1>1, <1>2

LEMMA OwnUntouched ==
    ASSUME OwnInv, UNCHANGED <<eq, cur, live, leaked>>,
           pc' = "handler" <=> pc = "handler", pc' # "freed" \/ pc' = pc
    PROVE  OwnInv'
  BY DEF OwnInv, EventsOwned, Ids

\* scheduler_schedule gives the new record to the queue.
LEMMA OwnSchedule ==
    ASSUME TypeOK, OwnInv,
           NEW ts \in Times, NEW t \in Types, NEW f \in MaybeFn, Schedule(ts, t, f)
    PROVE  OwnInv'
<1>. DEFINE e == NewEvent(ts, t, f)
<1>1. e \in Event /\ e.id = created + 1
  BY BoundsAssumption DEF NewEvent, Event, Times, TypeOK
<1>2. PICK i \in 0 .. Len(eq) : eq' = PushAt(eq, e, i)
  BY DEF Schedule, Push
<1>3. /\ cur' = cur /\ pc' = pc /\ leaked' = leaked /\ live' = live \cup {created + 1}
      /\ pc \in {"user", "handler"}
  BY DEF Schedule, InCode
<1>. HIDE DEF e
<1>4. Ids(eq') = Ids(eq) \cup {created + 1}
  BY <1>1, <1>2, PushIds DEF TypeOK
<1>5. Ids(cur') = Ids(cur)
  BY <1>3
<1>6. created + 1 \notin live \cup leaked \cup Ids(eq) \cup Ids(cur)
  BY OwnedIdsAreOld
<1>. QED
  BY <1>3, <1>4, <1>5, <1>6 DEF OwnInv, EventsOwned

\* simulator_inject_packet that fails gives the record to nobody.
LEMMA OwnInjectFails == ASSUME TypeOK, OwnInv, InjectFails PROVE OwnInv'
<1>1. /\ UNCHANGED <<eq, cur, pc>> /\ InCode
      /\ live' = live \cup {created + 1} /\ leaked' = leaked \cup {created + 1}
  BY DEF InjectFails, cvars
<1>2. created + 1 \notin live \cup leaked \cup Ids(eq) \cup Ids(cur)
  BY OwnedIdsAreOld
<1>3. Ids(eq') = Ids(eq) /\ Ids(cur') = Ids(cur)
  BY <1>1
<1>. QED
  BY <1>1, <1>2, <1>3 DEF OwnInv, EventsOwned, InCode

\* scheduler_step hands the first event to its handler, or frees it at once.
LEMMA OwnDispatch == ASSUME TypeOK, OwnInv, IdsDiffer, Dispatch PROVE OwnInv'
<1>. DEFINE e == Popped(eq)
<1>1. eq \in Seq(Event) /\ eq # <<>> /\ eq' = Remaining(eq) /\ leaked' = leaked
      /\ pc = "step"
  BY DEF TypeOK, Dispatch
<1>2. e \in Event
  BY <1>1, PopProperties
<1>3. e.id \in Ids(eq) /\ Ids(eq') = Ids(eq) \ {e.id}
  BY <1>1, PopIds DEF IdsDiffer
<1>4. \/ pc' = "handler" /\ cur' = <<e>> /\ live' = live
      \/ pc' = "test" /\ live' = live \ {e.id} /\ cur' = cur
  BY DEF Dispatch
<1>. HIDE DEF e
<1>5. cur = <<>> /\ Ids(cur) = {}
  BY <1>1, NothingHeld DEF OwnInv
<1>6. Ids(eq) = live \ leaked
  BY <1>5 DEF OwnInv, EventsOwned
<1>7. CASE pc' = "handler" /\ cur' = <<e>> /\ live' = live
  <2>1. Ids(cur') = {e.id} /\ cur' # <<>>
    BY <1>2, <1>7, HeldId
  <2>. QED
    BY <1>1, <1>3, <1>6, <1>7, <2>1 DEF OwnInv, EventsOwned
<1>8. CASE pc' = "test" /\ live' = live \ {e.id} /\ cur' = cur
  <2>1. Ids(cur') = {} /\ cur' = <<>>
    BY <1>5, <1>8
  <2>. QED
    BY <1>1, <1>3, <1>6, <1>8, <2>1 DEF OwnInv, EventsOwned
<1>. QED
  BY <1>4, <1>7, <1>8

\* When the handler returns its event is freed, and nothing else.
LEMMA OwnReturn == ASSUME OwnInv, HandlerReturns PROVE OwnInv'
<1>1. /\ cur' = <<>> /\ live' = live \ Ids(cur) /\ eq' = eq /\ leaked' = leaked
      /\ pc' = "test"
  BY DEF HandlerReturns, cvars
<1>2. Ids(cur') = {} /\ Ids(eq') = Ids(eq)
  BY <1>1, NothingHeld
<1>. QED
  BY <1>1, <1>2 DEF OwnInv, EventsOwned

\* scheduler_free frees what is queued: nothing is in a handler's hands.
LEMMA OwnFree == ASSUME OwnInv, Free PROVE OwnInv'
<1>1. /\ eq' = <<>> /\ live' = live \ Ids(eq) /\ cur' = cur /\ leaked' = leaked
      /\ pc = "user" /\ pc' = "freed"
  BY DEF Free
<1>2. cur = <<>> /\ Ids(cur) = {} /\ Ids(cur') = {} /\ Ids(eq') = {}
  BY <1>1, NothingHeld DEF OwnInv
<1>. QED
  BY <1>1, <1>2 DEF OwnInv, EventsOwned

LEMMA OwnStep == ASSUME TypeOK, OwnInv, IdsDiffer, [SNext]_svars PROVE OwnInv'
<1> USE DEF cvars, hvars
<1>1. ASSUME NEW t \in Types, NEW f \in MaybeFn, Register(t, f) PROVE OwnInv'
  BY <1>1, OwnUntouched DEF Register
<1>2. CASE ScheduleFails \/ Stop \/ CallStep \/ CallRun \/ CallSimRun
  BY <1>2, OwnUntouched DEF ScheduleFails, Stop, CallStep, CallRun, CallSimRun
<1>3. CASE NothingToDo \/ StepReturns \/ RunTest \/ SimTest
  BY <1>3, OwnUntouched DEF NothingToDo, StepReturns, RunTest, SimTest, Return, Again
<1>4. CASE UNCHANGED vars
  BY <1>4, OwnUntouched DEF vars
<1>. QED
  BY <1>1, <1>2, <1>3, <1>4, OwnSchedule, OwnInjectFails, OwnDispatch, OwnReturn, OwnFree,
     SimSteps DEF Next, Calls, Engine, Added

LEMMA OwnAlways == SSpec => []OwnInv
<1>1. SInit => OwnInv
  BY NothingHeld DEF SInit, Init, OwnInv, EventsOwned
<1>2. TypeOK /\ OrderInv /\ OwnInv /\ [SNext]_svars => OwnInv'
  BY OwnStep DEF OrderInv
<1>. QED
  BY <1>1, <1>2, SimOrder, PTL DEF SSpec

\* Every Event record that is allocated and did not leak is in the queue or in
\* the hands of the running handler, and neither holds one that was freed.
THEOREM OwnershipTheorem == SSpec => []EventsOwned
<1>1. OwnInv => EventsOwned
  BY DEF OwnInv
<1>. QED
  BY <1>1, OwnAlways, PTL

\* scheduler_free leaves only what failed injections leaked.
THEOREM LeakTheorem == SSpec => []OnlyInjectLeaks
<1>1. ASSUME OwnInv PROVE OnlyInjectLeaks
  <2>1. ASSUME pc = "freed" PROVE live = leaked
    <3>1. eq = <<>> /\ cur = <<>>
      BY <1>1, <2>1 DEF OwnInv
    <3>2. Ids(eq) = {} /\ Ids(cur) = {}
      BY <3>1, NothingHeld
    <3>. QED
      BY <1>1, <3>2 DEF OwnInv, EventsOwned
  <2>. QED
    BY <2>1 DEF OnlyInjectLeaks
<1>. QED
  BY <1>1, OwnAlways, PTL
=============================================================================
