------------------------------ MODULE Scheduler ------------------------------
(***************************************************************************)
(* The discrete-event scheduler: engine/scheduler.c on the event queue of  *)
(* engine/event.c.  The program is one thread; the interleaving modelled   *)
(* is re-entrancy: while scheduler_step is inside a handler, the handler   *)
(* itself schedules, registers and stops.  `caller' is the driver on the   *)
(* C stack and `pc' the point it has reached:                              *)
(*    user     no driver runs, the application may call anything;          *)
(*    step     about to pop the queue;                                     *)
(*    handler  an event's handler is running;                              *)
(*    test     scheduler_step has returned `result' to the driver;         *)
(*    freed    scheduler_free has run.                                     *)
(***************************************************************************)
EXTENDS EventQueue

CONSTANTS
    Types,        \* event types with an entry in the handler table
    Fns,          \* handler functions
    NoFn,         \* the NULL handler
    InitCapacity, \* capacity scheduler_create is given
    MaxTime,      \* bound: largest timestamp an event is given
    MaxEvents     \* bound: number of events ever created

ASSUME NoFnAssumption       == NoFn \notin Fns
ASSUME CapacityAssumption   == InitCapacity \in Nat \ {0}
ASSUME BoundsAssumption     == MaxTime \in Nat /\ MaxEvents \in Nat

VARIABLES
    eq,        \* the queue
    capacity,  \* allocated entries of its array
    now,       \* s->now
    running,   \* s->running, as a boolean
    handlers,  \* s->handlers: the fallback handler of every type
    caller,    \* driver on the stack: none, step (scheduler_step), run, sim
    pc,        \* where it is
    result,    \* what scheduler_step returned
    cur,       \* the event being dispatched, as a sequence of length 0 or 1
    live,      \* history: ids of the Event records allocated and not freed
    leaked,    \* history: ids of records nobody owns any more
    created,   \* history: number of events created, the next id minus one
    log,       \* history: dispatched events, with the clock of their dispatch
    stopReq    \* history: scheduler_stop was called by a handler of this run

cvars == <<eq, capacity, now, running, handlers>>
hvars == <<live, leaked, created, log, stopReq>>
vars  == <<cvars, caller, pc, result, cur, hvars>>

Times == 0 .. MaxTime
MaybeFn == Fns \cup {NoFn}

\* `born' is history: how many events had been dispatched at the push.
Event == [id : Nat \ {0}, ts : Times, type : Types, fn : MaybeFn, born : Nat]

\* Types; the queue never holds more entries than its array has room for.
TypeOK ==
    /\ eq \in Seq(Event)
    /\ capacity \in Nat \ {0} /\ Len(eq) <= capacity
    /\ now \in Times
    /\ running \in BOOLEAN
    /\ handlers \in [Types -> MaybeFn]
    /\ caller \in {"none", "step", "run", "sim"}
    /\ pc \in {"user", "step", "handler", "test", "freed"}
    /\ result \in {0, 1}
    /\ cur \in Seq(Event) /\ Len(cur) <= 1
    /\ created \in 0 .. MaxEvents
    /\ live \subseteq 1 .. created
    /\ leaked \subseteq 1 .. created
    /\ log \in Seq([ev : Event, clock : Times])
    /\ stopReq \in BOOLEAN

Init ==
    /\ eq = <<>> /\ capacity = InitCapacity
    /\ now = 0 /\ running = FALSE
    /\ handlers = [t \in Types |-> NoFn]
    /\ caller = "none" /\ pc = "user" /\ result = 0 /\ cur = <<>>
    /\ live = {} /\ leaked = {} /\ created = 0 /\ log = <<>>
    /\ stopReq = FALSE

-----------------------------------------------------------------------------
(***************************************************************************)
(* Calls of the public interface, from the application or from a handler.  *)
(***************************************************************************)
InCode == pc \in {"user", "handler"}

NewEvent(ts, t, f) ==
    [id |-> created + 1, ts |-> ts, type |-> t, fn |-> f, born |-> Len(log)]

\* event_queue_push, when the array has room or realloc succeeds.
Push(e) ==
    \E i \in 0 .. Len(eq) :
        /\ ScanStopsAt(eq, e, i)
        /\ eq' = PushAt(eq, e, i)
        /\ capacity' = Grown(capacity, Len(eq))

\* event_create_callback (or event_create when f is NoFn) and
\* scheduler_schedule.  No check compares ts with now: the past is legal.
Schedule(ts, t, f) ==
    /\ InCode /\ created < MaxEvents
    /\ Push(NewEvent(ts, t, f))
    /\ created' = created + 1
    /\ live' = live \cup {created + 1}
    /\ UNCHANGED <<now, running, handlers, caller, pc, result, cur,
                   leaked, log, stopReq>>

\* scheduler_schedule returns -1 because realloc failed: the callers in
\* link.c, switch.c and tcp.c then free the event they created.
ScheduleFails ==
    /\ InCode /\ created < MaxEvents /\ Len(eq) >= capacity
    /\ created' = created + 1
    /\ UNCHANGED <<cvars, caller, pc, result, cur, live, leaked, log, stopReq>>

Register(t, f) ==
    /\ InCode
    /\ handlers' = [handlers EXCEPT ![t] = f]
    /\ UNCHANGED <<eq, capacity, now, running, caller, pc, result, cur, hvars>>

\* scheduler_stop only clears the flag.  Outside a run that is lost, because
\* the next run sets it again.
Stop ==
    /\ InCode
    /\ running' = FALSE
    /\ stopReq' = (pc = "handler")
    /\ UNCHANGED <<eq, capacity, now, handlers, caller, pc, result, cur,
                   live, leaked, created, log>>

\* The application calls scheduler_step directly.
CallStep ==
    /\ pc = "user"
    /\ caller' = "step" /\ pc' = "step" /\ stopReq' = FALSE
    /\ UNCHANGED <<cvars, result, cur, live, leaked, created, log>>

CallRun ==
    /\ pc = "user"
    /\ caller' = "run" /\ pc' = "step" /\ stopReq' = FALSE
    /\ running' = TRUE
    /\ UNCHANGED <<eq, capacity, now, handlers, result, cur,
                   live, leaked, created, log>>

-----------------------------------------------------------------------------
(***************************************************************************)
(* scheduler_step.                                                         *)
(***************************************************************************)
\* A faulty clock that follows the event into the past.
ClockFollows(clock, ts) == ts

\* now moves forward to the event's time and never backward.
Advance(clock, ts) == IF ts > clock THEN ts ELSE clock

\* The event's own callback first, the table's entry of its type otherwise.
Resolve(e) == IF e.fn # NoFn THEN e.fn ELSE handlers[e.type]

\* Pop the first event and enter its handler; an event nobody handles is
\* freed at once and the step returns.
Dispatch ==
    /\ pc = "step" /\ eq # <<>>
    /\ LET e == Popped(eq) IN
         /\ eq' = Remaining(eq)
         /\ now' = Advance(now, e.ts)
         /\ log' = Append(log, [ev |-> e, clock |-> now'])
         /\ IF Resolve(e) # NoFn
            THEN /\ pc' = "handler" /\ cur' = <<e>>
                 /\ UNCHANGED <<live, result>>
            ELSE /\ pc' = "test" /\ result' = 1
                 /\ live' = live \ {e.id}
                 /\ UNCHANGED cur
    /\ UNCHANGED <<capacity, running, handlers, caller, leaked, created, stopReq>>

\* A faulty step that forgets event_free.
HandlerForgets ==
    /\ pc = "handler"
    /\ pc' = "test" /\ result' = 1 /\ cur' = <<>>
    /\ UNCHANGED <<cvars, caller, hvars>>

\* The handler returns; scheduler_step frees the event and returns 1.
HandlerReturns ==
    /\ pc = "handler"
    /\ pc' = "test" /\ result' = 1 /\ cur' = <<>>
    /\ live' = live \ Ids(cur)
    /\ UNCHANGED <<cvars, caller, leaked, created, log, stopReq>>

\* The queue is empty: scheduler_step returns 0.
NothingToDo ==
    /\ pc = "step" /\ eq = <<>>
    /\ pc' = "test" /\ result' = 0
    /\ UNCHANGED <<cvars, caller, cur, hvars>>

Return == caller' = "none" /\ pc' = "user"
Again  == pc' = "step" /\ UNCHANGED caller

StepReturns ==
    /\ pc = "test" /\ caller = "step"
    /\ Return
    /\ UNCHANGED <<cvars, result, cur, hvars>>

\* The while condition of scheduler_run.
RunContinues == result = 1 /\ running

\* scheduler_run: next iteration, or clear the flag and return.
RunTest ==
    /\ pc = "test" /\ caller = "run"
    /\ IF RunContinues
       THEN Again /\ UNCHANGED running
       ELSE Return /\ running' = FALSE
    /\ UNCHANGED <<eq, capacity, now, handlers, result, cur, hvars>>

\* scheduler_free pops and frees every event left in the queue.
Free ==
    /\ pc = "user"
    /\ pc' = "freed"
    /\ eq' = <<>>
    /\ live' = live \ Ids(eq)
    /\ UNCHANGED <<capacity, now, running, handlers, caller, result, cur,
                   leaked, created, log, stopReq>>

Calls ==
    \/ \E ts \in Times, t \in Types, f \in MaybeFn : Schedule(ts, t, f)
    \/ ScheduleFails
    \/ \E t \in Types, f \in MaybeFn : Register(t, f)
    \/ Stop \/ CallStep \/ CallRun \/ Free

Engine == Dispatch \/ HandlerReturns \/ NothingToDo \/ StepReturns \/ RunTest

Next == Calls \/ Engine

Spec == Init /\ [][Next]_vars

-----------------------------------------------------------------------------
(***************************************************************************)
(* Properties.                                                             *)
(***************************************************************************)
\* The queue is strictly ordered by (timestamp, push order) at every moment,
\* whatever handlers push while an event is being dispatched
\* (event_queue_push, event.c:94-101).
QueueOrdered ==
    \A i, j \in DOMAIN eq : i < j => Before(eq[i], eq[j])

\* An event overtakes another one that runs earlier than it should only when it
\* was pushed after the other had already been dispatched: events are executed in
\* (timestamp, push) order except for those scheduled into the past.
CausalOrder ==
    \A i, j \in DOMAIN log :
        (i < j /\ Before(log[j].ev, log[i].ev)) => log[j].ev.born >= i

\* Every event is dispatched at most once, and not while it is still queued.
DispatchedOnce ==
    /\ \A i, j \in DOMAIN log : log[i].ev.id = log[j].ev.id => i = j
    /\ \A i \in DOMAIN log : log[i].ev.id \notin Ids(eq)

\* Ownership of Event records: what is allocated is queued, being dispatched or
\* leaked, nothing in the queue or in a handler's hands has been freed, and
\* after scheduler_free only leaked records remain.
EventsOwned ==
    /\ Ids(eq) \cup Ids(cur) = live \ leaked
    /\ Ids(eq) \cap Ids(cur) = {}

\* Virtual time never moves backward, also when an event of the past runs.
ClockNeverRewinds == [][now' >= now]_vars

\* After a handler called scheduler_stop no further event of the same run is
\* dispatched: the current one finishes and the loop ends.
StopIsPrompt == [][(stopReq /\ caller # "step") => log' = log]_vars

\* The queue as the agenda it implements.
Pending == {eq[k] : k \in DOMAIN eq}
A == INSTANCE Agenda WITH pending <- Pending, clock <- now

\* The scheduler implements the abstract agenda: every dispatch executes the
\* event that is first in the agenda, under a clock that only moves forward.
ImplementsAgenda == A!ASpec
=============================================================================
