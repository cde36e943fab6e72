------------------------------ MODULE Simulator ------------------------------
(***************************************************************************)
(* engine/simulator.c on top of the scheduler: packet injection, the end   *)
(* time and the simulator's own run loop, which tests the end time after   *)
(* every step.  simulator_stop, simulator_step and                         *)
(* simulator_register_handler are Stop, CallStep and Register.             *)
(***************************************************************************)
EXTENDS Scheduler

CONSTANTS
    PacketSend,   \* EVT_PACKET_SEND, a member of Types
    MaxDelay      \* bound: largest injection delay

ASSUME PacketSendAssumption == PacketSend \in Types /\ MaxDelay \in Nat

VARIABLES
    endTime,   \* sim->end_time, 0 for no limit
    mark       \* history: events dispatched before this end time applied

svars == <<vars, endTime, mark>>

SInit == Init /\ endTime = 0 /\ mark = 0

SetEndTime(t) ==
    /\ InCode
    /\ endTime' = t
    /\ mark' = IF pc = "handler" THEN Len(log) - 1 ELSE Len(log)
    /\ UNCHANGED vars

\* simulator_inject_packet: the event carries no callback of its own.
InjectPacket(delay) ==
    /\ now + delay \in Times
    /\ Schedule(now + delay, PacketSend, NoFn)
    /\ UNCHANGED <<endTime, mark>>

\* It returns -1 when the queue cannot grow, and does not free the event.
InjectFails ==
    /\ InCode /\ created < MaxEvents /\ Len(eq) >= capacity
    /\ created' = created + 1
    /\ live' = live \cup {created + 1}
    /\ leaked' = leaked \cup {created + 1}
    /\ UNCHANGED <<cvars, caller, pc, result, cur, log, stopReq, endTime, mark>>

CallSimRun ==
    /\ pc = "user"
    /\ caller' = "sim" /\ pc' = "step" /\ stopReq' = FALSE
    /\ running' = TRUE
    /\ mark' = Len(log)
    /\ UNCHANGED <<eq, capacity, now, handlers, result, cur,
                   live, leaked, created, log, endTime>>

\* A faulty test that compares the clock strictly.
EndMissed == endTime > 0 /\ now > endTime

EndReached == endTime > 0 /\ now >= endTime

\* A faulty loop condition for which end time 0 has always been reached.
SimStopsAtZero == running /\ result = 1 /\ now < endTime

\* A faulty loop condition that never looks at the stop flag.
SimIgnoresStop == result = 1 /\ ~EndReached

\* The two tests after scheduler_step and the while condition of simulator_run.
SimContinues == running /\ result = 1 /\ ~EndReached

SimTest ==
    /\ pc = "test" /\ caller = "sim"
    /\ IF SimContinues
       THEN Again /\ UNCHANGED running
       ELSE Return /\ running' = FALSE
    /\ UNCHANGED <<eq, capacity, now, handlers, result, cur, hvars,
                   endTime, mark>>

SNext ==
    \/ Next /\ UNCHANGED <<endTime, mark>>
    \/ \E t \in Times : SetEndTime(t)
    \/ \E d \in 0 .. MaxDelay : InjectPacket(d)
    \/ InjectFails
    \/ CallSimRun
    \/ SimTest

SSpec == SInit /\ [][SNext]_svars

-----------------------------------------------------------------------------
\* The run dispatches at most one event at a clock that has reached the end
\* time: the test comes after the step, so the event that crosses the end still
\* runs (simulator.c:35-44), and nothing after it.
OvershootsOnce ==
    caller = "sim" /\ endTime > 0 =>
        \A i \in DOMAIN log : mark < i /\ i < Len(log) => log[i].clock < endTime

\* scheduler_run and simulator_run return only when the queue is empty or a handler
\* stopped them, simulator_run also when the end time has been reached: no test of
\* a flag or a limit that was left over from an earlier run ends a new one.
RunIsComplete ==
    [][(caller \in {"run", "sim"} /\ caller' = "none") =>
            \/ eq' = <<>> \/ stopReq
            \/ caller = "sim" /\ endTime > 0 /\ now >= endTime]_svars

\* Once the scheduler is freed every record that is still allocated was leaked by
\* a failed simulator_inject_packet.
OnlyInjectLeaks == pc = "freed" => live = leaked
=============================================================================
