------------------------------- MODULE Agenda -------------------------------
(***************************************************************************)
(* What a discrete-event scheduler promises, without its queue: a set of   *)
(* appointments, each with a time and an age (its id), of which the first  *)
(* one is always executed next, under a clock that only moves forward.     *)
(***************************************************************************)
EXTENDS Naturals

VARIABLES pending, clock

avars == <<pending, clock>>

Earlier(e, f) == e.ts < f.ts \/ (e.ts = f.ts /\ e.id < f.id)

\* e is due: nothing pending runs before it.
First(e) == e \in pending /\ \A f \in pending \ {e} : Earlier(e, f)

AInit == pending = {} /\ clock = 0

\* A new appointment is younger than all pending ones; its time is arbitrary.
Post(e) ==
    /\ \A f \in pending : f.id < e.id
    /\ pending' = pending \cup {e}
    /\ UNCHANGED clock

Execute(e) ==
    /\ First(e)
    /\ pending' = pending \ {e}
    /\ clock' = IF e.ts > clock THEN e.ts ELSE clock

\* The agenda is thrown away.
Discard == pending' = {} /\ UNCHANGED clock

ANext ==
    \/ \E e \in pending' : Post(e)
    \/ \E e \in pending : Execute(e)
    \/ Discard

ASpec == AInit /\ [][ANext]_avars
=============================================================================
