----------------------------- MODULE EventQueue -----------------------------
(***************************************************************************)
(* The timestamp-ordered event queue of engine/event.c as operators on     *)
(* sequences.  An entry is a record with a field `ts' (its timestamp) and  *)
(* a field `id' (its identity: the order in which the entries were         *)
(* pushed, which the C code has only as the pointer).                      *)
(***************************************************************************)
EXTENDS Naturals, Sequences, SequencesExt

\* e runs before f: by timestamp, and in push order when the timestamps tie.
Before(e, f) == e.ts < f.ts \/ (e.ts = f.ts /\ e.id < f.id)

\* A faulty scan that also moves past entries of equal timestamp.
ScanPassesTies(q, e, i) ==
    /\ i > 0 => q[i].ts < e.ts
    /\ \A k \in i+1 .. Len(q) : q[k].ts >= e.ts

\* The loop of event_queue_push walks down from the last entry while the entry
\* is strictly later than e; it stops at position i (0: all entries are later).
ScanStopsAt(q, e, i) ==
    /\ i > 0 => q[i].ts <= e.ts
    /\ \A k \in i+1 .. Len(q) : q[k].ts > e.ts

\* The queue after e is stored just behind position i.
PushAt(q, e, i) == InsertAt(q, i + 1, e)

\* A faulty growth test that is off by one.
GrownLate(capacity, count) == IF count > capacity THEN 2 * capacity ELSE capacity

\* realloc doubles the array, only when it is full.
Grown(capacity, count) == IF count >= capacity THEN 2 * capacity ELSE capacity

\* A faulty memmove that moves one entry too few.
RemainingShort(q) ==
    [k \in 1 .. Len(q) - 1 |-> IF k < Len(q) - 1 THEN q[k + 1] ELSE q[k]]

\* event_queue_pop of a nonempty queue: the entry returned and what remains.
Popped(q)    == Head(q)
Remaining(q) == Tail(q)

\* The ids of the entries of a queue.
Ids(q) == {q[k].id : k \in DOMAIN q}
=============================================================================
