---------------------------- MODULE SwitchProofs ----------------------------
(***************************************************************************)
(* Theorems about the switch and its MAC table, for every number of ports, *)
(* every size of the table and every age limit and interval.               *)
(***************************************************************************)
EXTENDS Switch, FiniteSetTheorems, TLAPS

Entry  == [mac : Macs, port : Ports, age : 0 .. Oldest]
Memory == [port : Ports, age : 0 .. Oldest]

\* The types of the table, of the history and of the event's timer.
Typed ==
    /\ entries \in [Slots -> Entry \cup {NoEntry}]
    /\ seen \in [Macs -> Memory \cup {NoEntry}]
    /\ up \in [Ports -> BOOLEAN] /\ due \in 0 .. Interval

\* An entry gets no older than MAC_AGE_MS by the next age event, and that comes
\* within the interval.
AgeBound == \A i \in Used : entries[i].age + due <= MacAge + Interval

TableInv ==
    /\ Typed /\ TableAgrees /\ TableIsMemory /\ AgeBound /\ NoEntryForDownPort

-----------------------------------------------------------------------------
(***************************************************************************)
(* What a step can do to the table.  Every action is one of these.         *)
(***************************************************************************)
\* A frame from m came in at p: slot i, its own or a free one, is written.
Learnt(m, p, i) ==
    /\ m \in Macs /\ p \in Ports /\ up[p] /\ i \in Slots
    /\ \/ i \in SlotsOf(entries, m) /\ count' = count
       \/ i \notin Used /\ SlotsOf(entries, m) = {} /\ count' = count + 1
    /\ entries' = [entries EXCEPT ![i] = [mac |-> m, port |-> p, age |-> 0]]
    /\ seen' = [seen EXCEPT ![m] = [port |-> p, age |-> 0]]
    /\ UNCHANGED <<up, due>>

\* The table is as it was; a port may have come up.
Untouched ==
    /\ UNCHANGED <<entries, count, seen, due>>
    /\ up' \in [Ports -> BOOLEAN]
    /\ \A p \in Ports : up[p] => up'[p]

LEMMA AssumedNats ==
    /\ TableSize \in Nat /\ MacAge \in Nat /\ Interval \in Nat \ {0}
    /\ Oldest \in Nat /\ Oldest = MacAge + Interval + 1
  BY SwitchAssumption DEF Oldest

LEMMA EntryIsUsed == NoEntry \notin Entry /\ NoEntry \notin Memory
  BY SwitchAssumption, AssumedNats DEF Entry, Memory

LEMMA UsedFinite == \A S \in SUBSET Slots : IsFiniteSet(S) /\ Cardinality(S) \in Nat
<1>1. IsFiniteSet(Slots)
  BY FS_Interval, AssumedNats DEF Slots
<1>. QED
  BY <1>1, FS_Subset, FS_CardinalityType

\* mac_table_learn writes one slot.
LEMMA LearnWrites ==
    ASSUME TableInv, NEW m \in Macs, NEW p \in Ports, up[p], Learn(m, p),
           seen' = [seen EXCEPT ![m] = [port |-> p, age |-> 0]],
           UNCHANGED <<up, due>>
    PROVE  \E i \in Slots : Learnt(m, p, i)
<1>1. CASE SlotsOf(entries, m) # {}
  <2>1. PICK i \in Slots : First(SlotsOf(entries, m), i) /\ Refresh(m, p, i)
    BY <1>1 DEF Learn
  <2>2. i \in SlotsOf(entries, m) /\ count' = count
    BY <2>1 DEF First, Refresh
  <2>3. entries[i] \in Entry /\ entries[i].mac = m
    BY <2>2 DEF SlotsOf, TableInv, Typed
  <2>4. entries' = [entries EXCEPT ![i] = [mac |-> m, port |-> p, age |-> 0]]
    <3>1. PICK e \in Entry : e = entries[i]
      BY <2>3
    <3>2. [[e EXCEPT !.port = p] EXCEPT !.age = 0] = [mac |-> m, port |-> p, age |-> 0]
      <4>1. PICK x : x = [[e EXCEPT !.port = p] EXCEPT !.age = 0]
        OBVIOUS
      <4>. DEFINE y == [e EXCEPT !.port = p]
      <4>4. y \in Entry /\ y.mac = m /\ y.port = p
        BY <2>3, <3>1 DEF Entry
      <4>5. 0 \in 0 .. Oldest
        BY AssumedNats
      <4>2. x \in Entry /\ x.mac = m /\ x.port = p /\ x.age = 0
        <5>. HIDE DEF y
        <5>. QED
          BY <4>1, <4>4, <4>5 DEF Entry, y
      <4>3. x = [mac |-> x.mac, port |-> x.port, age |-> x.age]
        BY <4>2 DEF Entry
      <4>. QED
        BY <4>1, <4>2, <4>3
    <3>3. entries' = [entries EXCEPT ![i] = [[e EXCEPT !.port = p] EXCEPT !.age = 0]]
      BY <2>1, <3>1 DEF Refresh, TableInv, Typed
    <3>. QED
      BY <3>2, <3>3
  <2>. QED
    BY <2>2, <2>4 DEF Learnt
<1>2. CASE SlotsOf(entries, m) = {}
  BY <1>2 DEF Learn, Insert, First, Learnt
<1>. QED
  BY <1>1, <1>2

\* Every action that is not a receive, an age event, a tick or a port that goes
\* down leaves the table alone.
LEMMA TableSteps ==
    ASSUME TableInv, [Next]_vars,
           \A p \in Ports : wire[p] \in Seq(Frame)
    PROVE  \/ Untouched
           \/ \E m \in Macs, p \in Ports, i \in Slots : Learnt(m, p, i)
           \/ Tick \/ AgeEvent
           \/ \E p \in Ports : PortDown(p)
<1>. DEFINE Goal == \/ Untouched
                    \/ \E m \in Macs, p \in Ports, i \in Slots : Learnt(m, p, i)
                    \/ Tick \/ AgeEvent
                    \/ \E p \in Ports : PortDown(p)
<1>0. ASSUME UNCHANGED <<entries, count, seen, up, due>> PROVE Goal
  BY <1>0 DEF Untouched, TableInv, Typed
<1>1. ASSUME NEW p \in Ports, NEW f \in Frame, SwitchReceive(p, f), UNCHANGED <<up, due>>
      PROVE  Goal
  <2>1. f.src \in Macs
    BY DEF Frame
  <2>2. CASE up[p] /\ CanLearn(f.src)
    <3>1. /\ Learn(f.src, p) /\ up[p]
          /\ seen' = [seen EXCEPT ![f.src] = [port |-> p, age |-> 0]]
      BY <1>1, <2>2 DEF SwitchReceive
    <3>2. \E i \in Slots : Learnt(f.src, p, i)
      BY <1>1, <2>1, <3>1, LearnWrites
    <3>. QED
      BY <2>1, <3>2
  <2>3. CASE ~(up[p] /\ CanLearn(f.src))
    BY <1>0, <1>1, <2>3 DEF SwitchReceive
  <2>. QED
    BY <2>2, <2>3
<1>2. ASSUME NEW p \in Ports, NEW d \in Macs \cup {Broadcast}, StationSends(p, d)
      PROVE  Goal
  BY <1>0, <1>2 DEF StationSends
<1>3. ASSUME NEW p \in Ports, NEW m \in Others, NEW d \in Macs \cup {Broadcast},
             Inject(p, m, d)
      PROVE  Goal
  <2>1. [src |-> m, dst |-> d] \in Frame
    BY DEF Frame, Macs
  <2>. QED
    BY <1>1, <1>3, <2>1 DEF Inject
<1>4. ASSUME NEW p \in Ports, Deliver(p) PROVE Goal
  <2>1. Head(wire[p]) \in Frame
    BY <1>4 DEF Deliver
  <2>2. CASE Accepts(p, Head(wire[p]))
    BY <1>1, <1>4, <2>1, <2>2 DEF Deliver
  <2>3. CASE ~Accepts(p, Head(wire[p]))
    BY <1>0, <1>4, <2>3 DEF Deliver
  <2>. QED
    BY <2>2, <2>3
<1>5. ASSUME NEW p \in Ports, StationReceives(p) PROVE Goal
  BY <1>0, <1>5 DEF StationReceives
<1>6. ASSUME NEW p \in Ports, PortUp(p) PROVE Goal
  BY <1>6 DEF PortUp, Untouched, TableInv, Typed
<1>7. CASE UNCHANGED vars
  BY <1>0, <1>7 DEF vars
<1>. QED
  BY <1>2, <1>3, <1>4, <1>5, <1>6, <1>7 DEF Next

-----------------------------------------------------------------------------
(***************************************************************************)
(* The table after each of them.                                           *)
(***************************************************************************)
\* What a learnt address leaves in the slots.
LEMMA LearntSlots ==
    ASSUME TableInv, NEW m \in Macs, NEW p \in Ports, NEW i \in Slots, Learnt(m, p, i)
    PROVE  LET new == [mac |-> m, port |-> p, age |-> 0] IN
           /\ Typed'
           /\ entries'[i] = new /\ \A j \in Slots \ {i} : entries'[j] = entries[j]
           /\ Used' = Used \cup {i}
           /\ SlotsOf(entries', m) = {i}
           /\ \A n \in Macs \ {m} : /\ SlotsOf(entries', n) = SlotsOf(entries, n)
                                   /\ i \notin SlotsOf(entries, n)
                                   /\ seen'[n] = seen[n]
           /\ seen'[m] = [port |-> p, age |-> 0]
<1>. DEFINE new == [mac |-> m, port |-> p, age |-> 0]
            mem == [port |-> p, age |-> 0]
<1>1. new \in Entry /\ new # NoEntry /\ mem \in Memory
  BY EntryIsUsed, AssumedNats DEF Entry, Memory
<1>2. new.mac = m /\ new.port = p /\ new.age = 0
  OBVIOUS
<1>. HIDE DEF new, mem
<1>3. entries' = [entries EXCEPT ![i] = new] /\ seen' = [seen EXCEPT ![m] = mem]
  BY DEF Learnt, new, mem
<1>4. Typed'
  BY <1>1, <1>3 DEF TableInv, Typed, Learnt
<1>5. entries'[i] = new /\ \A j \in Slots \ {i} : entries'[j] = entries[j]
  BY <1>3 DEF TableInv, Typed
<1>6. Used' = Used \cup {i}
  BY <1>1, <1>5 DEF Used
<1>7. \A j \in SlotsOf(entries, m) : j = i
  BY DEF Learnt, SlotsOf, Used, TableInv, TableAgrees
<1>8. SlotsOf(entries', m) = {i}
  BY <1>1, <1>2, <1>5, <1>7 DEF SlotsOf
<1>9. \A n \in Macs \ {m} : i \notin SlotsOf(entries, n)
  BY DEF Learnt, SlotsOf, Used
<1>10. \A n \in Macs \ {m} : SlotsOf(entries', n) = SlotsOf(entries, n)
  BY <1>1, <1>2, <1>5, <1>9 DEF SlotsOf
<1>11. seen'[m] = mem /\ \A n \in Macs \ {m} : seen'[n] = seen[n]
  BY <1>3 DEF TableInv, Typed
<1>. QED
  BY <1>4, <1>5, <1>6, <1>8, <1>9, <1>10, <1>11 DEF new, mem

LEMMA LearntKeeps ==
    ASSUME TableInv, NEW m \in Macs, NEW p \in Ports, NEW i \in Slots, Learnt(m, p, i)
    PROVE  TableInv'
<1>. DEFINE new == [mac |-> m, port |-> p, age |-> 0]
<1>0. new.mac = m /\ new.port = p /\ new.age = 0
  OBVIOUS
<1>. HIDE DEF new
<1>1. /\ Typed'
      /\ entries'[i] = new /\ \A j \in Slots \ {i} : entries'[j] = entries[j]
      /\ Used' = Used \cup {i}
      /\ SlotsOf(entries', m) = {i}
      /\ \A n \in Macs \ {m} : /\ SlotsOf(entries', n) = SlotsOf(entries, n)
                              /\ i \notin SlotsOf(entries, n)
                              /\ seen'[n] = seen[n]
      /\ seen'[m] = [port |-> p, age |-> 0]
  BY LearntSlots DEF new
<1>2. \A j \in Used' : j = i \/ (j \in Used /\ entries'[j] = entries[j])
  BY <1>1 DEF Used
<1>3. TableAgrees'
  <2>1. count' = Cardinality(Used')
    <3>1. IsFiniteSet(Used) /\ count = Cardinality(Used) /\ Cardinality(Used) \in Nat
      BY UsedFinite DEF Used, TableInv, TableAgrees
    <3>2. CASE i \in Used
      <4>1. Used' = Used /\ count' = count
        BY <1>1, <3>2 DEF Learnt, SlotsOf, Used
      <4>. QED
        BY <3>1, <4>1
    <3>3. CASE i \notin Used
      <4>1. count' = count + 1
        BY <3>3 DEF Learnt, SlotsOf, Used
      <4>. QED
        BY <1>1, <3>1, <3>3, <4>1, FS_AddElement
    <3>. QED
      BY <3>2, <3>3
  <2>2. ASSUME NEW j \in Used', NEW k \in Used', entries'[j].mac = entries'[k].mac
        PROVE  j = k
    <3>1. \A l \in Used' : l # i => entries'[l].mac # m
      BY <1>1 DEF SlotsOf, Used
    <3>2. entries'[i].mac = m
      BY <1>0, <1>1
    <3>. QED
      BY <1>2, <2>2, <3>1, <3>2 DEF TableInv, TableAgrees
  <2>. QED
    BY <2>1, <2>2 DEF TableAgrees
<1>4. TableIsMemory'
  <2>1. ASSUME NEW n \in Macs
        PROVE  /\ \A j \in SlotsOf(entries', n) :
                     seen'[n] = [port |-> entries'[j].port, age |-> entries'[j].age]
               /\ seen'[n] # NoEntry /\ seen'[n].age <= MacAge
                     => SlotsOf(entries', n) # {}
    <3>1. CASE n = m
      BY <1>0, <1>1, <3>1
    <3>2. CASE n # m
      <4>1. \A j \in SlotsOf(entries, n) : entries'[j] = entries[j]
        BY <1>1, <3>2 DEF SlotsOf
      <4>. QED
        BY <1>1, <3>2, <4>1 DEF TableInv, TableIsMemory
    <3>. QED
      BY <3>1, <3>2
  <2>. QED
    BY <2>1 DEF TableIsMemory
<1>5. AgeBound'
  BY <1>0, <1>1, <1>2, AssumedNats DEF AgeBound, TableInv, Typed, Learnt
<1>6. NoEntryForDownPort'
  BY <1>0, <1>1, <1>2 DEF NoEntryForDownPort, TableInv, Learnt
<1>. QED
  BY <1>1, <1>3, <1>4, <1>5, <1>6 DEF TableInv

LEMMA UntouchedKeeps == ASSUME TableInv, Untouched PROVE TableInv'
<1>1. Used' = Used /\ \A m : SlotsOf(entries', m) = SlotsOf(entries, m)
  BY DEF Used, SlotsOf, Untouched
<1>2. \A i \in Used : entries[i].port \in Ports
  BY EntryIsUsed DEF Used, TableInv, Typed, Entry
<1>. QED
  BY <1>1, <1>2 DEF TableInv, Typed, TableAgrees, TableIsMemory, AgeBound,
                    NoEntryForDownPort, Untouched

\* An entry, or a memory, that gets one tick older.
LEMMA OlderRecord ==
    /\ Older(NoEntry) = NoEntry
    /\ \A e \in Entry :
          /\ Older(e) \in Entry /\ Older(e).mac = e.mac /\ Older(e).port = e.port
          /\ Older(e).age = IF e.age = Oldest THEN Oldest ELSE e.age + 1
    /\ \A e \in Memory :
          Older(e) = [port |-> e.port,
                      age |-> IF e.age = Oldest THEN Oldest ELSE e.age + 1]
<1>1. Older(NoEntry) = NoEntry
  BY DEF Older
<1>2. ASSUME NEW e \in Entry
      PROVE  /\ Older(e) \in Entry /\ Older(e).mac = e.mac /\ Older(e).port = e.port
             /\ Older(e).age = IF e.age = Oldest THEN Oldest ELSE e.age + 1
  BY EntryIsUsed, AssumedNats DEF Older, Entry
<1>3. ASSUME NEW e \in Memory
      PROVE  Older(e) = [port |-> e.port,
                         age |-> IF e.age = Oldest THEN Oldest ELSE e.age + 1]
  BY EntryIsUsed, AssumedNats DEF Older, Memory
<1>. QED
  BY <1>1, <1>2, <1>3

\* A tick ages the table and the history alike.
LEMMA TickKeeps == ASSUME TableInv, Tick PROVE TableInv'
<1>1. /\ due > 0 /\ due' = due - 1 /\ count' = count /\ up' = up
      /\ entries' = [i \in Slots |-> Older(entries[i])]
      /\ seen' = [m \in Macs |-> Older(seen[m])]
  BY DEF Tick
<1>2. /\ entries \in [Slots -> Entry \cup {NoEntry}] /\ due \in 0 .. Interval
      /\ seen \in [Macs -> Memory \cup {NoEntry}] /\ up \in [Ports -> BOOLEAN]
  BY DEF TableInv, Typed
<1>3. Typed'
  <2>1. \A e \in Memory : Older(e) \in Memory
    BY OlderRecord, AssumedNats DEF Memory
  <2>2. entries' \in [Slots -> Entry \cup {NoEntry}]
    BY <1>1, <1>2, OlderRecord
  <2>3. seen' \in [Macs -> Memory \cup {NoEntry}]
    BY <1>1, <1>2, <2>1, OlderRecord
  <2>. QED
    BY <1>1, <1>2, <2>2, <2>3, AssumedNats DEF Typed
<1>4. Used' = Used
  BY <1>1, <1>2, OlderRecord, EntryIsUsed DEF Used
<1>5. ASSUME NEW i \in Used
      PROVE  /\ entries[i] \in Entry /\ entries'[i] \in Entry
             /\ entries'[i].mac = entries[i].mac /\ entries'[i].port = entries[i].port
             /\ entries'[i].age = entries[i].age + 1 /\ entries[i].age < Oldest
  <2>1. i \in Slots /\ entries[i] \in Entry /\ entries'[i] = Older(entries[i])
    BY <1>1, <1>2 DEF Used
  <2>2. entries[i].age + due <= MacAge + Interval /\ entries[i].age \in Nat
    BY <2>1, AssumedNats DEF TableInv, AgeBound, Entry
  <2>3. entries[i].age < Oldest
    BY <1>1, <1>2, <2>2, AssumedNats
  <2>4. /\ Older(entries[i]) \in Entry /\ Older(entries[i]).mac = entries[i].mac
        /\ Older(entries[i]).port = entries[i].port
        /\ Older(entries[i]).age = IF entries[i].age = Oldest THEN Oldest
                                   ELSE entries[i].age + 1
    BY <2>1, OlderRecord
  <2>. QED
    BY <2>1, <2>2, <2>3, <2>4, AssumedNats
<1>6. \A m : SlotsOf(entries', m) = SlotsOf(entries, m)
  BY <1>4, <1>5 DEF SlotsOf, Used
<1>7. TableAgrees'
  <2>1. count' = Cardinality(Used')
    BY <1>1, <1>4 DEF TableInv, TableAgrees
  <2>2. \A i, j \in Used' : entries'[i].mac = entries'[j].mac => i = j
    BY <1>4, <1>5 DEF TableInv, TableAgrees
  <2>. QED
    BY <2>1, <2>2 DEF TableAgrees
<1>8. TableIsMemory'
  <2>1. ASSUME NEW m \in Macs, NEW i \in SlotsOf(entries', m)
        PROVE  seen'[m] = [port |-> entries'[i].port, age |-> entries'[i].age]
    <3>1. i \in Used /\ seen[m] = [port |-> entries[i].port, age |-> entries[i].age]
      BY <1>6, <2>1 DEF TableInv, TableIsMemory, SlotsOf, Used
    <3>2. seen[m] \in Memory /\ seen'[m] = Older(seen[m])
      BY <1>1, <1>5, <3>1 DEF Memory, Entry
    <3>3. seen[m].port = entries[i].port /\ seen[m].age = entries[i].age
      BY <3>1
    <3>4. entries[i].age # Oldest
      BY <1>5, <3>1, AssumedNats DEF Entry
    <3>5. seen'[m] = [port |-> entries[i].port, age |-> entries[i].age + 1]
      BY <3>2, <3>3, <3>4, OlderRecord
    <3>. QED
      BY <1>5, <3>1, <3>5
  <2>2. ASSUME NEW m \in Macs, seen'[m] # NoEntry, seen'[m].age <= MacAge
        PROVE  SlotsOf(entries', m) # {}
    <3>1. seen[m] \in Memory /\ seen'[m] = Older(seen[m]) /\ seen[m] # NoEntry
      BY <1>1, <1>2, <2>2, OlderRecord, EntryIsUsed
    <3>2. seen'[m].age = IF seen[m].age = Oldest THEN Oldest ELSE seen[m].age + 1
      BY <3>1, OlderRecord
    <3>3. seen[m].age <= MacAge
      BY <2>2, <3>1, <3>2, AssumedNats DEF Memory
    <3>. QED
      BY <1>6, <3>1, <3>3 DEF TableInv, TableIsMemory
  <2>. QED
    BY <2>1, <2>2 DEF TableIsMemory
<1>9. AgeBound'
  <2>1. ASSUME NEW i \in Used PROVE entries'[i].age + due' <= MacAge + Interval
    <3>1. entries[i].age + due <= MacAge + Interval /\ entries[i].age \in Nat
      BY <1>5, AssumedNats DEF TableInv, AgeBound, Entry
    <3>. QED
      BY <1>1, <1>2, <1>5, <3>1, AssumedNats
  <2>. QED
    BY <1>4, <2>1 DEF AgeBound
<1>10. NoEntryForDownPort'
  BY <1>1, <1>4, <1>5 DEF TableInv, NoEntryForDownPort
<1>. QED
  BY <1>3, <1>7, <1>8, <1>9, <1>10 DEF TableInv
\* A set of slots becomes invalid, and nothing else.
LEMMA InvalidateSlots ==
    ASSUME TableInv, NEW S \in SUBSET Used, Invalidate(S)
    PROVE  /\ entries' \in [Slots -> Entry \cup {NoEntry}]
           /\ Used' = Used \ S
           /\ \A i \in Used' : i \in Used /\ entries'[i] = entries[i]
           /\ \A m : SlotsOf(entries', m) = SlotsOf(entries, m) \ S
           /\ TableAgrees'
<1>1. /\ entries' = [i \in Slots |-> IF i \in S THEN NoEntry ELSE entries[i]]
      /\ count' = count - Cardinality(S)
      /\ entries \in [Slots -> Entry \cup {NoEntry}]
  BY DEF Invalidate, TableInv, Typed
<1>2. entries' \in [Slots -> Entry \cup {NoEntry}]
  BY <1>1
<1>3. Used' = Used \ S
  BY <1>1 DEF Used
<1>4. \A i \in Used' : i \in Used /\ entries'[i] = entries[i]
  BY <1>1 DEF Used
<1>5. \A m : SlotsOf(entries', m) = SlotsOf(entries, m) \ S
  BY <1>1 DEF SlotsOf
<1>6. TableAgrees'
  <2>1. Used \in SUBSET Slots /\ S \in SUBSET Slots
    BY DEF Used
  <2>2. IsFiniteSet(Used) /\ IsFiniteSet(S) /\ Cardinality(Used) \in Nat
        /\ Cardinality(S) \in Nat
    BY <2>1, UsedFinite
  <2>3. Used \cap S = S
    OBVIOUS
  <2>4. Cardinality(Used \ S) = Cardinality(Used) - Cardinality(S)
    BY <2>2, <2>3, FS_Difference
  <2>5. count' = Cardinality(Used')
    BY <1>1, <1>3, <2>4 DEF TableInv, TableAgrees
  <2>. QED
    BY <1>4, <2>5 DEF TableInv, TableAgrees
<1>. QED
  BY <1>2, <1>3, <1>4, <1>5, <1>6

\* The age event takes out what is older than MAC_AGE_MS, so what stays is
\* young enough for the interval up to the next one.
LEMMA AgeEventKeeps == ASSUME TableInv, AgeEvent PROVE TableInv'
<1>1. /\ due = 0 /\ due' = Interval /\ up' = up /\ seen' = seen /\ Invalidate(Expired)
  BY DEF AgeEvent, NextAge
<1>2. Expired \in SUBSET Used
  BY DEF Expired
<1>3. /\ entries' \in [Slots -> Entry \cup {NoEntry}]
      /\ Used' = Used \ Expired
      /\ \A i \in Used' : i \in Used /\ entries'[i] = entries[i]
      /\ \A m : SlotsOf(entries', m) = SlotsOf(entries, m) \ Expired
      /\ TableAgrees'
  BY <1>1, <1>2, InvalidateSlots
<1>4. Typed'
  BY <1>1, <1>3, AssumedNats DEF TableInv, Typed
<1>5. TableIsMemory'
  <2>1. ASSUME NEW m \in Macs, NEW i \in SlotsOf(entries', m)
        PROVE  seen'[m] = [port |-> entries'[i].port, age |-> entries'[i].age]
    <3>1. i \in SlotsOf(entries, m) /\ i \in Used'
      BY <1>3, <2>1 DEF SlotsOf, Used
    <3>. QED
      BY <1>1, <1>3, <3>1 DEF TableInv, TableIsMemory
  <2>2. ASSUME NEW m \in Macs, seen'[m] # NoEntry, seen'[m].age <= MacAge
        PROVE  SlotsOf(entries', m) # {}
    <3>1. PICK i \in SlotsOf(entries, m) : TRUE
      BY <1>1, <2>2 DEF TableInv, TableIsMemory
    <3>2. seen[m] = [port |-> entries[i].port, age |-> entries[i].age]
      BY <3>1 DEF TableInv, TableIsMemory
    <3>3. entries[i].age <= MacAge
      BY <1>1, <2>2, <3>2
    <3>4. entries[i].age \in Nat
      BY <3>1, AssumedNats DEF SlotsOf, TableInv, Typed, Entry
    <3>5. i \notin Expired
      BY <3>3, <3>4, AssumedNats DEF Expired
    <3>. QED
      BY <1>3, <3>1, <3>5
  <2>. QED
    BY <2>1, <2>2 DEF TableIsMemory
<1>6. AgeBound'
  <2>1. ASSUME NEW i \in Used' PROVE entries'[i].age + due' <= MacAge + Interval
    <3>1. i \in Used /\ i \notin Expired /\ entries'[i] = entries[i]
      BY <1>3
    <3>2. entries[i].age \in Nat
      BY <3>1, AssumedNats DEF Used, TableInv, Typed, Entry
    <3>3. entries[i].age <= MacAge
      BY <3>1, <3>2, AssumedNats DEF Expired
    <3>. QED
      BY <1>1, <3>1, <3>2, <3>3, AssumedNats
  <2>. QED
    BY <2>1 DEF AgeBound
<1>7. NoEntryForDownPort'
  BY <1>1, <1>3 DEF TableInv, NoEntryForDownPort
<1>. QED
  BY <1>3, <1>4, <1>5, <1>6, <1>7 DEF TableInv

\* A port that goes down takes its entries, and what is remembered of it, along.
LEMMA PortDownKeeps == ASSUME TableInv, NEW p \in Ports, PortDown(p) PROVE TableInv'
<1>1. /\ up' = [up EXCEPT ![p] = FALSE] /\ due' = due /\ Invalidate(PortSlots(p))
      /\ seen' = [m \in Macs |-> IF seen[m] # NoEntry /\ seen[m].port = p
                                 THEN NoEntry ELSE seen[m]]
  BY DEF PortDown
<1>2. PortSlots(p) \in SUBSET Used
  BY DEF PortSlots
<1>3. /\ entries' \in [Slots -> Entry \cup {NoEntry}]
      /\ Used' = Used \ PortSlots(p)
      /\ \A i \in Used' : i \in Used /\ entries'[i] = entries[i]
      /\ \A m : SlotsOf(entries', m) = SlotsOf(entries, m) \ PortSlots(p)
      /\ TableAgrees'
  BY <1>1, <1>2, InvalidateSlots
<1>4. Typed'
  BY <1>1, <1>3 DEF TableInv, Typed
<1>5. \A i \in Used' : entries[i].port # p
  BY <1>3 DEF PortSlots
<1>6. TableIsMemory'
  <2>1. ASSUME NEW m \in Macs, NEW i \in SlotsOf(entries', m)
        PROVE  seen'[m] = [port |-> entries'[i].port, age |-> entries'[i].age]
    <3>1. i \in SlotsOf(entries, m) /\ i \in Used' /\ entries'[i] = entries[i]
      BY <1>3, <2>1 DEF SlotsOf, Used
    <3>2. seen[m] = [port |-> entries[i].port, age |-> entries[i].age]
      BY <3>1 DEF TableInv, TableIsMemory
    <3>3. seen[m].port # p
      BY <1>5, <3>1, <3>2
    <3>. QED
      BY <1>1, <3>1, <3>2, <3>3
  <2>2. ASSUME NEW m \in Macs, seen'[m] # NoEntry, seen'[m].age <= MacAge
        PROVE  SlotsOf(entries', m) # {}
    <3>1. seen'[m] = seen[m] /\ seen[m].port # p
      BY <1>1, <2>2
    <3>2. PICK i \in SlotsOf(entries, m) : TRUE
      BY <2>2, <3>1 DEF TableInv, TableIsMemory
    <3>3. seen[m] = [port |-> entries[i].port, age |-> entries[i].age]
      BY <3>2 DEF TableInv, TableIsMemory
    <3>4. i \notin PortSlots(p)
      BY <3>1, <3>3 DEF PortSlots
    <3>. QED
      BY <1>3, <3>2, <3>4
  <2>. QED
    BY <2>1, <2>2 DEF TableIsMemory
<1>7. AgeBound'
  BY <1>1, <1>3 DEF TableInv, AgeBound
<1>8. NoEntryForDownPort'
  BY <1>1, <1>3, <1>5, EntryIsUsed DEF TableInv, NoEntryForDownPort, Typed, Used, Entry
<1>. QED
  BY <1>3, <1>4, <1>6, <1>7, <1>8 DEF TableInv
-----------------------------------------------------------------------------
(***************************************************************************)
(* Together.                                                               *)
(***************************************************************************)
LEMMA TableInitially == Init => TableInv /\ TypeOK
<1>. SUFFICES ASSUME Init PROVE TableInv /\ TypeOK
  OBVIOUS
<1>1. Used = {} /\ \A m : SlotsOf(entries, m) = {}
  BY DEF Init, Used, SlotsOf
<1>2. Typed
  BY AssumedNats DEF Init, Typed
<1>3. count = 0 /\ Cardinality(Used) = 0
  BY <1>1, FS_EmptySet DEF Init
<1>4. TableAgrees /\ TableIsMemory /\ AgeBound /\ NoEntryForDownPort
  BY <1>1, <1>3 DEF Init, TableAgrees, TableIsMemory, AgeBound, NoEntryForDownPort
<1>5. \A p \in Ports : wire[p] \in Seq(Frame) /\ out[p] \in Seq(Frame)
  BY DEF Init
<1>. QED
  BY <1>2, <1>3, <1>4, <1>5, AssumedNats DEF TableInv, TypeOK, Typed, Entry, Memory

\* The invariant bounds count by the number of slots.
LEMMA CountInRange == TableInv => count \in 0 .. TableSize
<1>. SUFFICES ASSUME TableInv PROVE count \in 0 .. TableSize
  OBVIOUS
<1>1. IsFiniteSet(Slots) /\ Cardinality(Slots) = TableSize
  BY FS_Interval, AssumedNats DEF Slots
<1>2. Cardinality(Used) <= Cardinality(Slots) /\ Cardinality(Used) \in Nat
  BY <1>1, FS_Subset, UsedFinite DEF Used
<1>. QED
  BY <1>1, <1>2, AssumedNats DEF TableInv, TableAgrees

\* Frames stay frames on both links of every port.
Linked == \A p \in Ports : wire[p] \in Seq(Frame) /\ out[p] \in Seq(Frame)

Shaped == DOMAIN wire = Ports /\ DOMAIN out = Ports /\ Linked

LEMMA ReceiveKeepsLinks ==
    ASSUME Shaped, NEW p \in Ports, NEW f \in Frame, SwitchReceive(p, f)
    PROVE  DOMAIN out' = Ports /\ \A q \in Ports : out'[q] \in Seq(Frame)
<1>1. CASE UNCHANGED out
  BY <1>1 DEF Shaped, Linked
<1>2. CASE out' = [q \in Ports |-> IF q \in Egress(entries', p, f.dst)
                                   THEN Append(out[q], Resent(q, f)) ELSE out[q]]
  <2>1. \A q \in Ports : PortMac[q] \in Macs
    BY DEF Macs
  <2>2. \A q \in Ports : Resent(q, f) \in Frame
    BY <2>1 DEF Resent, Frame
  <2>. QED
    BY <1>2, <2>2 DEF Shaped, Linked
<1>. QED
  BY <1>1, <1>2 DEF SwitchReceive

LEMMA LinksStep == Shaped /\ [Next]_vars => Shaped'
<1>. SUFFICES ASSUME Shaped, [Next]_vars PROVE Shaped'
  OBVIOUS
<1>0. ASSUME UNCHANGED <<wire, out>> PROVE Shaped'
  BY <1>0 DEF Shaped, Linked
<1>1. ASSUME NEW p \in Ports, NEW d \in Macs \cup {Broadcast}, StationSends(p, d)
      PROVE  Shaped'
  <2>. DEFINE f == [src |-> Station[p], dst |-> d]
  <2>1. f \in Frame
    BY DEF Frame, Macs
  <2>2. wire' = [wire EXCEPT ![p] = Append(wire[p], f)] /\ out' = out
    BY <1>1 DEF StationSends
  <2>. HIDE DEF f
  <2>. QED
    BY <2>1, <2>2 DEF Shaped, Linked
<1>2. ASSUME NEW p \in Ports, NEW m \in Others, NEW d \in Macs \cup {Broadcast},
             Inject(p, m, d)
      PROVE  Shaped'
  <2>1. [src |-> m, dst |-> d] \in Frame
    BY DEF Frame, Macs
  <2>2. DOMAIN out' = Ports /\ \A q \in Ports : out'[q] \in Seq(Frame)
    BY <1>2, <2>1, ReceiveKeepsLinks DEF Inject
  <2>. QED
    BY <1>2, <2>2 DEF Shaped, Linked, Inject
<1>3. ASSUME NEW p \in Ports, Deliver(p) PROVE Shaped'
  <2>1. Head(wire[p]) \in Frame /\ Tail(wire[p]) \in Seq(Frame)
    BY <1>3 DEF Deliver, Shaped, Linked
  <2>2. DOMAIN out' = Ports /\ \A q \in Ports : out'[q] \in Seq(Frame)
    <3>1. CASE Accepts(p, Head(wire[p]))
      BY <1>3, <2>1, <3>1, ReceiveKeepsLinks DEF Deliver
    <3>2. CASE ~Accepts(p, Head(wire[p]))
      BY <1>3, <3>2 DEF Deliver, Shaped, Linked
    <3>. QED
      BY <3>1, <3>2
  <2>3. wire' = [wire EXCEPT ![p] = Tail(wire[p])]
    BY <1>3 DEF Deliver
  <2>. QED
    BY <2>1, <2>2, <2>3 DEF Shaped, Linked
<1>4. ASSUME NEW p \in Ports, StationReceives(p) PROVE Shaped'
  <2>1. /\ out' = [out EXCEPT ![p] = Tail(out[p])] /\ wire' = wire
        /\ Tail(out[p]) \in Seq(Frame)
    BY <1>4 DEF StationReceives, Shaped, Linked
  <2>. QED
    BY <2>1 DEF Shaped, Linked
<1>5. ASSUME NEW p \in Ports, PortDown(p) \/ PortUp(p) PROVE Shaped'
  BY <1>0, <1>5 DEF PortDown, PortUp
<1>6. CASE Tick \/ AgeEvent
  BY <1>0, <1>6 DEF Tick, AgeEvent
<1>7. CASE UNCHANGED vars
  BY <1>0, <1>7 DEF vars
<1>. QED
  BY <1>1, <1>2, <1>3, <1>4, <1>5, <1>6, <1>7 DEF Next

LEMMA TableStep == TableInv /\ Shaped /\ [Next]_vars => TableInv'
<1>. SUFFICES ASSUME TableInv, Shaped, [Next]_vars PROVE TableInv'
  OBVIOUS
<1>1. \/ Untouched
      \/ \E m \in Macs, p \in Ports, i \in Slots : Learnt(m, p, i)
      \/ Tick \/ AgeEvent
      \/ \E p \in Ports : PortDown(p)
  BY TableSteps DEF Shaped, Linked
<1>. QED
  BY <1>1, UntouchedKeeps, LearntKeeps, TickKeeps, AgeEventKeeps, PortDownKeeps

LEMMA TableAlways == Spec => [](TableInv /\ Shaped)
<1>1. Init => TableInv /\ Shaped
  BY TableInitially DEF Init, Shaped, Linked, TypeOK
<1>2. TableInv /\ Shaped /\ [Next]_vars => (TableInv /\ Shaped)'
  BY TableStep, LinksStep
<1>. QED
  BY <1>1, <1>2, PTL DEF Spec

\* Type correctness of the table, its counter, the timer and the frames in
\* flight: no order of learning, aging and flushing takes count out of the
\* table's range.
THEOREM TypeCorrect == Spec => []TypeOK
<1>1. TableInv /\ Shaped => TypeOK
  BY CountInRange DEF TableInv, Typed, Shaped, Linked, TypeOK, Entry, Memory
<1>. QED
  BY <1>1, TableAlways, PTL

\* mac_table_learn, mac_table_age and mac_table_flush_port keep count equal to
\* the valid entries and give no address two of them.
THEOREM TableTheorem == Spec => []TableAgrees
<1>1. TableInv /\ Shaped => TableAgrees
  BY DEF TableInv
<1>. QED
  BY <1>1, TableAlways, PTL

\* The table says where an address was last heard of, and forgets nothing
\* young.
THEOREM MemoryTheorem == Spec => []TableIsMemory
<1>1. TableInv /\ Shaped => TableIsMemory
  BY DEF TableInv
<1>. QED
  BY <1>1, TableAlways, PTL

\* mac_age_handler comes often enough: no lookup returns an entry that is
\* older than MAC_AGE_MS by more than SW_AGE_INTERVAL.
THEOREM ExpiryTheorem == Spec => []EntriesExpire
<1>1. ASSUME TableInv PROVE EntriesExpire
  <2>1. \A i \in Used : entries[i].age \in Nat
    BY <1>1, AssumedNats DEF TableInv, Typed, Used, Entry
  <2>. QED
    BY <1>1, <2>1, AssumedNats DEF TableInv, Typed, AgeBound, EntriesExpire
<1>. QED
  BY <1>1, TableAlways, PTL

\* switch_port_down leaves no entry for the port, and no frame that was in
\* flight brings one back while the port is down.
THEOREM DownPortTheorem == Spec => []NoEntryForDownPort
<1>1. TableInv /\ Shaped => NoEntryForDownPort
  BY DEF TableInv
<1>. QED
  BY <1>1, TableAlways, PTL
=============================================================================
