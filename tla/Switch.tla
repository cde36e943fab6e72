------------------------------- MODULE Switch -------------------------------
(***************************************************************************)
(* network/switch.c with its MAC table (network/mac_table.c), and the      *)
(* Ethernet functions its frames go through.  One station is linked to     *)
(* every port.  Frames in flight are scheduler events: `wire' towards the  *)
(* switch, `out' towards the stations.  Of the clock only differences      *)
(* matter: an entry has its age, and `due' is the time left to the age     *)
(* event, which fires before the clock can pass it.                        *)
(***************************************************************************)
EXTENDS Naturals, Sequences, FiniteSets

CONSTANTS
    Ports,      \* the switch's interfaces
    Station,    \* MAC address of the station at a port
    PortMac,    \* MAC address of a port
    Broadcast,  \* ETH_BROADCAST
    Others,     \* bound: further MACs a caller of switch_receive uses
    NoEntry,    \* a slot that is not valid
    TableSize,  \* MAC_TABLE_SIZE
    MacAge,     \* MAC_AGE_MS
    Interval,   \* SW_AGE_INTERVAL
    MaxWire     \* bound: frames in flight on a link in one direction

Macs == {Station[p] : p \in Ports} \cup {PortMac[p] : p \in Ports} \cup Others

ASSUME SwitchAssumption ==
    /\ TableSize \in Nat \ {0} /\ MacAge \in Nat /\ Interval \in Nat \ {0}
    /\ MaxWire \in Nat /\ Broadcast \notin Macs
    /\ NoEntry \notin [mac : Macs, port : Ports, age : Nat]
    /\ NoEntry \notin [port : Ports, age : Nat]

VARIABLES
    entries,  \* MacTable.entries
    count,    \* MacTable.count
    up,       \* which ports are up
    due,      \* time left to the EVT_MAC_AGE event
    wire,     \* frames on their way to a port
    out,      \* frames on their way to the station of a port
    seen      \* history: where a source MAC was last learnt, and how long ago

vars == <<entries, count, up, due, wire, out, seen>>

Slots == 1 .. TableSize
Oldest == MacAge + Interval + 1   \* ages beyond this are not told apart

Frame == [src : Macs, dst : Macs \cup {Broadcast}]

Used == {i \in Slots : entries[i] # NoEntry}
First(S, i) == i \in S /\ \A j \in S : i <= j
SlotsOf(table, m) == {i \in Slots : table[i] # NoEntry /\ table[i].mac = m}

Init ==
    /\ entries = [i \in Slots |-> NoEntry] /\ count = 0
    /\ up = [p \in Ports |-> TRUE]
    /\ due = Interval
    /\ wire = [p \in Ports |-> <<>>] /\ out = [p \in Ports |-> <<>>]
    /\ seen = [m \in Macs |-> NoEntry]

-----------------------------------------------------------------------------
(***************************************************************************)
(* switch_receive.                                                         *)
(***************************************************************************)
\* Faulty: an entry that is refreshed stays at its old port.
RefreshOnly(m, p, i) ==
    entries' = [entries EXCEPT ![i].age = 0] /\ UNCHANGED count

Refresh(m, p, i) ==
    /\ entries' = [entries EXCEPT ![i].port = p, ![i].age = 0]
    /\ UNCHANGED count

Insert(m, p, i) ==
    /\ entries' = [entries EXCEPT ![i] = [mac |-> m, port |-> p, age |-> 0]]
    /\ count' = count + 1

\* Faulty: takes a free slot although another one has the address.
LearnAgain(m, p) == \E i \in Slots : First(Slots \ Used, i) /\ Insert(m, p, i)

\* mac_table_learn: the entry of m, or else the first unused slot.
Learn(m, p) ==
    IF SlotsOf(entries, m) # {}
    THEN \E i \in Slots : First(SlotsOf(entries, m), i) /\ Refresh(m, p, i)
    ELSE \E i \in Slots : First(Slots \ Used, i) /\ Insert(m, p, i)

CanLearn(m) == SlotsOf(entries, m) # {} \/ Used # Slots

\* mac_table_lookup in the table after learning: the ports of an address.
PortsOf(table, m) ==
    {table[i].port : i \in {i \in SlotsOf(table, m) :
                               First(SlotsOf(table, m), i)}}

\* The ports the frame is sent to.
Egress(table, p, dst) ==
    IF dst = Broadcast \/ PortsOf(table, dst) = {} THEN {q \in Ports : up[q]} \ {p}
    ELSE {q \in PortsOf(table, dst) : up[q]} \ {p}

\* ethernet_send writes the MAC of the sending interface into the header.
Resent(q, f) == [f EXCEPT !.src = PortMac[q]]

\* Down: freed.  The table is full: dropped, not even flooded.
SwitchReceive(p, f) ==
    IF up[p] /\ CanLearn(f.src)
    THEN /\ Learn(f.src, p)
         /\ out' = [q \in Ports |-> IF q \in Egress(entries', p, f.dst)
                                    THEN Append(out[q], Resent(q, f)) ELSE out[q]]
         /\ seen' = [seen EXCEPT ![f.src] = [port |-> p, age |-> 0]]
    ELSE UNCHANGED <<entries, count, out, seen>>

RoomToSend == \A q \in Ports : Len(out[q]) < MaxWire

-----------------------------------------------------------------------------
\* ethernet_send and link_transmit at a station: the port must be up.
StationSends(p, dst) ==
    /\ up[p] /\ Len(wire[p]) < MaxWire
    /\ wire' = [wire EXCEPT ![p] = Append(@,
          [src |-> Station[p], dst |-> dst])]
    /\ UNCHANGED <<entries, count, up, due, out, seen>>

\* ethernet_receive at a port: only its own address and broadcasts pass.
Accepts(p, f) == f.dst \in {PortMac[p], Broadcast}

\* ethernet_receive_event and, for an accepted frame, switch_receive.
Deliver(p) ==
    /\ wire[p] # <<>> /\ RoomToSend
    /\ wire' = [wire EXCEPT ![p] = Tail(@)]
    /\ IF Accepts(p, Head(wire[p]))
       THEN SwitchReceive(p, Head(wire[p]))
       ELSE UNCHANGED <<entries, count, out, seen>>
    /\ UNCHANGED <<up, due>>

\* switch_receive called directly, with a frame of any source.
Inject(p, src, dst) ==
    /\ RoomToSend
    /\ SwitchReceive(p, [src |-> src, dst |-> dst])
    /\ UNCHANGED <<up, due, wire>>

StationReceives(p) ==
    /\ out[p] # <<>>
    /\ out' = [out EXCEPT ![p] = Tail(@)]
    /\ UNCHANGED <<entries, count, up, due, wire, seen>>

\* Entries of a set of slots become invalid; the slots stay where they are.
Invalidate(S) ==
    /\ entries' = [i \in Slots |-> IF i \in S THEN NoEntry ELSE entries[i]]
    /\ count' = count - Cardinality(S)

\* Faulty: looks only at as many slots as there are valid entries.
PortSlotsShort(p) == {i \in Used : i <= count /\ entries[i].port = p}

PortSlots(p) == {i \in Used : entries[i].port = p}

\* switch_port_down: mac_table_flush_port.
PortDown(p) ==
    /\ up[p]
    /\ up' = [up EXCEPT ![p] = FALSE]
    /\ Invalidate(PortSlots(p))
    /\ seen' = [m \in Macs |-> IF seen[m] # NoEntry /\ seen[m].port = p
                               THEN NoEntry ELSE seen[m]]
    /\ UNCHANGED <<due, wire, out>>

\* interface_set_up.
PortUp(p) ==
    /\ ~up[p]
    /\ up' = [up EXCEPT ![p] = TRUE]
    /\ UNCHANGED <<entries, count, due, wire, out, seen>>

Older(e) == IF e = NoEntry \/ e.age = Oldest THEN e ELSE [e EXCEPT !.age = @ + 1]

\* The clock moves on, up to the age event.
Tick ==
    /\ due > 0
    /\ due' = due - 1
    /\ entries' = [i \in Slots |-> Older(entries[i])]
    /\ seen' = [m \in Macs |-> Older(seen[m])]
    /\ UNCHANGED <<count, up, wire, out>>

Expired == {i \in Used : entries[i].age > MacAge}

\* Faulty: the next event comes one tick late.
NextAgeLate == Interval + 1

NextAge == Interval

\* mac_age_handler: mac_table_age, and the next event.
AgeEvent ==
    /\ due = 0
    /\ Invalidate(Expired)
    /\ due' = NextAge
    /\ UNCHANGED <<up, wire, out, seen>>

Next ==
    \/ \E p \in Ports :
          \/ \E d \in Macs \cup {Broadcast} : StationSends(p, d)
          \/ \E m \in Others, d \in Macs \cup {Broadcast} : Inject(p, m, d)
          \/ Deliver(p) \/ StationReceives(p) \/ PortDown(p) \/ PortUp(p)
    \/ Tick
    \/ AgeEvent

Spec == Init /\ [][Next]_vars

-----------------------------------------------------------------------------
(***************************************************************************)
(* Properties.                                                             *)
(***************************************************************************)
\* Type invariant.
TypeOK ==
    /\ entries \in [Slots -> [mac : Macs, port : Ports, age : 0 .. Oldest]
                             \cup {NoEntry}]
    /\ count \in 0 .. TableSize
    /\ up \in [Ports -> BOOLEAN]
    /\ due \in 0 .. Interval
    /\ \A p \in Ports : wire[p] \in Seq(Frame) /\ out[p] \in Seq(Frame)
    /\ seen \in [Macs -> [port : Ports, age : 0 .. Oldest] \cup {NoEntry}]

\* count is the number of valid entries, and no address has two of them,
\* although aging and flushing leave holes.
TableAgrees ==
    /\ count = Cardinality(Used)
    /\ \A i, j \in Used : entries[i].mac = entries[j].mac => i = j

\* An entry points to the port its address was last learnt at, and an address
\* learnt no longer than MAC_AGE_MS ago at a port that did not go down since
\* is in the table.
TableIsMemory ==
    \A m \in Macs :
        /\ \A i \in SlotsOf(entries, m) :
              seen[m] = [port |-> entries[i].port, age |-> entries[i].age]
        /\ seen[m] # NoEntry /\ seen[m].age <= MacAge => SlotsOf(entries, m) # {}

\* No lookup can return an entry older than MAC_AGE_MS by more than the
\* interval of the age events.
EntriesExpire == \A i \in Used : entries[i].age <= MacAge + Interval

\* No entry leads to a port that switch_port_down took down, also when frames
\* of that port were still in flight.
NoEntryForDownPort == \A i \in Used : up[entries[i].port]

-----------------------------------------------------------------------------
\* "If destination MAC is known, forward to that port" (13_switch.md): but
\* ethernet_receive drops what is not addressed to the port itself.
UnicastIsForwarded ==
    [][\A p, q \in Ports :
          /\ p # q /\ up[p] /\ up[q] /\ Deliver(p)
          /\ Head(wire[p]).src = Station[p] /\ Head(wire[p]).dst = Station[q]
          /\ PortsOf(entries, Station[p]) = {p} /\ PortsOf(entries, Station[q]) = {q}
          => Len(out'[q]) = Len(out[q]) + 1]_vars
=============================================================================
