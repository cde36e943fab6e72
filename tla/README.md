# FrameRunner: models, checks and proofs

FrameRunner is a network simulator in C: one thread, one virtual clock, and an event queue through
which every delayed effect passes (a frame on a link, a retransmission, an aging sweep). This
directory holds TLA+ modules translated from `src/src`, TLC configurations that check them on small
instances, and theorems about the engine, the hosts and their datagrams, the switch, the ARP tables, the routing
table and TCP that TLAPS proves for every instance. `PROJECT.json`
lists components, runs, the code each definition stands for, hazards, findings and theorems.

File names below are relative to `src/src` (code) and `src/documentation/specifications` (`NN_name.md`).

## 1. Inventory

What makes this code hard is not threads. It is (a) *re-entrancy*: a handler runs inside
`scheduler_step` and calls the scheduler again; (b) *events that outlive what they point to*: the
data of an event is a pointer to a table slot, and the slot may be reused before the event fires;
(c) *state changed before a send that may fail*; (d) *tables with holes*, whose counters and
derived tables must follow long sequences of calls; (e) *loss*: a link or an interface goes down
under frames in flight; (f) *ownership by convention*: a packet is freed by whoever its last
receiver's result leaves it with, across six layers that can each fail.

| component | state | operations | talks to | right when |
|---|---|---|---|---|
| event queue `engine/event.c` | sorted array, capacity | create, push, pop, free | scheduler | sorted, stable for ties, never past its capacity |
| scheduler `engine/scheduler.c` | queue, clock, running flag, handler table | schedule, register, step, run, stop, free | everything schedules on it; it calls handlers | each event runs once and in order, the clock never moves back, stop is prompt, every record is freed |
| simulator `engine/simulator.c` | scheduler, end time | run, inject, set end, step, stop | scheduler, link | the end time is passed by one event at most; only a failed injection loses a record |
| tcp `protocols/tcp.c` | table of TCBs with a send queue each, count | listen, connect, send, close, receive, retransmit timer, TIME_WAIT timer | ip_send, scheduler, application callbacks | ordered stream without duplicates, numbers of both ends agree, slots are counted and given back |
| route table `routing/route_table.c` | RIB, FIB, counters, sequence | add, delete, flush, lookup | ip | FIB = best candidate per prefix after every change |
| mac table `network/mac_table.c` | entries, count | learn, lookup, age, flush port | switch | one entry per MAC, where it was last seen, never too old |
| switch `network/switch.c` | ports, MAC table, aging event | receive, flood, forward, port down, age | ethernet, scheduler | no frame back to its port, no entry for a port that is down |
| arp cache `protocols/arp_cache.c` | entries, pending packets, counters | add, lookup, queue, flush, cleanup | arp, ip | a packet has one owner; nothing waits for a known address |
| arp `protocols/arp.c` | none | request, request handler, reply handler | ethernet, arp cache | what is asked is answered; answers are learnt |
| ip `protocols/ip.c` | protocol handlers of each stack | output, send, receive, register, unregister | arp cache, tcp/udp/icmp handlers | on failure the caller still owns the payload; what arrives reaches the handler of its protocol |
| ethernet `protocols/ethernet.c` | none | send, receive, receive event | link, ip or switch | filters by destination |
| link, interface `network/link.c`, `interface.c` | up flags, counters, attributes | transmit, set up/down | scheduler | nothing is delivered over a link that is down |
| packet `network/packet.c` | buffer with headroom | create, free, clone, prepend, strip | all layers | offsets stay inside the buffer; freed once |
| udp `protocols/udp.c` | socket table | bind, unbind, send, receive | ip, icmp | a datagram is delivered at most once, with the address it was sent from |
| icmp `protocols/icmp.c` | none | echo, errors, receive | ip | no error about an error, and none but to the sender |
| host `network/host.c` | device, stack, tables | create, free, add interface, send_ip | ip, udp, tcp, icmp | the caller owns what could not be sent |
| device, topology `network/device.c`, `topology.c` | arrays of pointers | add, find | host, link | names are unique |

Without code of their own: `network/router.c` (a stub), `protocols/rip.c`,
`routing/static_route.c`, `cli/*.c`, `display/*.c` (empty files), and the protocols that only have
a document (OSPF, BGP, EIGRP, IS-IS, NAT).

The path of a frame: `ip_send` → `ip_output` (ARP) → `ethernet_send` → `link_transmit`, which
schedules EVT_PACKET_RECEIVE with the far interface as data → `scheduler_step` →
`ethernet_receive_event` → the interface's `rx_handler`: `ip_rx_shim` at a host, `switch_receive`
at a switch → `ip_receive` → `tcp_receive`, `udp_receive` or `icmp_receive`, of which the last two may send on
the same path.

## 2. Plan

1. *Engine* — EventQueue, Scheduler, Agenda (abstract), Simulator, and proofs. **Done.**
2. *Tcp* on two hosts. **Done.**
3. *RouteTable* and Routes (abstract). **Done.**
4. *Switch* with the MAC table and the Ethernet filter. **Done.**
5. *Arp*: cache, pending queue, handlers, `ip_output`. **Done.**
6. *Packet*, and *Hosts* with UDP, ICMP, the protocol dispatch and the choice of the interface in
   IPv4, over ARP, Ethernet and the link; *Datagrams* (abstract); proofs. **Done.**
7. Several interfaces on a host, and *Device* and *Topology* with them: `ip_find_source_iface` searches
   all devices, and `host_add_interface` then happens in a running system.
8. Drivers called from handlers (`scheduler_run` inside a handler).
9. Proofs of every invariant, action property and refinement of these modules. **Done.**

## 3. Modules

### EventQueue, Scheduler, Agenda, Simulator

`EventQueue` has the operators of `event.c`: `ScanStopsAt` is the loop of `event_queue_push`,
`PushAt` its memmove, `Grown` the realloc, `Popped`/`Remaining` are `event_queue_pop`.

`Scheduler` has one action per public call (Schedule, ScheduleFails, Register, Stop, CallStep,
CallRun, Free) and cuts `scheduler_step` where the C stack can be re-entered: Dispatch (pop,
advance the clock, choose the event's own callback or the fallback handler), HandlerReturns (free
the event), NothingToDo, StepReturns, RunTest (the loop condition of `scheduler_run`). Between Dispatch and
HandlerReturns the handler may call anything but a driver. `caller` and `pc` are the C stack.
`log`, `live`, `leaked`, `created`, `born` and `stopReq` are history variables and no action
reads them but to number events.

`Agenda` is what the scheduler promises: a *set* of appointments and a clock; the earliest is
executed, ties by age, and the clock only moves forward. Arrays, capacity, C stack and handlers are not in it.
`ImplementsAgenda` is `A!ASpec` under the mapping `pending <- {eq[k]}`, `clock <- now`.

`Simulator` adds `simulator_run` with its end-time test after the step, `simulator_inject_packet`
with the failure of the push, and the pass-through calls.

### Tcp

Two hosts on one link. `tcbs[h]` is `TcpTable.tcbs`; `net[h]` the delivery events for h in order;
`timers[h][i]` counts retransmission events whose data is slot i; `waits[h][i]` TIME_WAIT events.
`tcp_receive` is one action per branch over the first segment of `net[h]`, disjoint by their
guards; Unmatched is the final `default`. A send that fails is `AnswerOrFail`: exactly the case
where the link or an interface is down, because ARP is resolved, memory does not run out and each host has
one address. Application callbacks are called last in every branch, so what they do is a step of its own.
Data is abstracted to the length and the name of the payload; `inc` numbers connections so that
properties can tell a connection from its successor on the same ports. `sent[k][h]` and `got[k][h]` are history: the
payloads that `tcp_send` accepted from h on connection k, and those that `rcv_nxt` of h passed, each with whether
`recv_handler` was given it.

Timers are untimed: a retransmission may fire at any moment after it was armed, subject to
`MaxInNet` (with that many segments in flight it must wait for a delivery), which covers every ratio
of link delay to TCP_RTO_US. A TIME_WAIT event fires after the retransmission events of its slot,
because TCP_TIME_WAIT_US is twice the RTO and no later timer is armed for the slot.
EVT_TCP_RETRANSMIT is taken to be registered with `tcp_retransmit_handler`, as the tests do and as
nothing under `src` does. Calls that return an error and change nothing are not actions.

### RouteTable, Routes

`RouteTable` has the RIB and the FIB as functions from slots; Rebuild is `route_table_rebuild_fib`
as a recursive function: `run[n]` is the table after n iterations over the RIB, Install one iteration, Better its chain
of comparisons. Add (new, update), Delete and FlushProto rebuild before they return; an add to a full table changes
nothing. `Routes` is the abstract table: a set of
routes with unique keys, and a lookup that is the maximum of a total order. The refinement maps the
valid RIB slots to the set, and every lookup through the FIB to the abstract one.

### Switch

MAC table, ports, the aging event and the frames in flight in both directions, with one station per port.
Only clock *differences* matter: an entry has its age, capped at `Oldest`, and `due` counts down to the next
EVT_MAC_AGE, which fires before the clock passes it. Inject is `switch_receive` called directly, as the unit
tests call it, with any source address: it is the only way to meet a full table with two ports.

### Arp

One interface whose peers are all on its subnet. `entries` and `pending` are the two arrays with their
counters; IpOutput is `ip_output` (hit: send; miss: queue, ask; full: fail); Dispatch is a
scheduled arrival of an ARP packet, as a FRAME from the link (what `link_transmit` schedules: the packet ends
in `ip_receive`, which frees it) or as an EVENT of an ARP type (what the unit tests schedule); Cleanup is
`arp_cache_cleanup`, which only an application can call. `fate`, `out`, `heard`, `answered` are
history: what became of each payload, what the last call sent, which mapping was last learnt, whom the last
dispatch answered.

### Packet, Hosts, Datagrams

`Packet` is `packet.c` as arithmetic: `data`, `len` and `cap` are offsets from `head`, and a packet remembers
at which offset the last IPv4 header was written (`ip`). That is what the receive paths rely on: `udp_receive`
and the ICMP functions read the header at `data - IP_HDR_LEN`, which IpBehind says is right or not; Clone copies
the visible bytes only, so an offset before `data` becomes Nowhere.

`Hosts` composes two hosts on one link, one interface each. `mem` is the memory: `Ids` are the addresses malloc
can return, lowest first, and it returns NULL when all are taken, so every allocation in the model can fail.
`wire` is the queue of EVT_PACKET_RECEIVE events; `pending` and `cache` are the ARP tables, indexed by address
(`Arp` has the slots of the cache); `sockets`, `count` and `handlers` are UdpState and IpStack; `app` is the set
of packets that the application owns.

A call runs to its end in one action, with every layer it passes. `ip_output` is a group of operators, one per
outcome, over a memory `m` and a wire `w` that the caller may already have changed: OutputRefused (no interface,
down, other subnet), OutputFails (`ip_send`: headroom, link, far interface, memory for the clone), OutputSends,
OutputCannotAsk, OutputQueueFull, OutputWaits. OutputSends and OutputWaits are Takes (result 1 or
0), the others Keeps (result -1: the caller keeps the packet). Send is "create, ip_output, free on -1", which `udp_send`,
`icmp_send_echo_request`, `icmp_send_echo_reply` and `icmp_send_error` share. The callers are the application (UdpSend,
EchoRequest, HostSendIp, AppSendsError) and the arrival of a frame (Dispatch), whose disjuncts are the ways through
`ethernet_receive`, `ip_receive` and the protocol handlers. Learn is `arp_reply_handler` with the loop of
`arp_pending_flush`: `sent` are the waiting packets it could send, `c[i]` the memory each clone took, which may be what an
earlier iteration freed (Avail). That a packet whose headers were left on by a failed send is retried is in: HostSendIp takes any packet of
`app`, however little headroom it has.

Two bounds are choices of the model, not of the code: the application does not send on a received *message* of a protocol
handler as if it were a payload (IpBehind in HostSendIp), and `Claims` are the ARP replies it is given, a wrong one among
them. Nothing under `src` schedules an ARP reply (section 6), so Learn is the application's, as in the tests.

`Datagrams` is what UDP promises: a datagram in flight may be lost at any time; one that is delivered was sent, is
delivered once and with its source. The refinement maps the datagrams on the wire and in the pending queues to `flight`, and what callbacks
were told (`told`, history) to `held`.

### MC modules

`MC*` modules extend one module each with the small functions and symmetry sets that a `.cfg` cannot write.
Operators marked *Faulty* in the modules are plausible bugs, one beside the definition it replaces. No action
refers to them; each, put in place of its neighbour, makes TLC report the property named in `PROJECT.json`.

## 4. Runs

States are distinct states; times with two workers.

| run | states | shows |
|---|---|---|
| simulator | 1.2M, 20 s | order, ties, clock, capacity, ownership, prompt stop, both run loops, the end time, refinement of Agenda |
| tcp | 2.6M, 95 s | eight safety properties over two connections in two slots, with the link failing and returning |
| tcp_live | 35k, 41 s | opening, closing and acknowledgement complete, under the conditions below |
| route_table | 33k, 37 s | counters, FIB = best of RIB, refinement of Routes |
| switch | 1.7M, 60 s | table with holes, moved stations, aging, ports that go down; no deadlock |
| arp | 680k, 13 s | ownership and resolution with full tables, expiry, failed sends, changed MACs |
| hosts | 745k, 82 s | owner and layout of every packet, errors, what is lost, refinement of Datagrams, with memory, link and interfaces failing |
| tcp_timer, tcp_hole, tcp_wrap, switch_unicast, arp_wire | | counterexamples, section 6 |

Bounds, and why they suffice:

- *simulator*: its next-state relation contains the scheduler's. Three events with timestamps 0..2 give a tie, an event pushed
  into the past and one pushed between; capacity 1 grows twice; end times 0..2 with 0 meaning none. One type and one handler are
  enough because which function runs influences nothing but `fn`, and NoFn gives the other case. What needs more events is proved for any number.
- *tcp*: a table of two slots makes listener, child and a second connection compete on the server, and a second
  connection or a successor compete on the client; two payloads per run order a stream; two changes of the link
  lose any segment and come back; length 3 is cut to MSS = 2. SeqSpace = 16 is above every number reached,
  so nothing wraps but in tcp_wrap, which sets it to 4. `MaxInNet` = 2 lets a retransmission meet its original.
- *tcp_live*: two lost segments can be any of SYN-ACK, ACK, data and the ACK of data.
- *route_table*: nested prefixes, protocols with equal distance, two metrics and next hops, three slots: every stage
  of the comparison decides some pair, and the table fills. `MaxSequence` keeps the sequence below its wrap.
- *switch*: a table of two slots and three addresses fills and has holes; age and interval of two units put the sweep before, at and after the limit.
- *arp*: three addresses for two cache and two pending slots, two MACs, three payloads: both tables fill, an
  address changes its MAC while packets wait. Addresses and MACs are symmetric: no action or property names one.

- *hosts*: host 1 sends three times to host 2 and to an address outside the subnet, host 2 binds one port and answers; three changes
  take sockets, handlers, the link, the interfaces and the ARP entries away and back between any two steps. Six blocks of memory
  run out under an ARP request, a waiting packet, a clone and an answer; two pending slots fill and are flushed together. Two sends of
  one packet use up its headroom of 64 bytes (34 for each), and a third finds not even room for IPv4. A second port would only be a second socket that does not match.

`CHECK_DEADLOCK FALSE` stands where the program may fall silent: the application has nothing more to
call and no event is queued, or the bounds are used up. The switch always has its aging event, and its
run checks deadlock.

Fairness (Tcp): every queued event is dispatched in the end (`WF` of Receive, Retransmit, TimerEnds
and TimeWaitExpires). The scheduler justifies this: it pops the earliest event, and a handler that schedules again does
so later by at least the link delay or the RTO, so only finitely many events precede a given one. An application that is told of the peer's close closes
too (`WF` of AnswersClose); without it no close completes. The link is not assumed to come back, because the live runs do not take
it down. Fairness (Arp): `WF` of Dispatch, by the same argument.

What the liveness properties exclude is stated in their own premises. OpenCompletes and CloseCompletes need `losses = 0`:
a lost SYN-ACK and a lost last ACK stop progress for ever. CloseCompletes also excludes data that crosses
a FIN (Stuck), and simultaneous closes by letting one side close first; DataIsAcked holds while nobody closes.
Each exclusion is a hazard in `PROJECT.json` with its line.

## 5. Proofs

Every theorem holds for all values of the constants that satisfy the named assumptions of its module; those about the
agreement of two TCP ends need one hypothesis more (NoWrap, below). Each subsection names the theorems, then the
inductive invariant and what the properties lack without it.

### Engine

`SchedulerProofs` begins with lemmas on the queue's operators (inserting at a position keeps all other entries in their order,
popping takes the head) and proves for every set of types and handlers, every capacity and every bound
(NoFnAssumption, CapacityAssumption, BoundsAssumption):

- `TypeCorrect`: Spec => []TypeOK.
- `ClockTheorem`: the clock never moves back.
- `QueueOrderTheorem`, `CausalOrderTheorem`, `DispatchedOnceTheorem`: QueueOrdered, CausalOrder, DispatchedOnce.
- `AgendaTheorem`: Spec => ImplementsAgenda.

The argument: `QueueSteps` shows that each action does one of four things to queue, clock and log (nothing, a
push, a dispatch, clearing by free), so the invariants need four cases instead of twelve. None of
the three order properties is inductive. QueueOrdered breaks ties by id, so a push needs to know that the new id is
larger than all queued (`IdsAreOld`). CausalOrder speaks of pairs of *dispatched* events; to survive a dispatch it must
know how queued events compare with dispatched ones (`Overdue`: a queued event that should have run before a dispatched one was pushed after
that dispatch). DispatchedOnce needs that ids differ between queue and log (`IdsDiffer`). Their conjunction `OrderInv`
is inductive (`OrderTheorem`). For the refinement, sortedness turns "the head of the array" into
"the earliest appointment of the set", and distinct ids make removal of the head a set difference.

`SimulatorProofs` carries these theorems over to the simulator (every step of it is a step of the scheduler or one of
three that touch neither queue, clock nor log) and adds what the two run loops promise:

- `StopTheorem`: StopIsPrompt; `RunTheorem`: RunIsComplete, from `LoopInv`: where the C stack is decides what `running`, `stopReq`
  and `result` mean. A flag left over from an earlier run would break "a loop whose flag is down was stopped in this run".
- `OvershootTheorem`: OvershootsOnce. By itself it does not survive a handler that changes the end time; `EndInv` adds that no
  dispatch had a later clock than the present one and that simulator_run steps only while all its clocks are before the end.
- `OwnershipTheorem`: EventsOwned; `LeakTheorem`: OnlyInjectLeaks. `OwnInv` adds that a record is in a handler's hands exactly
  while a handler runs, that a leaked one is never freed and that a freed scheduler has an empty queue.

### Hosts and datagrams

`HostsProofs` proves about the hosts, for every memory, address space, table size and bound (AddressAssumption,
HostsAssumption):

- `TypeCorrect`: Spec => []TypeOK, with the socket count and unique ports.
- `OwnershipTheorem`: Spec => []OwnedOnce.
- `LayoutTheorem`: Spec => []LayoutOK.

Their common inductive invariant is `IInv == TypeOK /\ Heap(mem, wire, pending, app)` (`HeapInvariant`). OwnedOnce is not inductive:
nothing in it says that stripping a frame stays inside the buffer, or that the header a handler reads is one. `Heap` says what each holder
may count on: whatever is allocated is `Sound` (layout, and a header that a host wrote if it has one), what is on the
wire is also `Sendworthy` (both headers are on it and IPv4 lies behind Ethernet, so both strips succeed and
IpBehind holds afterwards), and the wire, the pending slots and `app` refer to allocated packets without sharing one.

Heap is a predicate of *any* memory, wire, queue and set, because one action goes through several: create, prepend, clone, free. One lemma
per elementary operation says when it keeps Heap (FreeKeepsHeap, StoreKeepsHeap, SendKeepsHeap, QueueKeepsHeap, OwnKeepsHeap, DisownKeepsHeap,
ArriveKeepsHeap), in terms of `Loose` (no holder refers to it) and `Idle` (loose and allocated). From these come KeepsHeap and TakesHeap for the outcomes of
`ip_output`, SendHeap for the calls that make a packet, and one step per action. The flush has no bound on the packets it sends and is
not an induction over its loop: ClonesFresh shows that no two clones share memory and that none takes a block still in use,
FlushedMemory what each block then holds, and MergeKeepsHeap that a memory put together from such parts keeps Heap.

`DeliveryProofs` starts from one description of what `ip_output` leaves in memory, on the wire and in the pending
queue (`Output`), whichever of its ways it took, and proves:

- `ErrorTheorem`: Spec => []ErrorGoesBack. The property speaks of packets that have a header, but an error may wait for ARP with its
  header still to come, and an application may get an error back and send it again. `Back` adds that an error waits with the header
  that answers its original, and that what an application holds is a payload of its own or has the header it came with behind its data.
- `LostTheorem`: Spec => NothingElseLost, an action property: each case of `Excused` is matched with the calls that meet it.
- `DatagramTheorem`: Spec => ImplementsDatagrams. A step of Hosts may send, flush, answer and free at once; that it is *one* step of
  Datagrams or a stutter needs `DeliveryInv`: names under way are names that were sent, no two packets under way carry the same one
  (a clone is scheduled exactly when its original is let go), and what no application has was told to nobody.

### Switch

`SwitchProofs` proves TypeOK, `TableTheorem` (TableAgrees), `MemoryTheorem` (TableIsMemory), `ExpiryTheorem` (EntriesExpire) and
`DownPortTheorem` (NoEntryForDownPort). They are proved together as `TableInv`: learning writes the entry that a lookup finds, so that the entry
is the last one heard rests on its being the only one. EntriesExpire bounds ages by the limit plus an interval; it is preserved only
because an entry's age and the time to the next sweep add up to no more than that (`AgeBound`). Every action is one of five
kinds of change to the table, and a lemma for each kind says that it keeps TableInv.

### ARP

`ArpProofs` proves TypeOK, `OneOwnerTheorem` (PayloadHasOneOwner), `WaitingTheorem` (NothingWaitsForKnown) and
`LatestMacTheorem` (SentToLatestMac) from `ArpInv`. SentToLatestMac needs that an entry holds the MAC last heard for its address,
and that needs that an address has one entry, because `arp_cache_add` refreshes only the first one it finds.
The flush sends any number of waiting packets in one action, some of which fail: the proof counts the slots it empties.

### TCP

`TcpProofs` proves for any number of hosts in pairs, any table size, ports, losses, flaps and timers:

- `TypeCorrect`: TypeOK, with the count of `TcpTable` and one TIME_WAIT event per slot at most (`WaitsInv`: a TIME_WAIT timer
  runs exactly for the slots in TIME_WAIT; otherwise a release could come twice).
- `LookupTheorem`: OneTcbPerTuple. Every way to fill a slot is guarded by the lookup that found nothing.

The others are proved while no sequence number wraps: `NoWrap == MSS * MaxSends + 2 < SeqSpace`. The code compares numbers as plain
integers, and tcp_wrap shows that the properties' ground is gone when they wrap, so this is a limit of the program.

- `StreamCorrect` (StreamIntact), `AckedCorrect` (AckedIsConsumed), `QueueCorrect` (QueueCoversUnacked), `NumbersCorrect`
  (NumbersAgree), `PeerCorrect` (EstablishedHasPeer), `NumbersGrow` (NumbersNeverRegress).

None of them is inductive, and they cannot be made so one at a time: whether an old segment can do harm depends on the
state of both ends and on everything under way. `LinkInvariant` proves `LinkInv /\ FreshInv /\ StreamIntact`. `Link` is a
predicate of two tables, the two queues between them and the two histories; its parts are

- `TcbShape`, `SegShape`: what a state says of the numbers and of the one queued segment, and what segments exist;
- `Way`, once for each direction: connections and ports determine each other (Distinct, Addressed), SYNs come first and nothing
  older follows a connection's first segment (SynsFirst, NewestLast, Current), a SYN under way has an owner (SynsLive), the state of one end tells
  that of the other (Partner, Opening), what an end has received is the beginning or the end of what is unacknowledged (Numbers), and a segment
  with contents is old or is the queued one (Contents);
- `Story`: how far `sent` and `got` are apart, by whether the queue holds data and whether the other end has taken it.

Two facts carry the argument. One segment is outstanding at most, so an acknowledgement that is newer than `snd_una` is exactly `snd_nxt`
(Numbers): a stale one cannot be half right. And a queue in order, without reuse of connection numbers, means that a successor on the same ports
sees the segments of its predecessor only before its own SYN arrives (NewestLast, Current). Link is stated of *any* tables and queues because a receive
takes a segment, changes a TCB and answers in one step: LinkDrop, LinkSend, LinkAck, LinkTake, LinkPost, LinkDial, LinkAccept, LinkClear say when each
part keeps it, and one lemma per action puts them together (LinkStep). `FreshInv` (a connection not yet opened has no history) gives a new
connection its empty streams. TLC confirmed LinkInv on the tcp instance and on a larger one (three connections, three segments in flight)
before it was proved.

### Routing table

`RouteTableProofs` proves for every address width, table size, set of protocols and metrics (WidthAssumption,
TargetAssumption, RouteBoundsAssumption, NoRouteAssumption):

- `TypeCorrect`: TypeOK; `FollowTheorem`: FibFollowsRib; `RoutesTheorem`: Spec => ImplementsRoutes.

A rebuild is a loop over the slots inside one action, so the proof has two inductions. The inner one is over the slots: `Loop(t, r, n)`
says what table t is after n iterations over RIB r. The candidates are as they were; the first slots of the FIB are in use, and no more than n,
so a free one is always found; the FIB has the best of the first n candidates of every prefix, once; and the selected
flags point to these. Without uniqueness a candidate would have to beat two entries; without the place of the best one a replacement would leave two
flags set. `Better` is a strict order (BetterIsOrder), therefore the winner of the part seen so far is enough. That the
recursive function exists, and induction itself, are derived from the fact that a set of natural numbers has a
least element (Least, Induction, RunExists), since the library's induction rules take an operator.

The outer invariant is `RouteInv`: Loop after all slots, with keys and sequence numbers of the RIB unique and below `next_sequence` (`RibInv`).
UpdateRib, AddRib and RemoveRib say what a call does to the RIB and to its set of routes. For the refinement, one FIB entry per prefix makes the
longest match unique (LookupFinds), and unique sequence numbers make the abstract choice unique (LookupIs).

### Only model-checked

All liveness and anything with ENABLED; the five counterexamples of section 6. Two bounds remain in what is proved:
TCP's theorems are about runs without a wrap of the sequence numbers (NoWrap), and the routing table's about runs without a wrap of `next_sequence`
(MaxSequence).

## 6. Where the code and its documents part

Each is a run whose property states the document and which TLC refutes:

- **tcp_timer**: the SYN-ACK of a passive open is queued without a timer (`tcp.c:592`), and a failed retransmission ends
  its chain (`tcp.c:1100`); `17_tcp.md:23` promises a timer for queued segments.
- **tcp_hole**: `rcv_nxt` moves before the ACK is sent (`tcp.c:688`); when that fails the payload is freed and later
  acknowledged as old. The stream has a hole. `StreamIntact` shows that this is the only way to lose one, and StreamCorrect proves it.
- **tcp_wrap**: plain comparison of sequence numbers (`tcp.c:678`) refuses every acknowledgement across the wrap.
- **switch_unicast**: `ethernet_receive` (`ethernet.c:90`) drops what is not addressed to the port, so the switch never forwards a unicast
  between stations.
- **arp_wire**: an ARP packet sent over a link arrives as EVT_PACKET_RECEIVE and is freed by `ip_receive` (`ip.c:126`);
  the comment at `arp.c:24` says that the ARP handler runs.

Seen while modelling, without a run: when the ACK of a SYN-ACK cannot be sent, the connection is established and
`connect_handler` never called (`tcp.c:638`, against `17_tcp.md:325`); `ethernet_send` rewrites the source of
what a switch forwards (`ethernet.c:58`), so the next switch learns the wrong address; the contract at `scheduler.h:87` says that
a step shrinks the queue by one, which a handler that schedules contradicts; MAC_AGE_MS is added to a clock of microseconds (`mac_table.h:8`).

Seen in `Hosts`: a datagram for a port without a socket is neither freed nor kept, because `udp_receive` hands it to the ICMP
helper (`udp.c:184`; `16_udp.md:260` says that it consumes every packet), which does not free it (`15_icmp.md:212`). It is one of
the exceptions that NothingElseLost names. The others are written down by the documents themselves: what `link_transmit` cloned
(`05_link.md:555`, `14_ip.md:298`), an ARP request that could not be sent (`11_arp.md:233`), a frame for another station
(`09_ethernet.md:635`). A payload that `host_send_ip` could not send because the link was down still has both headers on; a retry puts a
second IPv4 header before them and finds no room for the second Ethernet header, so such a payload can never be sent (`18_host.md:274`
says only that the caller still owns it). `ip_send` writes the sum of header
and payload into 16 bits (`ip.c:181`), while `udp_send` accepts payloads with which it wraps (65508 to 65527 bytes).
`ip_receive` does not look at the destination address (`14_ip.md:438`).

## 7. Not modelled

- Device and topology: registries of pointers with search by name; their one effect on the stack, which interface an address belongs to, is
  in Routable for one interface per host. `host_free`, `host_receive` (a wrapper that nothing calls) and interfaces added to a running host.
- The byte-order conversions: pure; the modules carry values in host order.
- Header bytes, checksums, interface and link counters, link attributes (bandwidth, loss, jitter): the properties do not tell them apart.
- Allocation failures of the event queue are in Scheduler, those of packets in Hosts; the other modules have none, and nowhere does the malloc of a
  header, of an event record or of a second block of one packet fail by itself.
- Malformed TCP segments: only segments that the code builds are in `net`. In Hosts, datagrams reach `udp_receive` malformed only by way of
  `host_send_ip` with a payload that is none, and payloads of datagrams are empty.
- Drivers called from a handler; freeing a switch; adding ports to a running switch; more than one interface per host.
