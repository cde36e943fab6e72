-------------------------------- MODULE Arp --------------------------------
(***************************************************************************)
(* A node's ARP cache and pending packets (protocols/arp_cache.c), the     *)
(* handlers that fill it (protocols/arp.c) and ip_output (protocols/ip.c). *)
(* The node has one interface, every address asked for is on its subnet,   *)
(* and memory does not run out.                                            *)
(*                                                                         *)
(* What arrives is an Ethernet frame (EVT_PACKET_RECEIVE, all that         *)
(* link_transmit schedules) or an ARP event, which an application          *)
(* schedules as the unit tests do.                                         *)
(***************************************************************************)
EXTENDS Naturals, Sequences, FiniteSets

CONSTANTS
    Addrs,       \* bound: IPv4 addresses of the subnet's other nodes
    Macs,        \* bound: their MAC addresses
    CacheSize,   \* ARP_MAX_CACHE_SIZE
    MaxPending,  \* ARP_MAX_PENDING_PACKETS
    Timeout,     \* ARP_CACHE_TIMEOUT_MS
    Ways,        \* bound: how ARP packets arrive, a subset of {"FRAME", "EVENT"}
    Free,        \* a slot that is not valid
    MaxPayloads, \* bound: calls of ip_output
    MaxArrivals, \* bound: ARP packets that wait to be dispatched
    MaxFlaps     \* bound: changes of the link and of the interface

ASSUME ArpAssumption ==
    /\ CacheSize \in Nat /\ MaxPending \in Nat /\ Timeout \in Nat \ {0}
    /\ MaxPayloads \in Nat /\ MaxArrivals \in Nat /\ MaxFlaps \in Nat
    /\ Ways \subseteq {"FRAME", "EVENT"}
    /\ Free \notin [ip : Addrs, mac : Macs, age : 0 .. Timeout]
    /\ Free \notin [ip : Addrs, pay : Nat]

VARIABLES
    entries,      \* ArpCache.entries
    count,        \* ArpCache.count
    pending,      \* ArpCache.pending
    pendingCount, \* ArpCache.pending_count
    linkUp,       \* the link and its other end are up
    ifaceUp,      \* the node's own interface is up
    inbox,        \* scheduled arrivals of ARP packets
    flaps,        \* counter for the bound
    fate,         \* history: what became of each payload given to ip_output
    out,          \* history: packets the last call transmitted, and to which MAC
    heard,        \* history: the MAC last learnt for an address
    answered      \* history: the address the last dispatch sent an ARP reply to

vars == <<entries, count, pending, pendingCount, linkUp, ifaceUp, inbox, flaps,
          fate, out, heard, answered>>

cache  == <<entries, count>>
queue  == <<pending, pendingCount>>
medium == <<linkUp, ifaceUp, flaps>>

Slots  == 1 .. CacheSize
PSlots == 1 .. MaxPending
Fates  == {"queued", "sent", "freed", "returned"}
Arrival == [way : Ways, op : {"REQUEST", "REPLY"}, ip : Addrs, mac : Macs]

Init ==
    /\ entries = [i \in Slots |-> Free] /\ count = 0
    /\ pending = [i \in PSlots |-> Free] /\ pendingCount = 0
    /\ linkUp = TRUE /\ ifaceUp = TRUE /\ flaps = 0
    /\ inbox = <<>>
    /\ fate = <<>> /\ out = {}
    /\ heard = [a \in Addrs |-> Free]
    /\ answered = {}

-----------------------------------------------------------------------------
Known == {i \in Slots : entries[i] # Free}
Waiting == {i \in PSlots : pending[i] # Free}
First(S, i) == i \in S /\ \A j \in S : i <= j

\* The valid slots of an address, searched from the first.
EntriesOf(ip) == {i \in Known : entries[i].ip = ip}

\* Faulty: a refreshed entry keeps its MAC address.
RefreshAge(i, mac) == [entries EXCEPT ![i].age = 0]

Refreshed(i, mac) == [entries EXCEPT ![i].mac = mac, ![i].age = 0]

\* arp_cache_add: refreshes the address's slot, or else fills the first free
\* one.  A full cache stays as it is.
Add(ip, mac) ==
    \/ \E i \in EntriesOf(ip) :
          /\ First(EntriesOf(ip), i)
          /\ entries' = Refreshed(i, mac)
          /\ UNCHANGED count
    \/ /\ EntriesOf(ip) = {}
       /\ \E i \in Slots \ Known :
             /\ First(Slots \ Known, i)
             /\ entries' = [entries EXCEPT ![i] = [ip |-> ip, mac |-> mac, age |-> 0]]
             /\ count' = count + 1
    \/ EntriesOf(ip) = {} /\ Known = Slots /\ UNCHANGED cache

\* Faulty: one packet per answer.
FirstMatching(ip) ==
    {i \in Waiting : /\ pending[i].ip = ip
                     /\ \A j \in Waiting : pending[j].ip = ip => i <= j}

Matching(ip) == {i \in Waiting : pending[i].ip = ip}

\* Faulty: frees the packets of a failed send, but not their slots.
ClearSent(S) == IF linkUp THEN [i \in PSlots |-> IF i \in S THEN Free ELSE pending[i]]
                ELSE pending

Cleared(S) == [i \in PSlots |-> IF i \in S THEN Free ELSE pending[i]]

\* arp_pending_flush: the slot is cleared before ip_send, which fails exactly
\* if the link is down.  ip_send does not ask for the node's own interface.
Flush(ip, mac) ==
    /\ pending' = Cleared(Matching(ip))
    /\ pendingCount' = pendingCount - Cardinality(Matching(ip))
    /\ fate' = [p \in DOMAIN fate |->
                   IF \E i \in Matching(ip) : pending[i].pay = p
                   THEN IF linkUp THEN "sent" ELSE "freed"
                   ELSE fate[p]]
    /\ out' = IF linkUp THEN {[ip |-> ip, mac |-> mac] : i \in Matching(ip)} ELSE {}

-----------------------------------------------------------------------------
(***************************************************************************)
(* ip_output.                                                              *)
(***************************************************************************)
\* The interface is down, the request or the packet cannot be sent, or no
\* pending slot is free (the request is out by then): the caller keeps it.
OutputFails(ip) ==
    /\ \/ ~ifaceUp \/ ~linkUp
       \/ EntriesOf(ip) = {} /\ Waiting = PSlots
    /\ fate' = Append(fate, "returned")
    /\ out' = {} /\ UNCHANGED queue

\* The address is known: ip_send.
OutputSends(ip) ==
    /\ ifaceUp /\ linkUp
    /\ \E i \in EntriesOf(ip) :
          /\ First(EntriesOf(ip), i)
          /\ out' = {[ip |-> ip, mac |-> entries[i].mac]}
    /\ fate' = Append(fate, "sent")
    /\ UNCHANGED queue

\* arp_send_request, then arp_pending_enqueue.
OutputWaits(ip) ==
    /\ ifaceUp /\ linkUp /\ EntriesOf(ip) = {}
    /\ \E i \in PSlots \ Waiting :
          /\ First(PSlots \ Waiting, i)
          /\ pending' = [pending EXCEPT ![i] = [ip |-> ip, pay |-> Len(fate) + 1]]
    /\ pendingCount' = pendingCount + 1
    /\ fate' = Append(fate, "queued")
    /\ out' = {}

IpOutput(ip) ==
    /\ Len(fate) < MaxPayloads
    /\ OutputFails(ip) \/ OutputSends(ip) \/ OutputWaits(ip)
    /\ UNCHANGED <<cache, medium, inbox, heard, answered>>

-----------------------------------------------------------------------------
(***************************************************************************)
(* The handlers, the clock and the environment.                            *)
(***************************************************************************)
\* An ARP packet is scheduled for the node: a request for its address, or a
\* reply.  link_transmit asks for the link and for the interface at its end.
Arrive(e) ==
    /\ e.way = "FRAME" => linkUp /\ ifaceUp
    /\ Len(inbox) < MaxArrivals
    /\ inbox' = Append(inbox, e)
    /\ UNCHANGED <<cache, queue, medium, fate, out, heard, answered>>

\* arp_request_handler and arp_reply_handler: arp_send_reply, arp_cache_add
\* and arp_pending_flush.
ArpHandler(e) ==
    /\ answered' = IF e.op = "REQUEST" /\ linkUp THEN {e.ip} ELSE {}
    /\ Add(e.ip, e.mac)
    /\ Flush(e.ip, e.mac)
    /\ heard' = [heard EXCEPT ![e.ip] = e.mac]

\* ethernet_receive_event: the interface's rx_handler is ip_rx_shim, and
\* ip_receive frees what does not start with an IPv4 header.
FrameHandler ==
    /\ out' = {} /\ answered' = {}
    /\ UNCHANGED <<cache, queue, fate, heard>>

Dispatch ==
    /\ inbox # <<>>
    /\ inbox' = Tail(inbox)
    /\ \/ Head(inbox).way = "EVENT" /\ ArpHandler(Head(inbox))
       \/ Head(inbox).way = "FRAME" /\ FrameHandler
    /\ UNCHANGED medium

Tick ==
    /\ \E i \in Known : entries[i].age < Timeout
    /\ entries' = [i \in Slots |->
                      IF i \in Known /\ entries[i].age < Timeout
                      THEN [entries[i] EXCEPT !.age = @ + 1] ELSE entries[i]]
    /\ UNCHANGED <<count, queue, medium, inbox, fate, out, heard, answered>>

Stale == {i \in Known : entries[i].age >= Timeout}

\* Faulty: does not count what it removes.
ExpireUncounted ==
    /\ entries' = [i \in Slots |-> IF i \in Stale THEN Free ELSE entries[i]]
    /\ UNCHANGED count

\* arp_cache_cleanup.
Expire ==
    /\ entries' = [i \in Slots |-> IF i \in Stale THEN Free ELSE entries[i]]
    /\ count' = count - Cardinality(Stale)

\* An application calls it: nothing in src/ does.
Cleanup ==
    /\ Stale # {}
    /\ Expire
    /\ UNCHANGED <<queue, medium, inbox, fate, out, heard, answered>>

\* link_set_up and interface_set_up.
Flap ==
    /\ flaps < MaxFlaps
    /\ flaps' = flaps + 1
    /\ \/ linkUp' = ~linkUp /\ UNCHANGED ifaceUp
       \/ ifaceUp' = ~ifaceUp /\ UNCHANGED linkUp
    /\ UNCHANGED <<cache, queue, inbox, fate, out, heard, answered>>

Next ==
    \/ \E ip \in Addrs : IpOutput(ip)
    \/ \E e \in Arrival : Arrive(e)
    \/ Dispatch \/ Tick \/ Cleanup \/ Flap

Spec == Init /\ [][Next]_vars

\* The scheduler dispatches every event.
LiveSpec == Spec /\ WF_vars(Dispatch)

-----------------------------------------------------------------------------
(***************************************************************************)
(* Properties.                                                             *)
(***************************************************************************)
\* Types; both counters agree with the valid slots and no address has two
\* entries, whatever holes expiry and flushing leave.
TypeOK ==
    /\ entries \in [Slots -> [ip : Addrs, mac : Macs, age : 0 .. Timeout] \cup {Free}]
    /\ count = Cardinality(Known) /\ pendingCount = Cardinality(Waiting)
    /\ \A i, j \in Known : entries[i].ip = entries[j].ip => i = j
    /\ pending \in [PSlots -> [ip : Addrs, pay : 1 .. MaxPayloads] \cup {Free}]
    /\ linkUp \in BOOLEAN /\ ifaceUp \in BOOLEAN /\ flaps \in 0 .. MaxFlaps
    /\ inbox \in Seq(Arrival)
    /\ fate \in Seq(Fates) /\ Len(fate) <= MaxPayloads
    /\ out \subseteq [ip : Addrs, mac : Macs]
    /\ heard \in [Addrs -> Macs \cup {Free}]
    /\ answered \subseteq Addrs

\* A payload ip_output queued is in exactly one pending slot until it is sent
\* or freed, and no slot holds one that left or that the caller kept: the
\* queue never sends or frees a packet twice and never loses one.
PayloadHasOneOwner ==
    /\ \A i \in Waiting : /\ pending[i].pay \in DOMAIN fate
                          /\ fate[pending[i].pay] = "queued"
    /\ \A i, j \in Waiting : pending[i].pay = pending[j].pay => i = j
    /\ \A p \in DOMAIN fate : fate[p] = "queued" => \E i \in Waiting : pending[i].pay = p

\* No packet waits for an address that a lookup resolves: no later answer
\* would be needed, so none might come.
NothingWaitsForKnown ==
    \A i \in Waiting : EntriesOf(pending[i].ip) = {}

\* A packet, whether it waited or not, goes to the MAC address last learnt for
\* its destination, also when the cache is full and learns nothing.
SentToLatestMac == \A r \in out : r.mac = heard[r.ip]

-----------------------------------------------------------------------------
\* "the broadcast frame travels through ethernet_send -> link_transmit ->
\* scheduler_schedule(EVT_ARP_REQUEST)" and "Host B answers" (arp.c): but a
\* request arrives as a frame, and ip_receive drops it.
RequestIsAnswered ==
    \A a \in Addrs :
        (\E k \in DOMAIN inbox : inbox[k].op = "REQUEST" /\ inbox[k].ip = a)
            ~> a \in answered
=============================================================================
