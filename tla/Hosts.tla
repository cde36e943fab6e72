------------------------------- MODULE Hosts -------------------------------
(***************************************************************************)
(* Two hosts on one link, each with one interface: the composition that    *)
(* host_create and host_add_interface (network/host.c) build of UDP        *)
(* (protocols/udp.c), ICMP (icmp.c), IPv4 (ip.c), the ARP cache, Ethernet  *)
(* and the link, over packets (packet.c) that are allocated and freed.     *)
(* A host is named by its address, which also stands for its MAC address.  *)
(*                                                                         *)
(* One thread runs everything; what interleaves are the calls of the       *)
(* application, which include those a receive callback makes, and the      *)
(* frames the scheduler dispatches in the order they were sent (all have   *)
(* the delay of the one link).  A handler runs to its end in one action.   *)
(***************************************************************************)
EXTENDS Packet, Sequences, FiniteSets

CONSTANTS
    Hosts,      \* the two hosts
    Width,      \* bits of an address
    PrefixLen,  \* Interface.prefix_len of both
    Dests,      \* bound: addresses in use
    Pairs,      \* bound: source and destination of what the application sends
    Claims,     \* bound: host, address and MAC of the ARP replies it is given
    Ports,      \* bound: UDP ports in use
    Binds,      \* bound: host and port of the sockets
    Handlers,   \* bound: host, protocol and handler of the registrations
    MaxSockets, \* UDP_MAX_SOCKETS
    MaxPending, \* ARP_MAX_PENDING_PACKETS
    Ids,        \* bound: memory for packets, as the addresses malloc can return
    MaxSends,   \* bound: calls that send
    MaxChanges  \* bound: calls that bind, unbind, register, learn or change the link

ASSUME AddressAssumption ==
    /\ Width \in Nat /\ PrefixLen \in Nat
    /\ Dests \subseteq 1 .. 2 ^ Width - 1

ASSUME HostsAssumption ==
    /\ \E g, h \in Hosts : g # h /\ Hosts = {g, h}
    /\ Hosts \subseteq Dests
    /\ Pairs \subseteq Dests \X Dests /\ Claims \subseteq Hosts \X Dests \X Hosts
    /\ Ports \subseteq Nat \ {0} /\ Binds \subseteq Hosts \X Ports
    /\ Handlers \subseteq Hosts \X {"ICMP", "UDP", "OTHER"} \X {"none", "app"}
    /\ Ids \subseteq Nat \ {0}
    /\ MaxSockets \in Nat /\ MaxPending \in Nat
    /\ MaxSends \in Nat /\ MaxChanges \in Nat

VARIABLES
    mem,      \* what malloc returned: a packet, or Freed
    app,      \* packets the application owns
    told,     \* history: number and source address a datagram was delivered with
    sockets,  \* UdpState.sockets of each host: a port, or 0 when not valid
    count,    \* UdpState.count
    handlers, \* IpStack.protocols of each host
    cache,    \* ArpCache.entries: MAC addresses, 0 when unknown
    pending,  \* ArpCache.pending
    wire,     \* scheduled EVT_PACKET_RECEIVE events, in order
    linkUp,   \* Link.up
    up,       \* Interface.up
    sends, changes  \* counters for the bounds

vars == <<mem, app, told, sockets, count, handlers, cache, pending, wire,
          linkUp, up, sends, changes>>

heap  == <<mem, app, told>>
udp   == <<sockets, count>>
medium == <<linkUp, up>>
bounds == <<sends, changes>>

Freed     == [data |-> -1]
Broadcast == 0
Nobody    == [name |-> 0, from |-> 0]
Protos    == {"ICMP", "UDP", "OTHER"}
Slots     == 1 .. MaxSockets
PSlots    == 1 .. MaxPending
Peer(h)   == CHOOSE g \in Hosts : g # h

\* Payloads above IPv4.  An error quotes the header of its original.  Datagrams
\* are numbered, to tell them apart (history).
NoQuote == [proto |-> "NONE", src |-> 0, dst |-> 0]
Plain(kind) == [kind |-> kind, name |-> 0, port |-> 0, quote |-> NoQuote, about |-> "none"]
Datagram(name, port) == [Plain("datagram") EXCEPT !.name = name, !.port = port]

Kinds == {"raw", "arp", "datagram", "request", "reply", "error"}
Route  == [proto : Protos, src : Hosts, dst : Dests]
Header == Route \cup {NoQuote}
Buffer ==
    [data : Nat, len : Nat, cap : Nat, ip : Int, hdr : Header,
     eth : [src : Hosts \cup {0}, dst : Hosts \cup {0}],
     body : [kind : Kinds, name : 0 .. MaxSends, port : Ports \cup {0},
             quote : Header, about : Kinds \cup {"none"}]]

\* An ArpPendingPacket: the packet and the header it is waiting to be given.
Entry(id, hdr) == [id |-> id, hdr |-> hdr]
Empty == Entry(0, NoQuote)

\* host_create and host_add_interface for both hosts, and their interfaces up.
Init ==
    /\ mem = [i \in Ids |-> Freed] /\ app = {} /\ told = [i \in Ids |-> Nobody]
    /\ sockets = [h \in Hosts |-> [i \in Slots |-> 0]]
    /\ count = [h \in Hosts |-> 0]
    /\ handlers = [h \in Hosts |-> [p \in Protos |->
                      IF p = "ICMP" THEN "icmp" ELSE IF p = "UDP" THEN "udp" ELSE "none"]]
    /\ cache = [h \in Hosts |-> [a \in Dests |-> 0]]
    /\ pending = [h \in Hosts |-> [i \in PSlots |-> Empty]]
    /\ wire = <<>> /\ linkUp = TRUE /\ up = [h \in Hosts |-> TRUE]
    /\ sends = 0 /\ changes = 0

-----------------------------------------------------------------------------
(***************************************************************************)
(* Memory and the way down the stack.                                      *)
(***************************************************************************)
FreeIn(m)   == {i \in Ids : m[i] = Freed}
Lowest(S, i) == i \in S /\ \A j \in S : i <= j
FreeAll(m, S) == [i \in Ids |-> IF i \in S THEN Freed ELSE m[i]]

\* ip_prefix_mask: the bits of an address that the mask keeps.
Network(a) == a \div 2 ^ (Width - IF PrefixLen > Width THEN Width ELSE PrefixLen)

\* ip_find_source_iface, interface_is_up and ip_same_subnet.
Routable(hdr) ==
    hdr.src \in Hosts /\ up[hdr.src] /\ Network(hdr.src) = Network(hdr.dst)

WithIp(p, hdr) ==
    [Prepended(p, IpHdrLen) EXCEPT !.ip = p.data - IpHdrLen, !.hdr = hdr]
WithEth(p, src, dst) ==
    [Prepended(p, EthHdrLen) EXCEPT !.eth = [src |-> src, dst |-> dst]]

\* What ip_send and ethernet_send leave of a packet they could not send: the
\* headers that fit are on it.
Tried(p, hdr, mac) ==
    IF ~CanPrepend(p, IpHdrLen) THEN p
    ELSE IF ~CanPrepend(WithIp(p, hdr), EthHdrLen) THEN WithIp(p, hdr)
    ELSE WithEth(WithIp(p, hdr), hdr.src, mac)

HeadersFit(p, hdr) == CanPrepend(p, IpHdrLen) /\ CanPrepend(WithIp(p, hdr), EthHdrLen)

\* link_transmit asks for the link and for the interface at its far end.
Carries(h) == linkUp /\ up[Peer(h)]

Frame(c, h) == [id |-> c, to |-> Peer(h)]
\* arp_send_request prepends the ARP packet to an empty payload.
ArpFrame(h) ==
    LET empty == [Created(ArpLen, Plain("arp")) EXCEPT !.len = 0]
    IN  WithEth(Prepended(empty, ArpLen), h, Broadcast)

(***************************************************************************)
(* ip_output of the packet at id, in memory m and with w on the wire, and  *)
(* what its caller does after it: frees `spare' if the result is -1, and   *)
(* `done' in any case.                                                     *)
(***************************************************************************)
\* Faulty: does not free the packet that was made for the call.
FailedShort(m, w, done, spare) ==
    /\ mem' = FreeAll(m, done)
    /\ wire' = w /\ UNCHANGED pending

Failed(m, w, done, spare) ==
    /\ mem' = FreeAll(m, done \cup spare)
    /\ wire' = w /\ UNCHANGED pending

OutputRefused(m, w, hdr, done, spare) ==
    ~Routable(hdr) /\ Failed(m, w, done, spare)

\* ip_send: a header that does not fit, the link, or no memory for the clone.
OutputFails(m, w, id, hdr, done, spare) ==
    LET mac == cache[hdr.src][hdr.dst] IN
    /\ Routable(hdr) /\ mac # 0
    /\ ~HeadersFit(m[id], hdr) \/ ~Carries(hdr.src) \/ FreeIn(m) = {}
    /\ Failed([m EXCEPT ![id] = Tried(@, hdr, mac)], w, done, spare)

\* link_transmit schedules a clone; nobody frees the original.
OutputSends(m, w, id, hdr, done) ==
    LET mac == cache[hdr.src][hdr.dst]
        p   == Tried(m[id], hdr, mac)
    IN  /\ Routable(hdr) /\ mac # 0
        /\ HeadersFit(m[id], hdr) /\ Carries(hdr.src)
        /\ \E c \in Ids :
              /\ Lowest(FreeIn(m), c)
              /\ mem' = FreeAll([m EXCEPT ![id] = p, ![c] = Clone(p)], done)
              /\ wire' = Append(w, Frame(c, hdr.src))
        /\ UNCHANGED pending

\* arp_send_request fails; its packet, if there was memory for one, is lost.
OutputCannotAsk(m, w, hdr, done, spare) ==
    /\ Routable(hdr) /\ cache[hdr.src][hdr.dst] = 0
    /\ \/ FreeIn(m) = {} /\ Failed(m, w, done, spare)
       \/ \E r \in Ids :
             /\ Lowest(FreeIn(m), r)
             /\ ~Carries(hdr.src) \/ FreeIn(m) = {r}
             /\ Failed([m EXCEPT ![r] = ArpFrame(hdr.src)], w, done, spare)

\* arp_send_request leaves with packet r, of which clone c is on the wire.
Asks(m, hdr, r, c) ==
    /\ Routable(hdr) /\ cache[hdr.src][hdr.dst] = 0 /\ Carries(hdr.src)
    /\ Lowest(FreeIn(m), r) /\ Lowest(FreeIn(m) \ {r}, c)
Asked(m, h, r, c) == [m EXCEPT ![r] = ArpFrame(h), ![c] = Clone(ArpFrame(h))]

FreeSlots(h) == {i \in PSlots : pending[h][i] = Empty}

OutputQueueFull(m, w, hdr, done, spare) ==
    /\ FreeSlots(hdr.src) = {}
    /\ \E r, c \in Ids :
          /\ Asks(m, hdr, r, c)
          /\ Failed(Asked(m, hdr.src, r, c), Append(w, Frame(c, hdr.src)), done, spare)

\* arp_pending_enqueue: the packet waits for the answer.
OutputWaits(m, w, id, hdr, done) ==
    \E r, c \in Ids, i \in PSlots :
        /\ Asks(m, hdr, r, c) /\ Lowest(FreeSlots(hdr.src), i)
        /\ pending' = [pending EXCEPT ![hdr.src][i] = Entry(id, hdr)]
        /\ mem' = FreeAll(Asked(m, hdr.src, r, c), done)
        /\ wire' = Append(w, Frame(c, hdr.src))

\* The result is -1, and the packet stays with the caller.
Keeps(m, w, id, hdr, done, spare) ==
    \/ OutputRefused(m, w, hdr, done, spare)
    \/ OutputFails(m, w, id, hdr, done, spare)
    \/ OutputCannotAsk(m, w, hdr, done, spare)
    \/ OutputQueueFull(m, w, hdr, done, spare)

\* The result is 1 or 0.
Takes(m, w, id, hdr, done) ==
    \/ OutputSends(m, w, id, hdr, done)
    \/ OutputWaits(m, w, id, hdr, done)

\* A packet made for this call: the caller frees it when the result is -1.
Send(m, w, len, body, hdr, done) ==
    \/ FreeIn(m) = {} /\ Failed(m, w, done, {})
    \/ \E id \in Ids :
          LET made == [m EXCEPT ![id] = Created(len, body)] IN
          /\ Lowest(FreeIn(m), id)
          /\ Keeps(made, w, id, hdr, done, {id}) \/ Takes(made, w, id, hdr, done)

-----------------------------------------------------------------------------
(***************************************************************************)
(* What the application calls.                                             *)
(***************************************************************************)
Change == changes < MaxChanges /\ changes' = changes + 1
Bound(h) == {i \in Slots : sockets[h][i] # 0}
SlotsOf(h, port) == {i \in Bound(h) : sockets[h][i] = port}

\* Faulty: does not look for the port.
BindTwice(h, port) == TRUE

MayBind(h, port) == SlotsOf(h, port) = {}

UdpBind(h, port) ==
    /\ Change
    /\ MayBind(h, port)
    /\ \E i \in Slots \ Bound(h) :
          /\ Lowest(Slots \ Bound(h), i)
          /\ sockets' = [sockets EXCEPT ![h][i] = port]
    /\ count' = [count EXCEPT ![h] = @ + 1]
    /\ UNCHANGED <<heap, handlers, cache, pending, wire, medium, sends>>

UdpUnbind(h, port) ==
    /\ Change
    /\ \E i \in SlotsOf(h, port) :
          /\ Lowest(SlotsOf(h, port), i)
          /\ sockets' = [sockets EXCEPT ![h][i] = 0]
    /\ count' = [count EXCEPT ![h] = @ - 1]
    /\ UNCHANGED <<heap, handlers, cache, pending, wire, medium, sends>>

\* ip_stack_register_protocol and ip_stack_unregister_protocol.
Register(h, proto, handler) ==
    /\ Change
    /\ handlers[h][proto] # handler
    /\ handlers' = [handlers EXCEPT ![h][proto] = handler]
    /\ UNCHANGED <<heap, udp, cache, pending, wire, medium, sends>>

\* link_set_up and interface_set_up.
Flap ==
    /\ Change
    /\ \/ linkUp' = ~linkUp /\ UNCHANGED up
       \/ \E h \in Hosts : up' = [up EXCEPT ![h] = ~@] /\ UNCHANGED linkUp
    /\ UNCHANGED <<heap, udp, handlers, cache, pending, wire, sends>>

Sending == sends < MaxSends /\ sends' = sends + 1
Quiet   == UNCHANGED <<app, told, udp, handlers, cache, medium, changes>>

\* udp_send with an empty payload.
UdpSend(src, dst, port) ==
    /\ Sending
    /\ Send(mem, wire, UdpHdrLen, Datagram(sends + 1, port),
            [proto |-> "UDP", src |-> src, dst |-> dst], {})
    /\ Quiet

EchoRequest(src, dst) ==
    /\ Sending
    /\ Send(mem, wire, IcmpHdrLen, Plain("request"),
            [proto |-> "ICMP", src |-> src, dst |-> dst], {})
    /\ Quiet

\* The application makes a packet of its own.
AppCreates(len) ==
    /\ Sending
    /\ \E id \in Ids :
          /\ Lowest(FreeIn(mem), id)
          /\ mem' = [mem EXCEPT ![id] = Created(len, Plain("raw"))]
          /\ app' = app \cup {id}
    /\ UNCHANGED <<told, udp, handlers, cache, pending, wire, medium, changes>>

\* host_send_ip, with a packet the application made, was given by a socket's
\* callback, or failed to send before (bound: not with the message that one of
\* its protocol handlers was given).
HostSendIp(id, src, dst, proto) ==
    LET hdr == [proto |-> proto, src |-> src, dst |-> dst] IN
    /\ Sending
    /\ id \in app /\ ~IpBehind(mem[id])
    /\ \/ Keeps(mem, wire, id, hdr, {}, {}) /\ UNCHANGED app
       \/ Takes(mem, wire, id, hdr, {}) /\ app' = app \ {id}
    /\ told' = [told EXCEPT ![id] = Nobody]
    /\ UNCHANGED <<udp, handlers, cache, medium, changes>>

AppFrees(id) ==
    /\ id \in app
    /\ mem' = FreeAll(mem, {id}) /\ app' = app \ {id}
    /\ told' = [told EXCEPT ![id] = Nobody]
    /\ UNCHANGED <<udp, handlers, cache, pending, wire, medium, bounds>>

-----------------------------------------------------------------------------
(***************************************************************************)
(* ICMP errors.                                                            *)
(***************************************************************************)
\* The IPv4 header a handler finds before the data.
HeaderRead(p) == IF IpBehind(p) THEN p.hdr ELSE NoQuote

\* Faulty: answers everything.
AnswersErrors(p) == FALSE

\* An error is not sent about an ICMP error, nor about an ICMP message too
\* short to tell.
IsSuppressed(p) ==
    HeaderRead(p).proto = "ICMP" /\ (p.len < IcmpHdrLen \/ p.body.kind = "error")

InBuffer(p) == p.data >= IpHdrLen /\ p.data < PktHeadroom + p.cap

ErrorBody(p) ==
    [Plain("error") EXCEPT !.quote = HeaderRead(p), !.about = p.body.kind]

\* icmp_send_error about the packet p that arrived at h, with any type and code.
\* It reads p, and neither frees nor keeps it.
IcmpError(m, w, h, p) ==
    \/ /\ ~InBuffer(p) \/ IsSuppressed(p)
       /\ Failed(m, w, {}, {})
    \/ /\ InBuffer(p) /\ ~IsSuppressed(p)
       /\ Send(m, w, IcmpHdrLen + IpHdrLen + (IF p.len < QuoteLen THEN p.len ELSE QuoteLen),
               ErrorBody(p),
               [proto |-> "ICMP", src |-> h, dst |-> HeaderRead(p).src], {})

\* icmp_send_unreach_proto, icmp_send_time_exceeded and their like, called by
\* the application about a packet that its protocol handler was given.
AppSendsError(h, id) ==
    /\ Sending
    /\ id \in app /\ IpBehind(mem[id])
    /\ IcmpError(mem, wire, h, mem[id])
    /\ Quiet

-----------------------------------------------------------------------------
(***************************************************************************)
(* The way up the stack: ethernet_receive_event for the first frame.       *)
(***************************************************************************)
First == Head(wire)
Here  == First.to
Rest  == Tail(wire)
Raw   == mem[First.id]
\* The packet after ip_receive stripped two headers.
Opened == Stripped(Stripped(Raw, EthHdrLen), IpHdrLen)
OpenedMem == [mem EXCEPT ![First.id] = Opened]

Arrives == wire # <<>>

ForMe == Raw.eth.dst \in {Here, Broadcast}

Nothing == UNCHANGED <<app, told, pending>>

\* Another station's frame is counted and forgotten.
Refuse ==
    /\ ~ForMe
    /\ wire' = Rest /\ UNCHANGED mem
    /\ Nothing

\* The interface's handler is ip_rx_shim: ip_receive frees an ARP packet.
NotIp ==
    /\ ForMe
    /\ Raw.body.kind = "arp"
    /\ wire' = Rest /\ mem' = FreeAll(mem, {First.id})
    /\ Nothing

IsFor(handler) ==
    ForMe /\ Raw.body.kind # "arp" /\ handlers[Here][Raw.hdr.proto] = handler

\* ip_receive without a handler for the protocol forgets the packet.
Unhandled ==
    /\ IsFor("none")
    /\ wire' = Rest /\ mem' = OpenedMem
    /\ Nothing

\* A handler the application registered keeps the packet.
AppHandler ==
    /\ IsFor("app")
    /\ wire' = Rest /\ mem' = OpenedMem
    /\ app' = app \cup {First.id}
    /\ UNCHANGED <<told, pending>>

\* icmp_receive: only an echo request is answered, and all is freed.
IcmpConsumes ==
    /\ IsFor("icmp")
    /\ Opened.body.kind # "request"
    /\ wire' = Rest /\ mem' = FreeAll(mem, {First.id})
    /\ Nothing

\* The addresses of the request, swapped.
ReplyHeader(p) ==
    [proto |-> "ICMP", src |-> HeaderRead(p).dst, dst |-> HeaderRead(p).src]

\* icmp_send_echo_reply.
EchoReply ==
    /\ IsFor("icmp")
    /\ Opened.body.kind = "request"
    /\ Send(OpenedMem, Rest, Opened.len, Plain("reply"), ReplyHeader(Opened), {First.id})
    /\ UNCHANGED <<app, told>>

\* udp_receive: the checks of the buffer, of the protocol and of the length.
IsDatagram(p) ==
    /\ p.len >= UdpHdrLen /\ InBuffer(p)
    /\ HeaderRead(p).proto = "UDP" /\ p.body.kind = "datagram"

UdpMalformed ==
    /\ IsFor("udp")
    /\ ~IsDatagram(Opened)
    /\ wire' = Rest /\ mem' = FreeAll(mem, {First.id})
    /\ Nothing

\* Faulty: the header is read after the strip.
SourceLate(p) == HeaderRead(Stripped(p, UdpHdrLen)).src

SourceOf(p) == HeaderRead(p).src

\* Faulty: frees what the callback was given.
HandedOnce(m, id) == FreeAll(m, {id})

\* The payload that the callback is given, and owns.
Handed(m, id) ==
    [m EXCEPT ![id] = [Stripped(@, UdpHdrLen) EXCEPT !.body = Plain("raw")]]

UdpDelivers ==
    /\ IsFor("udp") /\ IsDatagram(Opened)
    /\ SlotsOf(Here, Opened.body.port) # {}
    /\ wire' = Rest
    /\ mem' = Handed(OpenedMem, First.id)
    /\ app' = app \cup {First.id}
    /\ told' = [told EXCEPT ![First.id] =
                  [name |-> Opened.body.name, from |-> SourceOf(Opened)]]
    /\ UNCHANGED <<pending>>

\* No socket has the port: icmp_send_unreach_port, and the datagram is
\* forgotten.
UdpUnreachable ==
    /\ IsFor("udp") /\ IsDatagram(Opened)
    /\ SlotsOf(Here, Opened.body.port) = {}
    /\ IcmpError(OpenedMem, Rest, Here, Opened)
    /\ UNCHANGED <<app, told>>

Dispatch ==
    /\ Arrives
    /\ \/ Refuse \/ NotIp \/ Unhandled \/ AppHandler
       \/ IcmpConsumes \/ EchoReply
       \/ UdpMalformed \/ UdpDelivers \/ UdpUnreachable
    /\ UNCHANGED <<udp, handlers, cache, medium, bounds>>

-----------------------------------------------------------------------------
(***************************************************************************)
(* ARP answers, as events the application schedules (nothing in src/ does).*)
(***************************************************************************)
Waiting(h, a) == {i \in PSlots : pending[h][i] # Empty /\ pending[h][i].hdr.dst = a}

\* The waiting packets that ip_send can send, as far as there is memory.
Sendable(h, a) ==
    {i \in Waiting(h, a) : HeadersFit(mem[pending[h][i].id], pending[h][i].hdr) /\ Carries(h)}

Framed(h, i, mac) == Tried(mem[pending[h][i].id], pending[h][i].hdr, mac)

\* The memory that is free when the loop comes to slot i: what was free before,
\* and what it has dropped, without the clones c of what it has sent.
Avail(h, dropped, sent, c, i) ==
    (FreeIn(mem) \cup {pending[h][j].id : j \in {k \in dropped : k < i}})
        \ {c[j] : j \in {k \in sent : k < i}}

Increasing(q) == \A i, j \in DOMAIN q : i < j => q[i] < q[j]

\* The packets sent are all that there is memory for, and c are their clones.
ClonedTo(h, a, sent, c) ==
    LET dropped == Waiting(h, a) \ sent IN
    /\ \A i \in sent : Lowest(Avail(h, dropped, sent, c, i), c[i])
    /\ \A i \in Sendable(h, a) \ sent : Avail(h, dropped, sent, c, i) = {}

Flushed(h, a, mac, sent, c) ==
    LET dropped == Waiting(h, a) \ sent IN
    [x \in Ids |->
        IF \E i \in sent : c[i] = x
        THEN Clone(Framed(h, CHOOSE i \in sent : c[i] = x, mac))
        ELSE IF \E i \in sent : pending[h][i].id = x
        THEN Framed(h, CHOOSE i \in sent : pending[h][i].id = x, mac)
        ELSE IF \E i \in dropped : pending[h][i].id = x THEN Freed
        ELSE mem[x]]

\* arp_reply_handler: arp_cache_add, and arp_pending_flush, which clears the slots
\* in order, sends their packets and frees those it cannot send.
Flush(h, a, mac) ==
    \E sent \in SUBSET Sendable(h, a) :
    \E c \in [sent -> Ids], q \in [1 .. Cardinality(sent) -> sent] :
        /\ ClonedTo(h, a, sent, c) /\ Increasing(q)
        /\ mem' = Flushed(h, a, mac, sent, c)
        /\ wire' = wire \o [k \in 1 .. Cardinality(sent) |-> Frame(c[q[k]], h)]
        /\ pending' = [pending EXCEPT ![h] =
              [i \in PSlots |-> IF i \in Waiting(h, a) THEN Empty ELSE pending[h][i]]]

Learn(h, a, mac) ==
    /\ Change
    /\ cache' = [cache EXCEPT ![h][a] = mac]
    /\ Flush(h, a, mac)
    /\ UNCHANGED <<app, told, udp, handlers, medium, sends>>

\* arp_cache_cleanup.
Expire(h, a) ==
    /\ Change
    /\ cache[h][a] # 0
    /\ cache' = [cache EXCEPT ![h][a] = 0]
    /\ UNCHANGED <<heap, udp, handlers, pending, wire, medium, sends>>

Administration ==
    \/ \E b \in Binds : UdpBind(b[1], b[2]) \/ UdpUnbind(b[1], b[2])
    \/ \E r \in Handlers : Register(r[1], r[2], r[3])
    \/ Flap
    \/ \E c \in Claims : Learn(c[1], c[2], c[3])
    \/ \E h \in Hosts, a \in Dests : Expire(h, a)

Application ==
    \/ \E r \in Pairs, port \in Ports : UdpSend(r[1], r[2], port)
    \/ \E r \in Pairs : EchoRequest(r[1], r[2])
    \/ AppCreates(1)
    \/ \E id \in Ids, r \in Pairs, proto \in Protos : HostSendIp(id, r[1], r[2], proto)
    \/ \E id \in Ids : AppFrees(id)
    \/ \E h \in Hosts, id \in Ids : AppSendsError(h, id)

Next == Administration \/ Application \/ Dispatch

Spec == Init /\ [][Next]_vars

-----------------------------------------------------------------------------
(***************************************************************************)
(* Properties.                                                             *)
(***************************************************************************)
Packets == {i \in Ids : mem[i] # Freed}
OnWire  == {wire[k].id : k \in DOMAIN wire}
Queued(h) == {i \in PSlots : pending[h][i] # Empty}
InQueue == UNION {{pending[h][i].id : i \in Queued(h)} : h \in Hosts}
Owned   == OnWire \cup InQueue \cup app
Lost    == Packets \ Owned

\* Types; and a socket table whose count is right and whose ports differ.
TypeOK ==
    /\ mem \in [Ids -> Buffer \cup {Freed}]
    /\ app \subseteq Ids /\ told \in [Ids -> [name : 0 .. MaxSends, from : Dests \cup {0}]]
    /\ sockets \in [Hosts -> [Slots -> Ports \cup {0}]]
    /\ \A h \in Hosts : \A i, j \in Bound(h) : sockets[h][i] = sockets[h][j] => i = j
    /\ count \in [Hosts -> Nat] /\ \A h \in Hosts : count[h] = Cardinality(Bound(h))
    /\ handlers \in [Hosts -> [Protos -> {"icmp", "udp", "app", "none"}]]
    /\ cache \in [Hosts -> [Dests -> Hosts \cup {0}]]
    /\ pending \in [Hosts -> [PSlots -> [id : Ids, hdr : Route] \cup {Empty}]]
    /\ wire \in Seq([id : Ids, to : Hosts])
    /\ linkUp \in BOOLEAN /\ up \in [Hosts -> BOOLEAN]
    /\ sends \in 0 .. MaxSends /\ changes \in 0 .. MaxChanges

\* Every packet that a scheduled frame, a pending slot or the application can
\* still reach is allocated, and each has one owner: nothing is used after it was
\* freed or freed twice, whichever of the sends on the way failed.
OwnedOnce ==
    /\ Owned \subseteq Packets
    /\ \A j, k \in DOMAIN wire : wire[j].id = wire[k].id => j = k
    /\ OnWire \cap InQueue = {} /\ OnWire \cap app = {} /\ InQueue \cap app = {}
    /\ \A g, h \in Hosts : \A i \in Queued(g), j \in Queued(h) :
          pending[g][i].id = pending[h][j].id => g = h /\ i = j

\* The visible bytes of every packet stay inside its buffer, also when a packet
\* whose headers were left on by a failed send is sent again (packet.c:44, 56).
LayoutOK == \A i \in Packets : LayoutOf(mem[i])

\* An ICMP error goes back to the sender of the packet it quotes, and is never
\* about an ICMP error (icmp.c:31-42), whoever asks for it: udp_receive or a
\* protocol handler of the application.
ErrorGoesBack ==
    \A i \in Packets : mem[i].body.kind = "error" =>
        /\ mem[i].body.about # "error"
        /\ mem[i].hdr.proto = "ICMP" => mem[i].hdr.dst = mem[i].body.quote.src

\* A packet is forgotten without being freed in these cases only: link_transmit
\* scheduled a clone of it; it is an ARP request that could not be sent; or it
\* arrived, and the station, the protocol or the port is not the one it is for.
\* A send that fails anywhere on its way down frees what was made for it.
NothingElseLost ==
    [][\A i \in Lost' \ Lost :
          \/ \E c \in OnWire' \ OnWire : mem'[c] = Clone(mem'[i])
          \/ mem'[i].body.kind = "arp"
          \/ /\ Arrives /\ i = First.id
             /\ \/ ~ForMe
                \/ handlers[Here][Raw.hdr.proto] = "none"
                \/ Raw.body.kind = "datagram" /\ SlotsOf(Here, Raw.body.port) = {}]_vars

\* The datagrams on the wire or waiting for ARP, and those an application holds.
AsDatagram(p, hdr) ==
    [name |-> p.body.name, src |-> hdr.src, dst |-> hdr.dst, port |-> p.body.port]
InFlight ==
    {AsDatagram(mem[i], mem[i].hdr) : i \in {j \in OnWire : mem[j].body.kind = "datagram"}}
    \cup UNION {{AsDatagram(mem[pending[h][i].id], pending[h][i].hdr) :
                    i \in {j \in Queued(h) : mem[pending[h][j].id].body.kind = "datagram"}}
                : h \in Hosts}
D == INSTANCE Datagrams WITH
        flight <- InFlight, held <- {told[i] : i \in app} \ {Nobody}, last <- sends

\* The hosts implement the datagram service: whatever is queued, flushed, cloned
\* and answered on the way, a callback is given only what was sent, once, and is
\* told the address it came from, which udp_receive finds by an offset from data
\* that the layers below and its own strip have moved (udp.c:142).
ImplementsDatagrams == D!DSpec
=============================================================================
