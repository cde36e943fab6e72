---------------------------- MODULE HostsProofs ----------------------------
(***************************************************************************)
(* Theorems about the packets of two hosts, for every size of the memory,  *)
(* of the tables and of the address space: nothing is used after it was    *)
(* freed, nothing has two owners, and no header leaves its buffer.         *)
(***************************************************************************)
EXTENDS Hosts, FiniteSetTheorems, SequenceTheorems, TLAPS

Body == [kind : Kinds, name : 0 .. MaxSends, port : Ports \cup {0},
         quote : Header, about : Kinds \cup {"none"}]

\* A packet that some layer holds: its layout, and an IPv4 header that a host
\* on this link wrote, if it has one.
Sound(p) ==
    /\ p \in Buffer
    /\ LayoutOf(p)
    /\ p.ip # Nowhere => p.hdr \in Route

\* A packet that link_transmit may clone: both headers are on it, so that the
\* strips of the receiver stay inside, and IPv4 lies behind Ethernet.
Sendworthy(p) ==
    /\ Sound(p)
    /\ p.len >= EthHdrLen + IpHdrLen
    /\ p.body.kind = "arp" \/ p.ip = p.data + EthHdrLen

-----------------------------------------------------------------------------
(***************************************************************************)
(* What the layers do to one packet.                                       *)
(***************************************************************************)
\* Freed memory is no packet.
LEMMA FreedIsNoBuffer == Freed \notin Buffer
  BY DEF Freed, Buffer

\* A packet fresh from packet_create.
LEMMA CreatedSound ==
    ASSUME NEW len \in Nat, NEW body \in Body
    PROVE  Sound(Created(len, body))
  BY DEF Sound, Created, Buffer, Body, LayoutOf, Nowhere, PktHeadroom, IpHdrLen, Header, NoQuote

\* packet_prepend, when the headroom suffices.
LEMMA PrependedFields ==
    ASSUME NEW p \in Buffer, NEW n \in Nat, CanPrepend(p, n)
    PROVE  LET q == Prepended(p, n) IN
           /\ q \in Buffer
           /\ q.data = p.data - n /\ q.len = p.len + n /\ q.cap = p.cap
           /\ q.ip = p.ip /\ q.hdr = p.hdr /\ q.eth = p.eth /\ q.body = p.body
<1>1. PICK d \in Nat, l \in Nat : d = p.data - n /\ l = p.len + n
  BY DEF CanPrepend, Buffer
<1>2. Prepended(p, n) = [p EXCEPT !.data = d, !.len = l]
  BY <1>1 DEF Prepended
<1>3. PICK q : q = [p EXCEPT !.data = d, !.len = l]
  OBVIOUS
<1>4. /\ q \in Buffer
      /\ q.data = d /\ q.len = l /\ q.cap = p.cap
      /\ q.ip = p.ip /\ q.hdr = p.hdr /\ q.eth = p.eth /\ q.body = p.body
  BY <1>3 DEF Buffer
<1>5. Prepended(p, n) = q
  BY <1>2, <1>3
<1>. QED
  BY <1>1, <1>4, <1>5

\* packet_strip, when so much is visible.
LEMMA StrippedFields ==
    ASSUME NEW p \in Buffer, NEW n \in Nat, CanStrip(p, n)
    PROVE  LET q == Stripped(p, n) IN
           /\ q \in Buffer
           /\ q.data = p.data + n /\ q.len = p.len - n /\ q.cap = p.cap
           /\ q.ip = p.ip /\ q.hdr = p.hdr /\ q.eth = p.eth /\ q.body = p.body
<1>1. PICK d \in Nat, l \in Nat : d = p.data + n /\ l = p.len - n
  BY DEF CanStrip, Buffer
<1>2. Stripped(p, n) = [p EXCEPT !.data = d, !.len = l]
  BY <1>1 DEF Stripped
<1>3. PICK q : q = [p EXCEPT !.data = d, !.len = l]
  OBVIOUS
<1>4. /\ q \in Buffer
      /\ q.data = d /\ q.len = l /\ q.cap = p.cap
      /\ q.ip = p.ip /\ q.hdr = p.hdr /\ q.eth = p.eth /\ q.body = p.body
  BY <1>3 DEF Buffer
<1>5. Stripped(p, n) = q
  BY <1>2, <1>3
<1>. QED
  BY <1>1, <1>4, <1>5

\* ip_send's header.
LEMMA WithIpFields ==
    ASSUME NEW p \in Buffer, CanPrepend(p, IpHdrLen), NEW hdr \in Route
    PROVE  LET q == WithIp(p, hdr) IN
           /\ q \in Buffer
           /\ q.data = p.data - 20 /\ q.len = p.len + 20 /\ q.cap = p.cap
           /\ q.ip = p.data - 20 /\ q.hdr = hdr /\ q.body = p.body
<1>1. PICK i \in Int : i = p.data - IpHdrLen
  BY DEF Buffer, IpHdrLen
<1>2. PICK r \in Buffer : r = Prepended(p, IpHdrLen)
  BY PrependedFields DEF IpHdrLen
<1>3. /\ r.data = p.data - 20 /\ r.len = p.len + 20
      /\ r.cap = p.cap /\ r.body = p.body
  BY <1>2, PrependedFields DEF IpHdrLen
<1>4. WithIp(p, hdr) = [r EXCEPT !.ip = i, !.hdr = hdr]
  BY <1>1, <1>2 DEF WithIp
<1>5. hdr \in Header
  BY DEF Header
<1>6. PICK q : q = [r EXCEPT !.ip = i, !.hdr = hdr]
  OBVIOUS
<1>7. /\ q.data = r.data /\ q.len = r.len /\ q.cap = r.cap /\ q.body = r.body
      /\ q.ip = i /\ q.hdr = hdr
  BY <1>6 DEF Buffer
<1>8. q \in Buffer
  BY <1>5, <1>6 DEF Buffer
<1>9. WithIp(p, hdr) = q /\ i = p.data - 20
  BY <1>1, <1>4, <1>6 DEF IpHdrLen
<1>. QED
  BY <1>3, <1>7, <1>8, <1>9

\* ethernet_send's header.
LEMMA WithEthFields ==
    ASSUME NEW p \in Buffer, CanPrepend(p, EthHdrLen),
           NEW src \in Hosts \cup {0}, NEW dst \in Hosts \cup {0}
    PROVE  LET q == WithEth(p, src, dst) IN
           /\ q \in Buffer
           /\ q.data = p.data - 14 /\ q.len = p.len + 14 /\ q.cap = p.cap
           /\ q.ip = p.ip /\ q.hdr = p.hdr /\ q.body = p.body
<1>1. PICK e \in [src : Hosts \cup {0}, dst : Hosts \cup {0}] : e = [src |-> src, dst |-> dst]
  OBVIOUS
<1>2. PICK r \in Buffer : r = Prepended(p, EthHdrLen)
  BY PrependedFields DEF EthHdrLen
<1>3. /\ r.data = p.data - 14 /\ r.len = p.len + 14 /\ r.cap = p.cap
      /\ r.ip = p.ip /\ r.hdr = p.hdr /\ r.body = p.body
  BY <1>2, PrependedFields DEF EthHdrLen
<1>4. WithEth(p, src, dst) = [r EXCEPT !.eth = e]
  BY <1>1, <1>2 DEF WithEth
<1>5. /\ WithEth(p, src, dst) \in Buffer
      /\ WithEth(p, src, dst).data = r.data /\ WithEth(p, src, dst).len = r.len
      /\ WithEth(p, src, dst).cap = r.cap /\ WithEth(p, src, dst).body = r.body
      /\ WithEth(p, src, dst).ip = r.ip /\ WithEth(p, src, dst).hdr = r.hdr
  BY <1>4 DEF Buffer
<1>. QED
  BY <1>3, <1>5

\* Whatever headers a send could still prepend leave a sound packet.
LEMMA TriedSound ==
    ASSUME NEW p, Sound(p), NEW hdr \in Route, NEW mac \in Hosts \cup {0}
    PROVE  /\ Sound(Tried(p, hdr, mac))
           /\ HeadersFit(p, hdr) => Sendworthy(Tried(p, hdr, mac))
<1>1. CASE ~CanPrepend(p, IpHdrLen)
  BY <1>1 DEF Tried, HeadersFit
<1>2. CASE CanPrepend(p, IpHdrLen)
  <2> DEFINE q == WithIp(p, hdr)
  <2>1. /\ q \in Buffer
        /\ q.data = p.data - 20 /\ q.len = p.len + 20 /\ q.cap = p.cap
        /\ q.ip = p.data - 20 /\ q.hdr = hdr
    BY <1>2, WithIpFields DEF Sound
  <2>2. Sound(q)
    BY <1>2, <2>1 DEF Sound, LayoutOf, PktHeadroom, Buffer
  <2>3. CASE ~CanPrepend(q, EthHdrLen)
    BY <1>2, <2>2, <2>3 DEF Tried, HeadersFit
  <2>4. CASE CanPrepend(q, EthHdrLen)
    <3> DEFINE r == WithEth(q, hdr.src, mac)
    <3>1. hdr.src \in Hosts \cup {0}
      BY DEF Route
    <3>2. /\ r \in Buffer
          /\ r.data = q.data - 14 /\ r.len = q.len + 14 /\ r.cap = q.cap
          /\ r.ip = q.ip /\ r.hdr = q.hdr
      BY <2>1, <2>4, <3>1, WithEthFields
    <3>3. Sound(r)
      BY <2>2, <2>1, <3>2 DEF Sound, LayoutOf, PktHeadroom, Buffer
    <3>4. r.len >= EthHdrLen + IpHdrLen /\ r.ip = r.data + EthHdrLen
      BY <2>1, <3>2 DEF EthHdrLen, IpHdrLen, Buffer, Sound
    <3>. QED
      BY <1>2, <2>4, <3>3, <3>4 DEF Tried, Sendworthy
  <2>. QED
    BY <2>3, <2>4
<1>. QED
  BY <1>1, <1>2

\* link_transmit's clone is a sound frame of its own.
LEMMA CloneSound ==
    ASSUME NEW p, Sendworthy(p)
    PROVE  Sendworthy(Clone(p))
<1>1. p \in Buffer /\ Sound(p)
  BY DEF Sendworthy, Sound
<1>2. PICK i \in Int : i = IF p.ip >= p.data THEN p.ip - p.data + PktHeadroom ELSE Nowhere
  BY <1>1 DEF Buffer, PktHeadroom, Nowhere, IpHdrLen
<1>3. PICK q : q = [p EXCEPT !.data = PktHeadroom, !.cap = p.len, !.ip = i]
  OBVIOUS
<1>4. /\ q \in Buffer
      /\ q.data = PktHeadroom /\ q.len = p.len /\ q.cap = p.len
      /\ q.ip = i /\ q.hdr = p.hdr /\ q.body = p.body
  BY <1>1, <1>3 DEF Buffer, PktHeadroom
<1>5. Clone(p) = q
  BY <1>2, <1>3 DEF Clone
<1>6. LayoutOf(q)
  BY <1>1, <1>4 DEF LayoutOf, PktHeadroom, Buffer
<1>7. q.ip # Nowhere => q.hdr \in Route
  BY <1>1, <1>2, <1>4 DEF Sound, Buffer, Nowhere, IpHdrLen
<1>8. q.body.kind = "arp" \/ q.ip = q.data + EthHdrLen
  BY <1>1, <1>2, <1>4 DEF Sendworthy, Buffer, EthHdrLen
<1>9. q.len >= EthHdrLen + IpHdrLen
  BY <1>4 DEF Sendworthy
<1>. QED
  BY <1>4, <1>5, <1>6, <1>7, <1>8, <1>9 DEF Sendworthy, Sound

\* An ARP request, on which both headers fit.
LEMMA ArpFrameSound ==
    ASSUME NEW h \in Hosts
    PROVE  Sendworthy(ArpFrame(h))
<1> DEFINE body == Plain("arp")
<1>0. body \in Body
  BY HostsAssumption DEF Plain, Body, Kinds, Header, NoQuote
<1>1. PICK e : e = [Created(ArpLen, body) EXCEPT !.len = 0]
  OBVIOUS
<1>2. /\ e \in Buffer
      /\ e.data = 64 /\ e.len = 0 /\ e.cap = 28 /\ e.ip = Nowhere /\ e.body = body
  BY <1>0, <1>1 DEF Created, Buffer, Body, PktHeadroom, ArpLen, Nowhere, IpHdrLen, Header, NoQuote
<1>3. PICK q \in Buffer : q = Prepended(e, ArpLen)
  BY <1>2, PrependedFields DEF CanPrepend, ArpLen
<1>4. q.data = 36 /\ q.len = 28 /\ q.cap = 28 /\ q.ip = Nowhere /\ q.body = body
  BY <1>2, <1>3, PrependedFields DEF CanPrepend, ArpLen
<1>5. PICK r \in Buffer : r = WithEth(q, h, Broadcast)
  BY <1>3, <1>4, WithEthFields DEF CanPrepend, EthHdrLen, Broadcast
<1>6. r.data = 22 /\ r.len = 42 /\ r.cap = 28 /\ r.ip = Nowhere /\ r.body = body
  BY <1>3, <1>4, <1>5, WithEthFields DEF CanPrepend, EthHdrLen, Broadcast
<1>7. ArpFrame(h) = r
  BY <1>1, <1>3, <1>5 DEF ArpFrame
<1>8. r.body.kind = "arp"
  BY <1>6 DEF Plain
<1>. QED
  BY <1>5, <1>6, <1>7, <1>8
     DEF Sendworthy, Sound, LayoutOf, PktHeadroom, EthHdrLen, IpHdrLen

\* The strips of Ethernet and IPv4 stay inside what link_transmit cloned, and the
\* IPv4 header is where the handler looks for it.
LEMMA OpenedSound ==
    ASSUME NEW p, Sendworthy(p), p.body.kind # "arp"
    PROVE  LET q == Stripped(Stripped(p, EthHdrLen), IpHdrLen) IN
           Sound(q) /\ IpBehind(q) /\ q.hdr \in Route /\ q.body = p.body
<1>1. p \in Buffer /\ Sound(p) /\ p.len >= 34 /\ p.ip = p.data + 14
  BY DEF Sendworthy, Sound, EthHdrLen, IpHdrLen
<1>2. PICK r \in Buffer : r = Stripped(p, EthHdrLen)
  BY <1>1, StrippedFields DEF CanStrip, EthHdrLen, Buffer
<1>3. /\ r.data = p.data + 14 /\ r.len = p.len - 14 /\ r.cap = p.cap
      /\ r.ip = p.ip /\ r.hdr = p.hdr /\ r.body = p.body
  BY <1>1, <1>2, StrippedFields DEF CanStrip, EthHdrLen, Buffer
<1>4. PICK q \in Buffer : q = Stripped(r, IpHdrLen)
  BY <1>1, <1>2, <1>3, StrippedFields DEF CanStrip, IpHdrLen, Buffer
<1>5. /\ q.data = r.data + 20 /\ q.len = r.len - 20 /\ q.cap = r.cap
      /\ q.ip = r.ip /\ q.hdr = r.hdr /\ q.body = r.body
  BY <1>1, <1>2, <1>3, <1>4, StrippedFields DEF CanStrip, IpHdrLen, Buffer
<1>6. LayoutOf(q)
  BY <1>1, <1>3, <1>5 DEF Sound, LayoutOf, PktHeadroom, Buffer
<1>7. q.hdr \in Route /\ q.ip = q.data - IpHdrLen
  BY <1>1, <1>3, <1>5 DEF Sound, Nowhere, IpHdrLen, Buffer
<1>. QED
  BY <1>2, <1>3, <1>4, <1>5, <1>6, <1>7 DEF Sound, IpBehind

\* udp_receive strips its header from a datagram it has measured.
LEMMA PayloadSound ==
    ASSUME NEW p, Sound(p), p.len >= UdpHdrLen
    PROVE  Sound([Stripped(p, UdpHdrLen) EXCEPT !.body = Plain("raw")])
<1>1. p \in Buffer /\ Plain("raw") \in Body
  BY HostsAssumption DEF Sound, Plain, Body, Kinds, Header, NoQuote
<1>2. PICK r \in Buffer : r = Stripped(p, UdpHdrLen)
  BY <1>1, StrippedFields DEF CanStrip, UdpHdrLen, Buffer
<1>3. /\ r.data = p.data + 8 /\ r.len = p.len - 8 /\ r.cap = p.cap
      /\ r.ip = p.ip /\ r.hdr = p.hdr
  BY <1>1, <1>2, StrippedFields DEF CanStrip, UdpHdrLen, Buffer
<1>4. PICK b \in Body : b = Plain("raw")
  BY <1>1
<1>5. PICK q : q = [r EXCEPT !.body = b]
  OBVIOUS
<1>6. /\ q \in Buffer /\ q.data = r.data /\ q.len = r.len /\ q.cap = r.cap
      /\ q.ip = r.ip /\ q.hdr = r.hdr
  BY <1>5 DEF Buffer, Body
<1>7. Sound(q)
  BY <1>1, <1>3, <1>6 DEF Sound, LayoutOf, PktHeadroom, Buffer
<1>. QED
  BY <1>2, <1>4, <1>5, <1>7

-----------------------------------------------------------------------------
(***************************************************************************)
(* The heap: memory m, the wire w, the pending queues pd and the packets a *)
(* of the application.  The lemmas say which moves of a packet from one    *)
(* owner to another keep it; every handler is made of such moves.          *)
(***************************************************************************)
Heap(m, w, pd, a) ==
    /\ m \in [Ids -> Buffer \cup {Freed}]
    /\ w \in Seq([id : Ids, to : Hosts])
    /\ pd \in [Hosts -> [PSlots -> [id : Ids, hdr : Route] \cup {Empty}]]
    /\ a \subseteq Ids
    /\ \A x \in Ids : m[x] # Freed => Sound(m[x])
    /\ \A k \in DOMAIN w : Sendworthy(m[w[k].id])
    /\ \A x \in a : m[x] # Freed
    /\ \A h \in Hosts, i \in PSlots : pd[h][i] # Empty => m[pd[h][i].id] # Freed
    /\ \A j, k \in DOMAIN w : w[j].id = w[k].id => j = k
    /\ \A k \in DOMAIN w : w[k].id \notin a
    /\ \A h \in Hosts, i \in PSlots : pd[h][i] # Empty => pd[h][i].id \notin a
    /\ \A h \in Hosts, i \in PSlots, k \in DOMAIN w :
          pd[h][i] # Empty => pd[h][i].id # w[k].id
    /\ \A g, h \in Hosts, i, j \in PSlots :
          pd[g][i] # Empty /\ pd[h][j] # Empty /\ pd[g][i].id = pd[h][j].id
              => g = h /\ i = j

\* No owner but the application can reach x.
OffStack(x, w, pd) ==
    /\ \A k \in DOMAIN w : w[k].id # x
    /\ \A h \in Hosts, i \in PSlots : pd[h][i] # Empty => pd[h][i].id # x

\* Nobody can reach x.
Loose(x, w, pd, a) == x \in Ids /\ x \notin a /\ OffStack(x, w, pd)

\* Allocated packets that only the running handler can reach.
Idle(S, m, w, pd, a) == \A x \in S : Loose(x, w, pd, a) /\ m[x] # Freed

\* What the wire and the queues refer to.
LEMMA HeapRefs ==
    ASSUME NEW m, NEW w, NEW pd, NEW a, Heap(m, w, pd, a)
    PROVE  /\ \A k \in DOMAIN w : w[k].id \in Ids /\ w[k].to \in Hosts
           /\ \A h \in Hosts, i \in PSlots :
                 pd[h][i] # Empty => pd[h][i].id \in Ids /\ pd[h][i].hdr \in Route
<1>1. w \in Seq([id : Ids, to : Hosts])
  BY DEF Heap
<1>2. \A k \in DOMAIN w : w[k] \in [id : Ids, to : Hosts]
  BY <1>1, ElementOfSeq, LenProperties
<1>3. pd \in [Hosts -> [PSlots -> [id : Ids, hdr : Route] \cup {Empty}]]
  BY DEF Heap
<1>4. \A h \in Hosts, i \in PSlots : pd[h][i] \in [id : Ids, hdr : Route] \cup {Empty}
  BY <1>3
<1>5. \A h \in Hosts, i \in PSlots :
          pd[h][i] # Empty => pd[h][i] \in [id : Ids, hdr : Route]
  BY <1>4
<1> HIDE DEF PSlots
<1>. QED
  BY <1>2, <1>5

\* Memory that malloc can return is not reachable.
LEMMA FreeIsLoose ==
    ASSUME NEW m, NEW w, NEW pd, NEW a, Heap(m, w, pd, a), NEW x \in Ids, m[x] = Freed
    PROVE  Loose(x, w, pd, a)
<1>1. x \notin a
  BY DEF Heap
<1>2. \A k \in DOMAIN w : w[k].id # x
  BY FreedIsNoBuffer DEF Heap, Sendworthy, Sound
<1>3. \A h \in Hosts, i \in PSlots : pd[h][i] # Empty => pd[h][i].id # x
  BY DEF Heap
<1>. QED
  BY <1>1, <1>2, <1>3 DEF Loose, OffStack

\* packet_free of what nobody else reaches.
LEMMA FreeKeepsHeap ==
    ASSUME NEW m, NEW w, NEW pd, NEW a, Heap(m, w, pd, a),
           NEW S, \A x \in S : Loose(x, w, pd, a)
    PROVE  Heap(FreeAll(m, S), w, pd, a)
<1> DEFINE n == FreeAll(m, S)
<1>1. n \in [Ids -> Buffer \cup {Freed}]
  BY DEF Heap, FreeAll
<1>2. \A x \in Ids : n[x] # Freed => n[x] = m[x]
  BY DEF FreeAll
<1>3. \A x \in Ids : x \notin S => n[x] = m[x]
  BY DEF FreeAll
<1>4. \A k \in DOMAIN w : w[k].id \in Ids /\ w[k].id \notin S
  BY HeapRefs DEF Loose, OffStack
<1>5. \A h \in Hosts, i \in PSlots : pd[h][i] # Empty => pd[h][i].id \in Ids /\ pd[h][i].id \notin S
  BY HeapRefs DEF Loose, OffStack
<1>6. \A x \in a : x \in Ids /\ x \notin S
  BY DEF Heap, Loose
<1> HIDE DEF n
<1>. QED
  BY <1>1, <1>2, <1>3, <1>4, <1>5, <1>6 DEF Heap, n

\* Writing to a packet that is not on the wire.
LEMMA StoreKeepsHeap ==
    ASSUME NEW m, NEW w, NEW pd, NEW a, Heap(m, w, pd, a),
           NEW x \in Ids, OffStack(x, w, pd), NEW p, Sound(p)
    PROVE  Heap([m EXCEPT ![x] = p], w, pd, a)
<1>1. p \in Buffer /\ p # Freed
  BY FreedIsNoBuffer DEF Sound
<1>2. [m EXCEPT ![x] = p] \in [Ids -> Buffer \cup {Freed}]
  BY <1>1 DEF Heap
<1>. QED
  BY <1>1, <1>2 DEF Heap, OffStack

\* Scheduling the arrival of a packet nobody else reaches.
LEMMA SendKeepsHeap ==
    ASSUME NEW m, NEW w, NEW pd, NEW a, Heap(m, w, pd, a),
           NEW c, Loose(c, w, pd, a), Sendworthy(m[c]), NEW h \in Hosts
    PROVE  Heap(m, Append(w, [id |-> c, to |-> h]), pd, a)
<1> DEFINE v == Append(w, [id |-> c, to |-> h])
<1>1. v \in Seq([id : Ids, to : Hosts]) /\ DOMAIN v = DOMAIN w \cup {Len(w) + 1}
  BY DEF Heap, Loose
<1>2. \A k \in DOMAIN w : v[k] = w[k]
  BY DEF Heap
<1>3. v[Len(w) + 1].id = c
  BY DEF Heap
<1>4. \A k \in DOMAIN w : v[k].id # c
  BY <1>2 DEF Loose, OffStack
<1> HIDE DEF v
<1>5. \A j, k \in DOMAIN v : v[j].id = v[k].id => j = k
  BY <1>1, <1>2, <1>3, <1>4 DEF Heap
<1>6. \A k \in DOMAIN v : Sendworthy(m[v[k].id]) /\ v[k].id \notin a
  BY <1>1, <1>2, <1>3 DEF Heap, Loose
<1>7. \A g \in Hosts, i \in PSlots, k \in DOMAIN v : pd[g][i] # Empty => pd[g][i].id # v[k].id
  BY <1>1, <1>2, <1>3 DEF Heap, Loose, OffStack
<1>. QED
  BY <1>1, <1>5, <1>6, <1>7 DEF Heap, v

\* Which leaves the others alone.
LEMMA LooseAppend ==
    ASSUME NEW w, NEW pd, NEW a, w \in Seq([id : Ids, to : Hosts]),
           NEW c \in Ids, NEW h \in Hosts, NEW x, Loose(x, w, pd, a), x # c
    PROVE  Loose(x, Append(w, [id |-> c, to |-> h]), pd, a)
<1> DEFINE v == Append(w, [id |-> c, to |-> h])
<1>1. /\ DOMAIN v = DOMAIN w \cup {Len(w) + 1}
      /\ v[Len(w) + 1].id = c
      /\ \A k \in DOMAIN w : v[k] = w[k]
  OBVIOUS
<1> HIDE DEF v
<1>2. \A k \in DOMAIN v : v[k].id # x
  BY <1>1 DEF Loose, OffStack
<1>3. Loose(x, v, pd, a)
  BY <1>2 DEF Loose, OffStack
<1>. QED
  BY <1>3 DEF v

\* arp_pending_enqueue of such a packet.
LEMMA QueueKeepsHeap ==
    ASSUME NEW m, NEW w, NEW pd, NEW a, Heap(m, w, pd, a),
           NEW x, Loose(x, w, pd, a), m[x] # Freed, NEW hdr \in Route,
           NEW h \in Hosts, NEW i \in PSlots, pd[h][i] = Empty
    PROVE  Heap(m, w, [pd EXCEPT ![h][i] = Entry(x, hdr)], a)
<1> DEFINE q == [pd EXCEPT ![h][i] = Entry(x, hdr)]
<1>1. Entry(x, hdr) \in [id : Ids, hdr : Route] /\ Entry(x, hdr).id = x
  BY DEF Entry, Loose
<1>2. q \in [Hosts -> [PSlots -> [id : Ids, hdr : Route] \cup {Empty}]]
  BY <1>1 DEF Heap
<1>3. \A g \in Hosts, j \in PSlots :
          q[g][j] = IF g = h /\ j = i THEN Entry(x, hdr) ELSE pd[g][j]
  BY DEF Heap
<1> HIDE DEF q
<1>4. ASSUME NEW g \in Hosts, NEW j \in PSlots, q[g][j] # Empty
      PROVE  m[q[g][j].id] # Freed /\ q[g][j].id \notin a
  <2>1. CASE g = h /\ j = i
    BY <1>1, <1>3, <2>1 DEF Loose
  <2>2. CASE ~(g = h /\ j = i)
    <3>1. q[g][j] = pd[g][j]
      BY <1>3, <2>2
    <3>. QED
      BY <1>4, <3>1 DEF Heap
  <2>. QED
    BY <2>1, <2>2
<1>5. \A g \in Hosts, j \in PSlots, k \in DOMAIN w : q[g][j] # Empty => q[g][j].id # w[k].id
  BY <1>1, <1>3 DEF Heap, Loose, OffStack
<1>6. ASSUME NEW f \in Hosts, NEW g \in Hosts, NEW j \in PSlots, NEW k \in PSlots,
             q[f][j] # Empty, q[g][k] # Empty, q[f][j].id = q[g][k].id
      PROVE  f = g /\ j = k
  BY <1>1, <1>3, <1>6 DEF Heap, Loose, OffStack
<1>7. Heap(m, w, q, a)
  BY <1>2, <1>4, <1>5, <1>6 DEF Heap
<1>. QED
  BY <1>7 DEF q

\* Giving such a packet to the application.
LEMMA OwnKeepsHeap ==
    ASSUME NEW m, NEW w, NEW pd, NEW a, Heap(m, w, pd, a),
           NEW x, Loose(x, w, pd, a), m[x] # Freed
    PROVE  Heap(m, w, pd, a \cup {x})
  BY DEF Heap, Loose, OffStack

\* Taking a packet from the application.
LEMMA DisownKeepsHeap ==
    ASSUME NEW m, NEW w, NEW pd, NEW a, Heap(m, w, pd, a), NEW x \in a
    PROVE  Heap(m, w, pd, a \ {x}) /\ Loose(x, w, pd, a \ {x}) /\ m[x] # Freed
  BY DEF Heap, Loose, OffStack

\* The scheduler hands the first frame to its receiver.
LEMMA ArriveKeepsHeap ==
    ASSUME NEW m, NEW w, NEW pd, NEW a, Heap(m, w, pd, a), w # <<>>
    PROVE  /\ Heap(m, Tail(w), pd, a)
           /\ Loose(Head(w).id, Tail(w), pd, a)
           /\ Sendworthy(m[Head(w).id]) /\ m[Head(w).id] # Freed /\ Head(w).to \in Hosts
<1> DEFINE v == Tail(w)
<1> DEFINE F == [id : Ids, to : Hosts]
<1>0. w \in Seq(F)
  BY DEF Heap
<1>1. 1 \in DOMAIN w /\ Head(w) = w[1] /\ Head(w) \in F
  <2> HIDE DEF F
  <2>1. Len(w) \in Nat \ {0} /\ DOMAIN w = 1 .. Len(w)
    BY <1>0, LenProperties, EmptySeq
  <2>2. 1 \in 1 .. Len(w)
    BY <2>1
  <2>3. Head(w) = w[1]
    BY <1>0
  <2>. QED
    BY <1>0, <2>1, <2>2, <2>3, ElementOfSeq
<1>2. v \in Seq(F) /\ \A k \in DOMAIN v : k + 1 \in DOMAIN w /\ v[k] = w[k + 1] /\ k + 1 # 1 /\ k \in Nat
  <2> HIDE DEF F
  <2>. QED
    BY <1>0
<1>3. Sendworthy(m[Head(w).id]) /\ m[Head(w).id] # Freed
  BY <1>1, FreedIsNoBuffer DEF Heap, Sendworthy, Sound
<1>4. Loose(Head(w).id, v, pd, a)
  BY <1>1, <1>2 DEF Heap, Loose, OffStack
<1> HIDE DEF v
<1>5. ASSUME NEW j \in DOMAIN v, NEW k \in DOMAIN v, v[j].id = v[k].id PROVE j = k
  <2>1. j + 1 \in DOMAIN w /\ k + 1 \in DOMAIN w /\ w[j + 1].id = w[k + 1].id
        /\ j \in Nat /\ k \in Nat
    BY <1>2, <1>5
  <2>2. j + 1 = k + 1
    BY <2>1 DEF Heap
  <2>. QED
    BY <2>1, <2>2
<1>6. Heap(m, v, pd, a)
  <2>1. \A k \in DOMAIN v : Sendworthy(m[v[k].id]) /\ v[k].id \notin a
    BY <1>2 DEF Heap
  <2>2. \A g \in Hosts, i \in PSlots, k \in DOMAIN v : pd[g][i] # Empty => pd[g][i].id # v[k].id
    BY <1>2 DEF Heap
  <2>. QED
    BY <1>2, <1>5, <2>1, <2>2 DEF Heap
<1>. QED
  BY <1>1, <1>3, <1>4, <1>6 DEF v

-----------------------------------------------------------------------------
(***************************************************************************)
(* ip_output and the calls made of it, in memory m and with w on the wire. *)
(***************************************************************************)
Request == [proto : Protos, src : Dests, dst : Dests]
Caches  == [Hosts -> [Dests -> Hosts \cup {0}]]

\* The link has two ends.
LEMMA PeerIsHost == \A h \in Hosts : Peer(h) \in Hosts
<1> SUFFICES ASSUME NEW h \in Hosts PROVE Peer(h) \in Hosts
  OBVIOUS
<1>1. \E g \in Hosts : g # h
  BY HostsAssumption
<1>. QED
  BY <1>1, Zenon DEF Peer

LEMMA HostsAreDests == Hosts \subseteq Dests
  BY HostsAssumption

\* What a routable request is given for its addresses.
LEMMA RoutableRoute ==
    ASSUME NEW hdr \in Request, Routable(hdr), cache \in Caches
    PROVE  hdr \in Route /\ hdr.src \in Hosts /\ cache[hdr.src][hdr.dst] \in Hosts \cup {0}
<1>1. hdr.src \in Hosts /\ hdr.dst \in Dests /\ hdr.proto \in Protos
  BY DEF Request, Routable
<1>2. hdr = [proto |-> hdr.proto, src |-> hdr.src, dst |-> hdr.dst]
  BY DEF Request
<1>3. hdr \in Route
  BY <1>1, <1>2 DEF Route
<1>4. cache[hdr.src] \in [Dests -> Hosts \cup {0}]
  BY <1>1 DEF Caches
<1>. QED
  BY <1>1, <1>3, <1>4

\* ip_output that gives up.
LEMMA FailedHeap ==
    ASSUME NEW m, NEW w, NEW a, Heap(m, w, pending, a),
           NEW done, NEW spare, \A x \in done \cup spare : Loose(x, w, pending, a),
           Failed(m, w, done, spare)
    PROVE  Heap(mem', wire', pending', a)
  BY FreeKeepsHeap DEF Failed

\* arp_send_request: one packet, and its clone on the wire.
LEMMA AskedHeap ==
    ASSUME NEW m, NEW w, NEW pd, NEW a, Heap(m, w, pd, a),
           NEW h \in Hosts, NEW r \in Ids, NEW c \in Ids,
           m[r] = Freed, m[c] = Freed, r # c
    PROVE  /\ Heap(Asked(m, h, r, c), Append(w, Frame(c, h)), pd, a)
           /\ \A x : Loose(x, w, pd, a) /\ m[x] # Freed =>
                 /\ Loose(x, Append(w, Frame(c, h)), pd, a)
                 /\ Asked(m, h, r, c)[x] = m[x]
<1>1. Loose(r, w, pd, a) /\ Loose(c, w, pd, a)
  BY FreeIsLoose
<1>2. Sendworthy(ArpFrame(h)) /\ Sendworthy(Clone(ArpFrame(h)))
  BY ArpFrameSound, CloneSound
<1>3. PICK f : f = ArpFrame(h)
  OBVIOUS
<1>4. PICK g : g = Clone(ArpFrame(h))
  OBVIOUS
<1>5. PICK n : n = [m EXCEPT ![r] = f]
  OBVIOUS
<1>6. Heap(n, w, pd, a)
  BY <1>1, <1>2, <1>3, <1>5, StoreKeepsHeap DEF Loose, Sendworthy
<1>7. PICK o : o = [n EXCEPT ![c] = g]
  OBVIOUS
<1>8. Heap(o, w, pd, a)
  BY <1>1, <1>2, <1>4, <1>6, <1>7, StoreKeepsHeap DEF Loose, Sendworthy
<1>9. o = Asked(m, h, r, c)
  BY <1>3, <1>4, <1>5, <1>7 DEF Asked
<1>10. m \in [Ids -> Buffer \cup {Freed}]
  BY DEF Heap
<1>11. o[c] = g /\ \A x \in Ids : x # r /\ x # c => o[x] = m[x]
  BY <1>5, <1>7, <1>10
<1>12. Heap(o, Append(w, [id |-> c, to |-> Peer(h)]), pd, a)
  BY <1>1, <1>2, <1>4, <1>8, <1>11, PeerIsHost, SendKeepsHeap
<1>13. Heap(o, Append(w, Frame(c, h)), pd, a)
  BY <1>12 DEF Frame
<1>14. ASSUME NEW x, Loose(x, w, pd, a), m[x] # Freed
       PROVE  Loose(x, Append(w, Frame(c, h)), pd, a) /\ o[x] = m[x]
  <2>1. x # c /\ x # r /\ x \in Ids
    BY <1>14 DEF Loose
  <2>2. Loose(x, Append(w, [id |-> c, to |-> Peer(h)]), pd, a)
    BY <1>14, <2>1, PeerIsHost, LooseAppend DEF Heap
  <2>. QED
    BY <1>11, <2>1, <2>2 DEF Frame
<1>. QED
  BY <1>9, <1>13, <1>14

\* The packet stays with the caller, with the headers that fit.
LEMMA KeepsHeap ==
    ASSUME NEW m, NEW w, NEW a, Heap(m, w, pending, a), cache \in Caches,
           NEW x \in Ids, m[x] # Freed, OffStack(x, w, pending), NEW hdr \in Request,
           NEW done, NEW spare, Idle(done \cup spare, m, w, pending, a),
           Keeps(m, w, x, hdr, done, spare)
    PROVE  Heap(mem', wire', pending', a)
<1>0. \A y \in done \cup spare : Loose(y, w, pending, a) /\ m[y] # Freed
  BY DEF Idle
<1>1. CASE OutputRefused(m, w, hdr, done, spare)
  BY <1>0, <1>1, FailedHeap DEF OutputRefused
<1>2. CASE OutputFails(m, w, x, hdr, done, spare)
  <2>1. hdr \in Route /\ cache[hdr.src][hdr.dst] \in Hosts \cup {0}
    BY <1>2, RoutableRoute DEF OutputFails
  <2>2. PICK p : p = Tried(m[x], hdr, cache[hdr.src][hdr.dst])
    OBVIOUS
  <2>3. Sound(p)
    BY <2>1, <2>2, TriedSound DEF Heap
  <2>4. PICK n : n = [m EXCEPT ![x] = p]
    OBVIOUS
  <2>5. Heap(n, w, pending, a)
    BY <2>3, <2>4, StoreKeepsHeap
  <2>6. Failed([m EXCEPT ![x] = Tried(m[x], hdr, cache[hdr.src][hdr.dst])], w, done, spare)
    BY <1>2 DEF OutputFails
  <2>7. Failed(n, w, done, spare)
    BY <2>2, <2>4, <2>6
  <2>. QED
    BY <1>0, <2>5, <2>7, FailedHeap
<1>3. CASE OutputCannotAsk(m, w, hdr, done, spare)
  <2>1. CASE Failed(m, w, done, spare)
    BY <1>0, <2>1, FailedHeap
  <2>2. ASSUME NEW r \in Ids, Lowest(FreeIn(m), r),
               Failed([m EXCEPT ![r] = ArpFrame(hdr.src)], w, done, spare)
        PROVE  Heap(mem', wire', pending', a)
    <3>1. m[r] = Freed /\ OffStack(r, w, pending)
      BY <2>2, FreeIsLoose DEF Lowest, FreeIn, Loose
    <3>2. Sound(ArpFrame(hdr.src))
      BY <1>3, RoutableRoute, ArpFrameSound DEF OutputCannotAsk, Sendworthy
    <3>3. Heap([m EXCEPT ![r] = ArpFrame(hdr.src)], w, pending, a)
      BY <3>1, <3>2, StoreKeepsHeap
    <3>. QED
      BY <1>0, <2>2, <3>3, FailedHeap
  <2>. QED
    BY <1>3, <2>1, <2>2 DEF OutputCannotAsk
<1>4. CASE OutputQueueFull(m, w, hdr, done, spare)
  <2>1. PICK r \in Ids, c \in Ids :
          /\ Asks(m, hdr, r, c)
          /\ Failed(Asked(m, hdr.src, r, c), Append(w, Frame(c, hdr.src)), done, spare)
    BY <1>4 DEF OutputQueueFull
  <2>2. m[r] = Freed /\ m[c] = Freed /\ r # c /\ hdr.src \in Hosts
    BY <2>1, RoutableRoute DEF Asks, Lowest, FreeIn
  <2>3. Heap(Asked(m, hdr.src, r, c), Append(w, Frame(c, hdr.src)), pending, a)
    BY <2>2, AskedHeap
  <2>4. \A y \in done \cup spare : Loose(y, Append(w, Frame(c, hdr.src)), pending, a)
    BY <1>0, <2>2, AskedHeap
  <2>. QED
    BY <2>1, <2>3, <2>4, FailedHeap
<1>. QED
  BY <1>1, <1>2, <1>3, <1>4 DEF Keeps

\* The packet leaves, or waits; its caller has no more to do with it.
LEMMA TakesHeap ==
    ASSUME NEW m, NEW w, NEW a, Heap(m, w, pending, a), cache \in Caches,
           NEW x, Loose(x, w, pending, a), m[x] # Freed, NEW hdr \in Request,
           NEW done, Idle(done, m, w, pending, a), x \notin done,
           Takes(m, w, x, hdr, done)
    PROVE  Heap(mem', wire', pending', a)
<1>0. /\ \A y \in done : Loose(y, w, pending, a) /\ m[y] # Freed
      /\ x \in Ids /\ m \in [Ids -> Buffer \cup {Freed}]
  BY DEF Idle, Loose, Heap
<1>1. CASE OutputSends(m, w, x, hdr, done)
  <2>1. hdr \in Route /\ hdr.src \in Hosts /\ cache[hdr.src][hdr.dst] \in Hosts \cup {0}
    BY <1>1, RoutableRoute DEF OutputSends
  <2>2. PICK p : p = Tried(m[x], hdr, cache[hdr.src][hdr.dst])
    OBVIOUS
  <2>3. Sendworthy(p) /\ Sendworthy(Clone(p)) /\ Sound(p) /\ Sound(Clone(p))
    <3>1. Sound(m[x]) /\ HeadersFit(m[x], hdr)
      BY <1>0, <1>1 DEF Heap, OutputSends
    <3>2. Sendworthy(p)
      BY <2>1, <2>2, <3>1, TriedSound
    <3>3. Sendworthy(Clone(p))
      BY <3>2, CloneSound
    <3>. QED
      BY <3>2, <3>3 DEF Sendworthy
  <2>4. PICK q : q = Clone(p)
    OBVIOUS
  <2>5. PICK c \in Ids :
          /\ Lowest(FreeIn(m), c)
          /\ mem' = FreeAll([m EXCEPT ![x] = p, ![c] = q], done)
          /\ wire' = Append(w, Frame(c, hdr.src))
    BY <1>1, <2>2, <2>4 DEF OutputSends
  <2>6. m[c] = Freed /\ Loose(c, w, pending, a)
    BY <2>5, FreeIsLoose DEF Lowest, FreeIn
  <2>7. PICK n : n = [m EXCEPT ![x] = p]
    OBVIOUS
  <2>8. Heap(n, w, pending, a)
    BY <1>0, <2>3, <2>7, StoreKeepsHeap DEF Loose
  <2>9. PICK o : o = [n EXCEPT ![c] = q]
    OBVIOUS
  <2>10. Heap(o, w, pending, a)
    BY <2>3, <2>4, <2>6, <2>8, <2>9, StoreKeepsHeap DEF Loose
  <2>11. o[c] = q
    BY <1>0, <2>7, <2>9
  <2>12. Heap(o, Append(w, [id |-> c, to |-> Peer(hdr.src)]), pending, a)
    BY <2>1, <2>3, <2>4, <2>6, <2>10, <2>11, PeerIsHost, SendKeepsHeap
  <2>13. \A y \in done : Loose(y, Append(w, [id |-> c, to |-> Peer(hdr.src)]), pending, a)
    BY <1>0, <2>1, <2>6, PeerIsHost, LooseAppend DEF Heap
  <2>14. mem' = FreeAll(o, done) /\ wire' = Append(w, [id |-> c, to |-> Peer(hdr.src)])
    BY <2>5, <2>7, <2>9 DEF Frame
  <2>15. pending' = pending
    BY <1>1 DEF OutputSends
  <2>. QED
    BY <2>12, <2>13, <2>14, <2>15, FreeKeepsHeap
<1>2. CASE OutputWaits(m, w, x, hdr, done)
  <2>1. PICK r \in Ids, c \in Ids, i \in PSlots :
          /\ Asks(m, hdr, r, c) /\ Lowest(FreeSlots(hdr.src), i)
          /\ pending' = [pending EXCEPT ![hdr.src][i] = Entry(x, hdr)]
          /\ mem' = FreeAll(Asked(m, hdr.src, r, c), done)
          /\ wire' = Append(w, Frame(c, hdr.src))
    BY <1>2 DEF OutputWaits
  <2>2. m[r] = Freed /\ m[c] = Freed /\ r # c /\ hdr.src \in Hosts /\ hdr \in Route
    BY <2>1, RoutableRoute DEF Asks, Lowest, FreeIn
  <2>3. pending[hdr.src][i] = Empty
    BY <2>1 DEF Lowest, FreeSlots
  <2>4. PICK n : n = Asked(m, hdr.src, r, c)
    OBVIOUS
  <2>5. Heap(n, wire', pending, a)
    BY <2>1, <2>2, <2>4, AskedHeap
  <2>6. \A y : Loose(y, w, pending, a) /\ m[y] # Freed => Loose(y, wire', pending, a) /\ n[y] = m[y]
    BY <2>1, <2>2, <2>4, AskedHeap
  <2>7. Heap(n, wire', pending', a)
    BY <1>0, <2>1, <2>2, <2>3, <2>5, <2>6, QueueKeepsHeap
  <2>8. \A y \in done : Loose(y, wire', pending', a)
    <3>1. \A y \in done : Loose(y, wire', pending, a) /\ y # x
      BY <1>0, <2>6
    <3>2. \A g \in Hosts, j \in PSlots :
             pending'[g][j] = IF g = hdr.src /\ j = i THEN Entry(x, hdr) ELSE pending[g][j]
      BY <2>1, <2>2 DEF Heap
    <3>3. Entry(x, hdr).id = x
      BY DEF Entry
    <3>. QED
      BY <3>1, <3>2, <3>3 DEF Loose, OffStack
  <2>9. mem' = FreeAll(n, done)
    BY <2>1, <2>4
  <2>. QED
    BY <2>7, <2>8, <2>9, FreeKeepsHeap
<1>. QED
  BY <1>1, <1>2 DEF Takes

\* A packet that is made, sent, and freed by the caller when that fails.
LEMMA SendHeap ==
    ASSUME NEW m, NEW w, NEW a, Heap(m, w, pending, a), cache \in Caches,
           NEW len \in Nat, NEW body \in Body, NEW hdr \in Request,
           NEW done, Idle(done, m, w, pending, a),
           Send(m, w, len, body, hdr, done)
    PROVE  Heap(mem', wire', pending', a)
<1>1. CASE Failed(m, w, done, {})
  BY <1>1, FailedHeap DEF Idle
<1>2. ASSUME NEW x \in Ids, Lowest(FreeIn(m), x),
             LET made == [m EXCEPT ![x] = Created(len, body)] IN
             Keeps(made, w, x, hdr, done, {x}) \/ Takes(made, w, x, hdr, done)
      PROVE  Heap(mem', wire', pending', a)
  <2>1. m[x] = Freed /\ Loose(x, w, pending, a)
    BY <1>2, FreeIsLoose DEF Lowest, FreeIn
  <2>2. PICK n : n = [m EXCEPT ![x] = Created(len, body)]
    OBVIOUS
  <2>3. Sound(Created(len, body)) /\ Created(len, body) # Freed
    BY CreatedSound, FreedIsNoBuffer DEF Sound
  <2>4. Heap(n, w, pending, a)
    BY <2>1, <2>2, <2>3, StoreKeepsHeap DEF Loose
  <2>5. n[x] # Freed /\ \A y \in Ids : y # x => n[y] = m[y]
    BY <2>2, <2>3 DEF Heap
  <2>6. x \notin done /\ Idle(done, n, w, pending, a) /\ Idle(done \cup {x}, n, w, pending, a)
    BY <2>1, <2>5 DEF Idle, Loose
  <2>7. Keeps(n, w, x, hdr, done, {x}) \/ Takes(n, w, x, hdr, done)
    BY <1>2, <2>2
  <2>8. OffStack(x, w, pending)
    BY <2>1 DEF Loose
  <2>9. CASE Keeps(n, w, x, hdr, done, {x})
    BY <2>4, <2>5, <2>6, <2>8, <2>9, KeepsHeap
  <2>10. CASE Takes(n, w, x, hdr, done)
    BY <2>1, <2>4, <2>5, <2>6, <2>10, TakesHeap
  <2>. QED
    BY <2>7, <2>9, <2>10
<1>. QED
  BY <1>1, <1>2 DEF Send

-----------------------------------------------------------------------------
(***************************************************************************)
(* arp_pending_flush.                                                      *)
(***************************************************************************)
Distinct(sent, c) == \A i, j \in sent : c[i] = c[j] => i = j

\* Of the owners, only dropped slots have had the memory of the clones.
Fresh(h, adr, sent, c) ==
    \A i \in sent :
        /\ c[i] \notin app
        /\ \A k \in DOMAIN wire : wire[k].id # c[i]
        /\ \A g \in Hosts, j \in PSlots :
              pending[g][j] # Empty /\ ~(g = h /\ j \in Waiting(h, adr) \ sent)
                 => pending[g][j].id # c[i]

\* What arp_pending_flush leaves in memory.
After(n, h, adr, sent, c) ==
    /\ n \in [Ids -> Buffer \cup {Freed}]
    /\ \A x \in Ids : n[x] # Freed => Sound(n[x])
    /\ \A i \in sent : Sendworthy(n[c[i]])
    /\ \A x \in Ids :
          /\ \A i \in sent : c[i] # x
          /\ \A i \in Waiting(h, adr) : pending[h][i].id # x
          => n[x] = mem[x]

\* The frames it schedules, after those on the wire.
Scheduled(v, w, sent, c) ==
    /\ v \in Seq([id : Ids, to : Hosts])
    /\ \A k \in DOMAIN v :
          \/ k \in DOMAIN w /\ v[k] = w[k]
          \/ k \notin DOMAIN w /\ \E i \in sent : v[k].id = c[i]
    /\ \A j, k \in DOMAIN v \ DOMAIN w : v[j].id = v[k].id => j = k

\* The clones are different, and made in memory that nobody reaches: free
\* before, or freed by a slot whose packet was dropped.
LEMMA ClonesFresh ==
    ASSUME Heap(mem, wire, pending, app), NEW h \in Hosts, NEW adr \in Dests,
           NEW sent \in SUBSET Sendable(h, adr), NEW c \in [sent -> Ids],
           ClonedTo(h, adr, sent, c)
    PROVE  Distinct(sent, c) /\ Fresh(h, adr, sent, c)
<1>0. PICK dropped : dropped = Waiting(h, adr) \ sent
  OBVIOUS
<1>1. sent \subseteq Waiting(h, adr) /\ Waiting(h, adr) \subseteq PSlots
  BY DEF Sendable, Waiting
<1>2. \A i \in Waiting(h, adr) : pending[h][i] # Empty
  BY DEF Waiting
<1>3. \A i \in sent : c[i] \in Avail(h, dropped, sent, c, i)
  BY <1>0 DEF ClonedTo, Lowest
<1>4. ASSUME NEW i \in sent, NEW j \in sent, i < j PROVE c[i] # c[j]
  BY <1>3, <1>4 DEF Avail
<1>5. \A i, j \in sent : i \in Int /\ j \in Int
  BY <1>1 DEF PSlots
<1>6. \A i, j \in sent : c[i] = c[j] => i = j
  BY <1>4, <1>5
<1>7. ASSUME NEW i \in sent
      PROVE  /\ c[i] \notin app
             /\ \A k \in DOMAIN wire : wire[k].id # c[i]
             /\ \A g \in Hosts, j \in PSlots :
                   pending[g][j] # Empty /\ ~(g = h /\ j \in dropped)
                      => pending[g][j].id # c[i]
  <2>1. c[i] \in FreeIn(mem) \/ \E j \in dropped : c[i] = pending[h][j].id
    BY <1>3 DEF Avail
  <2>2. CASE c[i] \in FreeIn(mem)
    <3>1. c[i] \in Ids /\ mem[c[i]] = Freed
      BY <2>2 DEF FreeIn
    <3>2. Loose(c[i], wire, pending, app)
      BY <3>1, FreeIsLoose
    <3>. QED
      BY <3>2 DEF Loose, OffStack
  <2>3. ASSUME NEW j \in dropped, c[i] = pending[h][j].id
        PROVE  /\ c[i] \notin app
               /\ \A k \in DOMAIN wire : wire[k].id # c[i]
               /\ \A g \in Hosts, l \in PSlots :
                     pending[g][l] # Empty /\ ~(g = h /\ l \in dropped)
                        => pending[g][l].id # c[i]
    <3>1. j \in PSlots /\ pending[h][j] # Empty
      BY <1>0, <1>1, <1>2
    <3>. QED
      BY <2>3, <3>1 DEF Heap
  <2>. QED
    BY <2>1, <2>2, <2>3
<1>. QED
  BY <1>0, <1>6, <1>7 DEF Distinct, Fresh

\* Clones of what could be sent, and no other change but to what has waited.
LEMMA FlushedMemory ==
    ASSUME Heap(mem, wire, pending, app), NEW h \in Hosts, NEW adr \in Dests,
           NEW mac \in Hosts,
           NEW sent \in SUBSET Sendable(h, adr), NEW c \in [sent -> Ids],
           Distinct(sent, c), NEW n, n = Flushed(h, adr, mac, sent, c)
    PROVE  After(n, h, adr, sent, c)
<1>0. PICK dropped : dropped = Waiting(h, adr) \ sent
  OBVIOUS
<1>1. ASSUME NEW i \in sent
      PROVE  Sendworthy(Framed(h, i, mac)) /\ Sendworthy(Clone(Framed(h, i, mac)))
  <2>1. i \in PSlots /\ pending[h][i] # Empty
        /\ HeadersFit(mem[pending[h][i].id], pending[h][i].hdr)
    BY DEF Sendable, Waiting
  <2>2. pending[h][i].id \in Ids /\ pending[h][i].hdr \in Route
    BY <2>1, HeapRefs
  <2>3. Sound(mem[pending[h][i].id])
    BY <2>1, <2>2 DEF Heap
  <2>4. Sendworthy(Framed(h, i, mac))
    BY <2>1, <2>2, <2>3, TriedSound DEF Framed
  <2>. QED
    BY <2>4, CloneSound
<1>2. ASSUME NEW x \in Ids, NEW i \in sent, c[i] = x
      PROVE  n[x] = Clone(Framed(h, i, mac))
  <2>1. (CHOOSE j \in sent : c[j] = x) = i
    BY <1>2 DEF Distinct
  <2>. QED
    BY <1>2, <2>1 DEF Flushed
<1>3. ASSUME NEW x \in Ids, \A i \in sent : c[i] # x, NEW i \in sent, pending[h][i].id = x
      PROVE  Sendworthy(n[x])
  <2>1. PICK j \in sent : j = CHOOSE k \in sent : pending[h][k].id = x
    BY <1>3
  <2>2. n[x] = Framed(h, j, mac)
    BY <1>3, <2>1 DEF Flushed
  <2>. QED
    BY <1>1, <2>2
<1>4. ASSUME NEW x \in Ids, \A i \in sent : c[i] # x, \A i \in sent : pending[h][i].id # x
      PROVE  n[x] = mem[x] \/ (n[x] = Freed /\ \E i \in dropped : pending[h][i].id = x)
  BY <1>0, <1>4 DEF Flushed
<1>5. \A x \in Ids : Sendworthy(n[x]) \/ n[x] = mem[x] \/ n[x] = Freed
  BY <1>1, <1>2, <1>3, <1>4
<1>6. \A x \in Ids : n[x] \in Buffer \cup {Freed} /\ (n[x] # Freed => Sound(n[x]))
  BY <1>5 DEF Heap, Sendworthy, Sound
<1>7. n \in [Ids -> Buffer \cup {Freed}]
  <2>1. n = [x \in Ids |-> n[x]]
    BY DEF Flushed
  <2>. QED
    BY <1>6, <2>1
<1>8. \A i \in sent : Sendworthy(n[c[i]])
  BY <1>1, <1>2
<1>9. sent \subseteq Waiting(h, adr)
  BY DEF Sendable
<1>. QED
  BY <1>0, <1>4, <1>6, <1>7, <1>8, <1>9 DEF After

\* One frame for each clone.
LEMMA BatchScheduled ==
    ASSUME NEW w \in Seq([id : Ids, to : Hosts]), NEW h \in Hosts,
           NEW sent, NEW c \in [sent -> Ids], NEW N \in Nat, NEW q \in [1 .. N -> sent],
           Distinct(1 .. N, q), Distinct(sent, c),
           NEW v, v = w \o [k \in 1 .. N |-> Frame(c[q[k]], h)]
    PROVE  Scheduled(v, w, sent, c)
<1> DEFINE F == [id : Ids, to : Hosts]
<1>1. PICK b : b = [k \in 1 .. N |-> Frame(c[q[k]], h)]
  OBVIOUS
<1>2. \A k \in 1 .. N : b[k] \in F /\ b[k].id = c[q[k]]
  BY <1>1, PeerIsHost DEF Frame
<1>3. b \in [1 .. N -> F]
  BY <1>1, <1>2
<1> HIDE DEF F
<1>4. b \in Seq(F) /\ Len(b) = N
  BY <1>3
<1>5. w \in Seq(F) /\ v = w \o b
  BY <1>1 DEF F
<1>6. /\ v \in Seq(F) /\ Len(v) = Len(w) + Len(b)
      /\ \A k \in 1 .. Len(w) + Len(b) :
            v[k] = IF k <= Len(w) THEN w[k] ELSE b[k - Len(w)]
  <2>0. w \in Seq(F) /\ b \in Seq(F)
    BY <1>4, <1>5
  <2>1. w \o b \in Seq(F)
    BY <2>0, ConcatProperties
  <2>2. Len(w \o b) = Len(w) + Len(b)
    BY <2>0, ConcatProperties
  <2>3. \A k \in 1 .. Len(w) + Len(b) :
           (w \o b)[k] = IF k <= Len(w) THEN w[k] ELSE b[k - Len(w)]
    BY <2>0, ConcatProperties
  <2>. QED
    BY <1>5, <2>1, <2>2, <2>3
<1>7. Len(w) \in Nat /\ DOMAIN w = 1 .. Len(w) /\ DOMAIN v = 1 .. Len(w) + N
  BY <1>4, <1>5, <1>6, LenProperties
<1>8. \A k \in DOMAIN w : k \in DOMAIN v /\ v[k] = w[k]
  BY <1>4, <1>6, <1>7
<1>9. ASSUME NEW k \in DOMAIN v \ DOMAIN w
      PROVE  k - Len(w) \in 1 .. N /\ v[k].id = c[q[k - Len(w)]]
  <2>1. k \in 1 .. Len(w) + N /\ ~(k <= Len(w)) /\ k - Len(w) \in 1 .. N
    BY <1>7
  <2>2. v[k] = b[k - Len(w)]
    BY <1>4, <1>6, <2>1
  <2>. QED
    BY <1>2, <2>1, <2>2
<1>10. \A j, k \in DOMAIN v \ DOMAIN w : v[j].id = v[k].id => j = k
  <2> SUFFICES ASSUME NEW j \in DOMAIN v \ DOMAIN w, NEW k \in DOMAIN v \ DOMAIN w,
                      v[j].id = v[k].id
               PROVE  j = k
    OBVIOUS
  <2>1. /\ j - Len(w) \in 1 .. N /\ v[j].id = c[q[j - Len(w)]]
        /\ k - Len(w) \in 1 .. N /\ v[k].id = c[q[k - Len(w)]]
    BY <1>9
  <2>2. j - Len(w) = k - Len(w)
    BY <2>1 DEF Distinct
  <2>. QED
    BY <1>7, <2>2
<1>11. \A k \in DOMAIN v \ DOMAIN w : \E i \in sent : v[k].id = c[i]
  BY <1>9
<1>. QED
  BY <1>6, <1>8, <1>10, <1>11 DEF F, Scheduled

\* Packets T change or are freed, packets K appear on the wire.
Merged(m, w, pd, a, K, T, n, v, e) ==
    /\ n \in [Ids -> Buffer \cup {Freed}]
    /\ \A x \in Ids : n[x] # Freed => Sound(n[x])
    /\ \A x \in K : Sendworthy(n[x]) /\ x \notin a
    /\ \A x \in T : x \notin a
    /\ \A k \in DOMAIN w : w[k].id \notin K /\ w[k].id \notin T
    /\ \A x \in Ids : x \notin K /\ x \notin T => n[x] = m[x]
    /\ e \in [Hosts -> [PSlots -> [id : Ids, hdr : Route] \cup {Empty}]]
    /\ \A g \in Hosts, j \in PSlots : e[g][j] # Empty =>
          e[g][j] = pd[g][j] /\ pd[g][j].id \notin K /\ pd[g][j].id \notin T
    /\ v \in Seq([id : Ids, to : Hosts])
    /\ \A k \in DOMAIN v :
          \/ k \in DOMAIN w /\ v[k] = w[k]
          \/ k \notin DOMAIN w /\ v[k].id \in K
    /\ \A j, k \in DOMAIN v \ DOMAIN w : v[j].id = v[k].id => j = k

\* Such a change keeps the heap.
LEMMA MergeKeepsHeap ==
    ASSUME NEW m, NEW w, NEW pd, NEW a, Heap(m, w, pd, a),
           NEW K, NEW T, NEW n, NEW v, NEW e, Merged(m, w, pd, a, K, T, n, v, e)
    PROVE  Heap(n, v, e, a)
<1> USE DEF Merged
<1>1. \A x \in a : n[x] # Freed
  BY DEF Heap
<1>2. \A h \in Hosts, i \in PSlots : e[h][i] # Empty =>
         e[h][i].id \in Ids /\ n[e[h][i].id] = m[e[h][i].id]
  BY HeapRefs
<1>3. \A h \in Hosts, i \in PSlots : e[h][i] # Empty => n[e[h][i].id] # Freed
  BY <1>2 DEF Heap
<1>4. \A k \in DOMAIN w : n[w[k].id] = m[w[k].id]
  BY HeapRefs
<1>5. \A k \in DOMAIN v : Sendworthy(n[v[k].id]) /\ v[k].id \notin a
  BY <1>4 DEF Heap
<1>6. \A j, k \in DOMAIN v : v[j].id = v[k].id => j = k
  <2> SUFFICES ASSUME NEW j \in DOMAIN v, NEW k \in DOMAIN v, v[j].id = v[k].id
               PROVE  j = k
    OBVIOUS
  <2>1. CASE j \in DOMAIN w /\ k \in DOMAIN w
    BY <2>1 DEF Heap
  <2>2. CASE ~(j \in DOMAIN w /\ k \in DOMAIN w)
    BY <2>2
  <2>. QED
    BY <2>1, <2>2
<1>7. \A h \in Hosts, i \in PSlots, k \in DOMAIN v : e[h][i] # Empty => e[h][i].id # v[k].id
  BY DEF Heap
<1>8. \A h \in Hosts, i \in PSlots : e[h][i] # Empty => e[h][i].id \notin a
  BY DEF Heap
<1>9. \A g, h \in Hosts, i, j \in PSlots :
          e[g][i] # Empty /\ e[h][j] # Empty /\ e[g][i].id = e[h][j].id => g = h /\ i = j
  BY DEF Heap
<1>. QED
  BY <1>1, <1>3, <1>5, <1>6, <1>7, <1>8, <1>9 DEF Heap

\* The whole of arp_pending_flush.
LEMMA FlushHeap ==
    ASSUME Heap(mem, wire, pending, app), NEW h \in Hosts, NEW adr \in Dests,
           NEW mac \in Hosts, Flush(h, adr, mac)
    PROVE  Heap(mem', wire', pending', app)
<1>1. PICK sent \in SUBSET Sendable(h, adr) :
        \E c \in [sent -> Ids], q \in [1 .. Cardinality(sent) -> sent] :
        /\ ClonedTo(h, adr, sent, c) /\ Increasing(q)
        /\ mem' = Flushed(h, adr, mac, sent, c)
        /\ wire' = wire \o [k \in 1 .. Cardinality(sent) |-> Frame(c[q[k]], h)]
        /\ pending' = [pending EXCEPT ![h] =
              [i \in PSlots |-> IF i \in Waiting(h, adr) THEN Empty ELSE pending[h][i]]]
  BY DEF Flush
<1>2. sent \subseteq Waiting(h, adr) /\ Waiting(h, adr) \subseteq PSlots
      /\ \A i \in Waiting(h, adr) : pending[h][i] # Empty
  BY DEF Sendable, Waiting
<1>3. PICK N \in Nat : N = Cardinality(sent)
  <2>0. 1 \in Int /\ MaxPending \in Int
    BY HostsAssumption
  <2>1. IsFiniteSet(PSlots)
    BY <2>0, FS_Interval DEF PSlots
  <2>2. IsFiniteSet(sent)
    BY <1>2, <2>1, FS_Subset
  <2>. QED
    BY <2>2, FS_CardinalityType
<1>4. PICK c \in [sent -> Ids], q \in [1 .. N -> sent] :
        /\ ClonedTo(h, adr, sent, c) /\ Increasing(q)
        /\ mem' = Flushed(h, adr, mac, sent, c)
        /\ wire' = wire \o [k \in 1 .. N |-> Frame(c[q[k]], h)]
        /\ pending' = [pending EXCEPT ![h] =
              [i \in PSlots |-> IF i \in Waiting(h, adr) THEN Empty ELSE pending[h][i]]]
  BY <1>1, <1>3
<1>a. /\ ClonedTo(h, adr, sent, c)
      /\ mem' = Flushed(h, adr, mac, sent, c)
      /\ wire' = wire \o [k \in 1 .. N |-> Frame(c[q[k]], h)]
  BY <1>4
<1>5. Distinct(sent, c) /\ Fresh(h, adr, sent, c)
  BY <1>a, ClonesFresh
<1>6. After(mem', h, adr, sent, c)
  BY <1>a, <1>5, FlushedMemory
<1>7. Distinct(1 .. N, q)
  <2>1. \A i, j \in 1 .. N : i < j => q[i] < q[j]
    BY <1>4 DEF Increasing
  <2>2. \A i \in 1 .. N : q[i] \in Int
    BY <1>2 DEF PSlots
  <2>. QED
    BY <2>1, <2>2 DEF Distinct
<1>8. Scheduled(wire', wire, sent, c)
  <2>1. wire \in Seq([id : Ids, to : Hosts])
    BY DEF Heap
  <2>. QED
    BY <1>a, <1>5, <1>7, <2>1, BatchScheduled
<1>9. \A g \in Hosts, j \in PSlots :
          pending'[g][j] = IF g = h /\ j \in Waiting(h, adr) THEN Empty ELSE pending[g][j]
  BY <1>4 DEF Heap
<1>10. pending' \in [Hosts -> [PSlots -> [id : Ids, hdr : Route] \cup {Empty}]]
  BY <1>4 DEF Heap
<1>11. PICK K : K = {c[i] : i \in sent}
  OBVIOUS
<1>12. PICK T : T = {pending[h][i].id : i \in Waiting(h, adr)}
  OBVIOUS
<1>13. \A x \in Ids : x \notin K /\ x \notin T => mem'[x] = mem[x]
  BY <1>6, <1>11, <1>12 DEF After
<1>14. \A g \in Hosts, j \in PSlots : pending'[g][j] # Empty =>
          /\ pending'[g][j] = pending[g][j]
          /\ pending[g][j].id \notin K /\ pending[g][j].id \notin T
  <2> SUFFICES ASSUME NEW g \in Hosts, NEW j \in PSlots, pending'[g][j] # Empty
               PROVE  /\ pending'[g][j] = pending[g][j]
                      /\ pending[g][j].id \notin K /\ pending[g][j].id \notin T
    OBVIOUS
  <2>1. /\ pending'[g][j] = pending[g][j] /\ pending[g][j] # Empty
        /\ ~(g = h /\ j \in Waiting(h, adr))
    BY <1>9
  <2>2. pending[g][j].id \notin K
    BY <1>2, <1>5, <1>11, <2>1 DEF Fresh
  <2>3. pending[g][j].id \notin T
    BY <1>2, <1>12, <2>1 DEF Heap
  <2>. QED
    BY <2>1, <2>2, <2>3
<1>15. \A x \in K : Sendworthy(mem'[x]) /\ x \notin app
  BY <1>5, <1>6, <1>11 DEF Fresh, After
<1>16. \A x \in T : x \notin app
  BY <1>2, <1>12 DEF Heap
<1>17. \A k \in DOMAIN wire : wire[k].id \notin K /\ wire[k].id \notin T
  <2>1. \A k \in DOMAIN wire : wire[k].id \notin K
    BY <1>5, <1>11 DEF Fresh
  <2>2. \A k \in DOMAIN wire : wire[k].id \notin T
    BY <1>2, <1>12 DEF Heap
  <2>. QED
    BY <2>1, <2>2
<1>18. \A k \in DOMAIN wire' :
          \/ k \in DOMAIN wire /\ wire'[k] = wire[k]
          \/ k \notin DOMAIN wire /\ wire'[k].id \in K
  BY <1>8, <1>11 DEF Scheduled
<1>19. /\ mem' \in [Ids -> Buffer \cup {Freed}]
       /\ \A x \in Ids : mem'[x] # Freed => Sound(mem'[x])
  BY <1>6 DEF After
<1>20. /\ wire' \in Seq([id : Ids, to : Hosts])
       /\ \A j, k \in DOMAIN wire' \ DOMAIN wire : wire'[j].id = wire'[k].id => j = k
  BY <1>8 DEF Scheduled
<1>21. Merged(mem, wire, pending, app, K, T, mem', wire', pending')
  BY <1>10, <1>13, <1>14, <1>15, <1>16, <1>17, <1>18, <1>19, <1>20 DEF Merged
<1>. QED
  BY <1>21, MergeKeepsHeap

-----------------------------------------------------------------------------
(***************************************************************************)
(* ICMP errors and what arrives.                                           *)
(***************************************************************************)
\* Every payload without a number is one that a packet can have.
LEMMA PlainBody == \A kind \in Kinds : Plain(kind) \in Body /\ Plain(kind).kind = kind
  BY HostsAssumption DEF Plain, Body, Header, NoQuote

\* A packet whose IPv4 header a handler finds behind the data came with one.
LEMMA BehindIsRoute ==
    ASSUME NEW p, Sound(p), IpBehind(p)
    PROVE  HeaderRead(p) \in Route /\ HeaderRead(p).src \in Dests /\ HeaderRead(p).dst \in Dests
<1>1. p.ip # Nowhere
  BY DEF IpBehind, Nowhere, IpHdrLen, Sound, Buffer
<1>2. HeaderRead(p) = p.hdr /\ p.hdr \in Route
  BY <1>1 DEF HeaderRead, Sound
<1>. QED
  BY <1>2, HostsAreDests DEF Route

\* icmp_send_error.
LEMMA IcmpErrorHeap ==
    ASSUME NEW m, NEW w, NEW a, Heap(m, w, pending, a), cache \in Caches,
           NEW h \in Hosts, NEW p, Sound(p), IpBehind(p), IcmpError(m, w, h, p)
    PROVE  Heap(mem', wire', pending', a)
<1>1. CASE Failed(m, w, {}, {})
  BY <1>1, FailedHeap
<1>2. CASE Send(m, w, IcmpHdrLen + IpHdrLen + (IF p.len < QuoteLen THEN p.len ELSE QuoteLen),
                ErrorBody(p),
                [proto |-> "ICMP", src |-> h, dst |-> HeaderRead(p).src], {})
  <2>1. IcmpHdrLen + IpHdrLen + (IF p.len < QuoteLen THEN p.len ELSE QuoteLen) \in Nat
    BY DEF IcmpHdrLen, IpHdrLen, QuoteLen, Sound, Buffer
  <2>2. HeaderRead(p) \in Header /\ HeaderRead(p).src \in Dests
    BY BehindIsRoute DEF Header
  <2>3. ErrorBody(p) \in Body
    <3>1. p.body.kind \in Kinds
      BY DEF Sound, Buffer
    <3>2. PICK b \in Body : b = Plain("error")
      BY PlainBody DEF Kinds
    <3>. QED
      BY <2>2, <3>1, <3>2 DEF ErrorBody, Body
  <2>4. [proto |-> "ICMP", src |-> h, dst |-> HeaderRead(p).src] \in Request
    <3>1. h \in Dests
      BY HostsAreDests
    <3>. QED
      BY <2>2, <3>1 DEF Request, Protos
  <2>5. Idle({}, m, w, pending, a)
    BY DEF Idle
  <2>. QED
    BY <1>2, <2>1, <2>3, <2>4, <2>5, SendHeap
<1>. QED
  BY <1>1, <1>2 DEF IcmpError

\* The first frame, as its receiver finds it.
LEMMA ArrivalHeap ==
    ASSUME Heap(mem, wire, pending, app), Arrives
    PROVE  /\ Heap(mem, Rest, pending, app)
           /\ Loose(First.id, Rest, pending, app) /\ mem[First.id] # Freed
           /\ Here \in Hosts
           /\ Raw.body.kind # "arp" =>
                 /\ Heap(OpenedMem, Rest, pending, app)
                 /\ OpenedMem[First.id] = Opened /\ Opened # Freed
                 /\ Sound(Opened) /\ IpBehind(Opened)
<1>1. /\ Heap(mem, Rest, pending, app)
      /\ Loose(First.id, Rest, pending, app)
      /\ Sendworthy(Raw) /\ mem[First.id] # Freed /\ Here \in Hosts
  BY ArriveKeepsHeap DEF Arrives, Rest, First, Raw, Here
<1>2. ASSUME Raw.body.kind # "arp"
      PROVE  /\ Heap(OpenedMem, Rest, pending, app)
             /\ OpenedMem[First.id] = Opened /\ Opened # Freed
             /\ Sound(Opened) /\ IpBehind(Opened)
  <2>1. Sound(Opened) /\ IpBehind(Opened)
    BY <1>1, <1>2, OpenedSound DEF Opened
  <2>2. Opened # Freed
    BY <2>1, FreedIsNoBuffer DEF Sound
  <2>3. First.id \in Ids /\ OffStack(First.id, Rest, pending)
    BY <1>1 DEF Loose
  <2>4. Heap(OpenedMem, Rest, pending, app)
    BY <1>1, <2>1, <2>3, StoreKeepsHeap DEF OpenedMem
  <2>5. OpenedMem[First.id] = Opened
    BY <2>3 DEF OpenedMem, Heap
  <2>. QED
    BY <2>1, <2>2, <2>4, <2>5
<1>. QED
  BY <1>1, <1>2

\* The way up the stack, whatever layer it ends at.
LEMMA DispatchHeap ==
    ASSUME Heap(mem, wire, pending, app), cache \in Caches, Dispatch
    PROVE  Heap(mem', wire', pending', app')
<1>1. Arrives
  BY DEF Dispatch
<1>2. /\ Heap(mem, Rest, pending, app)
      /\ Loose(First.id, Rest, pending, app) /\ mem[First.id] # Freed /\ Here \in Hosts
  BY <1>1, ArrivalHeap
<1>3. ASSUME Raw.body.kind # "arp"
      PROVE  /\ Heap(OpenedMem, Rest, pending, app)
             /\ OpenedMem[First.id] = Opened /\ Opened # Freed
             /\ Sound(Opened) /\ IpBehind(Opened)
  BY <1>1, <1>3, ArrivalHeap
<1>4. Heap(FreeAll(mem, {First.id}), Rest, pending, app)
  BY <1>2, FreeKeepsHeap
<1>5. CASE Refuse
  BY <1>2, <1>5 DEF Refuse, Nothing
<1>6. CASE NotIp
  BY <1>4, <1>6 DEF NotIp, Nothing
<1>7. CASE Unhandled
  BY <1>3, <1>7 DEF Unhandled, IsFor, Nothing
<1>8. CASE AppHandler
  <2>1. Heap(OpenedMem, Rest, pending, app) /\ OpenedMem[First.id] # Freed
    BY <1>3, <1>8 DEF AppHandler, IsFor
  <2>2. Heap(OpenedMem, Rest, pending, app \cup {First.id})
    BY <1>2, <2>1, OwnKeepsHeap
  <2>. QED
    BY <1>8, <2>2 DEF AppHandler
<1>9. CASE IcmpConsumes
  BY <1>4, <1>9 DEF IcmpConsumes, Nothing
<1>10. CASE EchoReply
  <2>1. /\ Heap(OpenedMem, Rest, pending, app) /\ OpenedMem[First.id] # Freed
        /\ Sound(Opened) /\ IpBehind(Opened)
    BY <1>3, <1>10 DEF EchoReply, IsFor
  <2>2. Idle({First.id}, OpenedMem, Rest, pending, app)
    BY <1>2, <2>1 DEF Idle
  <2>3. Opened.len \in Nat /\ Plain("reply") \in Body
    BY <2>1, PlainBody DEF Sound, Buffer, Kinds
  <2>4. ReplyHeader(Opened) \in Request
    BY <2>1, BehindIsRoute DEF ReplyHeader, Request, Protos
  <2>5. Send(OpenedMem, Rest, Opened.len, Plain("reply"), ReplyHeader(Opened), {First.id})
    BY <1>10 DEF EchoReply
  <2>6. Heap(mem', wire', pending', app)
    BY <2>1, <2>2, <2>3, <2>4, <2>5, SendHeap
  <2>. QED
    BY <1>10, <2>6 DEF EchoReply
<1>11. CASE UdpMalformed
  BY <1>4, <1>11 DEF UdpMalformed, Nothing
<1>12. CASE UdpDelivers
  <2>1. /\ Heap(OpenedMem, Rest, pending, app) /\ OpenedMem[First.id] = Opened
        /\ Sound(Opened) /\ Opened.len >= UdpHdrLen
    BY <1>3, <1>12 DEF UdpDelivers, IsFor, IsDatagram
  <2>2. PICK p : p = [Stripped(Opened, UdpHdrLen) EXCEPT !.body = Plain("raw")]
    OBVIOUS
  <2>3. Sound(p) /\ p # Freed
    BY <2>1, <2>2, PayloadSound, FreedIsNoBuffer DEF Sound
  <2>4. Handed(OpenedMem, First.id) = [OpenedMem EXCEPT ![First.id] = p]
    BY <2>1, <2>2 DEF Handed
  <2>5. First.id \in Ids /\ OffStack(First.id, Rest, pending)
    BY <1>2 DEF Loose
  <2>6. Heap(Handed(OpenedMem, First.id), Rest, pending, app)
    BY <2>1, <2>3, <2>4, <2>5, StoreKeepsHeap
  <2>7. Handed(OpenedMem, First.id)[First.id] # Freed
    BY <2>1, <2>3, <2>4, <2>5 DEF Heap
  <2>8. Heap(Handed(OpenedMem, First.id), Rest, pending, app \cup {First.id})
    BY <1>2, <2>6, <2>7, OwnKeepsHeap
  <2>. QED
    BY <1>12, <2>8 DEF UdpDelivers
<1>13. CASE UdpUnreachable
  <2>1. Heap(OpenedMem, Rest, pending, app) /\ Sound(Opened) /\ IpBehind(Opened)
    BY <1>3, <1>13 DEF UdpUnreachable, IsFor
  <2>2. Heap(mem', wire', pending', app)
    BY <1>2, <1>13, <2>1, IcmpErrorHeap DEF UdpUnreachable
  <2>. QED
    BY <1>13, <2>2 DEF UdpUnreachable
<1>. QED
  BY <1>5, <1>6, <1>7, <1>8, <1>9, <1>10, <1>11, <1>12, <1>13 DEF Dispatch

-----------------------------------------------------------------------------
(***************************************************************************)
(* The invariant.                                                          *)
(***************************************************************************)
\* OwnedOnce and LayoutOK alone say neither what a frame on the wire must be for
\* its receiver to strip it, nor that what a send may write to has no owner.
IInv == TypeOK /\ Heap(mem, wire, pending, app)

\* Nothing is allocated at first.
LEMMA InitHeap == ASSUME Init PROVE Heap(mem, wire, pending, app)
<1>1. mem \in [Ids -> Buffer \cup {Freed}] /\ \A x \in Ids : mem[x] = Freed
  BY DEF Init
<1>2. wire \in Seq([id : Ids, to : Hosts]) /\ DOMAIN wire = {}
  BY DEF Init
<1>3. /\ pending \in [Hosts -> [PSlots -> [id : Ids, hdr : Route] \cup {Empty}]]
      /\ \A h \in Hosts, i \in PSlots : pending[h][i] = Empty
  BY DEF Init
<1>4. app = {}
  BY DEF Init
<1>. QED
  BY <1>1, <1>2, <1>3, <1>4 DEF Heap

\* What the application calls.
LEMMA ApplicationHeap ==
    ASSUME IInv, Application
    PROVE  Heap(mem', wire', pending', app')
<1>0. Heap(mem, wire, pending, app) /\ cache \in Caches /\ sends \in 0 .. MaxSends
  BY DEF IInv, TypeOK, Caches
<1>1. ASSUME NEW src \in Dests, NEW dst \in Dests, NEW proto \in Protos
      PROVE  [proto |-> proto, src |-> src, dst |-> dst] \in Request
  BY DEF Request
<1>2. "UDP" \in Protos /\ "ICMP" \in Protos
  BY DEF Protos
<1>3. Idle({}, mem, wire, pending, app)
  BY DEF Idle
<1>4. \A r \in Pairs : r[1] \in Dests /\ r[2] \in Dests
  <2>1. Pairs \subseteq Dests \X Dests
    BY HostsAssumption, Zenon
  <2>. QED
    BY <2>1
<1>5. ASSUME NEW r \in Pairs, NEW port \in Ports, UdpSend(r[1], r[2], port)
      PROVE  Heap(mem', wire', pending', app')
  <2>1. sends + 1 \in 0 .. MaxSends
    <3>1. MaxSends \in Nat
      BY HostsAssumption
    <3>. QED
      BY <1>0, <1>5, <3>1 DEF UdpSend, Sending
  <2>2. Datagram(sends + 1, port) \in Body
    <3>1. PICK b \in Body : b = Plain("datagram")
      BY PlainBody DEF Kinds
    <3>2. PICK n \in 0 .. MaxSends : n = sends + 1
      BY <2>1
    <3>. QED
      BY <3>1, <3>2 DEF Datagram, Body
  <2>3. UdpHdrLen \in Nat
    BY DEF UdpHdrLen
  <2>4. [proto |-> "UDP", src |-> r[1], dst |-> r[2]] \in Request
    BY <1>1, <1>2, <1>4
  <2>5. Heap(mem', wire', pending', app)
    BY <1>0, <1>3, <1>5, <2>2, <2>3, <2>4, SendHeap DEF UdpSend
  <2>. QED
    BY <1>5, <2>5 DEF UdpSend, Quiet
<1>6. ASSUME NEW r \in Pairs, EchoRequest(r[1], r[2])
      PROVE  Heap(mem', wire', pending', app')
  <2>1. IcmpHdrLen \in Nat /\ Plain("request") \in Body
    BY PlainBody DEF IcmpHdrLen, Kinds
  <2>2. [proto |-> "ICMP", src |-> r[1], dst |-> r[2]] \in Request
    BY <1>1, <1>2, <1>4
  <2>3. Heap(mem', wire', pending', app)
    BY <1>0, <1>3, <1>6, <2>1, <2>2, SendHeap DEF EchoRequest
  <2>. QED
    BY <1>6, <2>3 DEF EchoRequest, Quiet
<1>7. CASE AppCreates(1)
  <2>1. PICK x \in Ids :
          /\ Lowest(FreeIn(mem), x)
          /\ mem' = [mem EXCEPT ![x] = Created(1, Plain("raw"))]
          /\ app' = app \cup {x}
    BY <1>7 DEF AppCreates
  <2>2. Loose(x, wire, pending, app)
    BY <1>0, <2>1, FreeIsLoose DEF Lowest, FreeIn
  <2>3. Sound(Created(1, Plain("raw")))
    BY PlainBody, CreatedSound DEF Kinds
  <2>4. Heap(mem', wire, pending, app)
    BY <1>0, <2>1, <2>2, <2>3, StoreKeepsHeap DEF Loose
  <2>5. mem'[x] # Freed
    BY <1>0, <2>1, <2>3, FreedIsNoBuffer DEF Heap, Sound
  <2>6. Heap(mem', wire, pending, app')
    BY <2>1, <2>2, <2>4, <2>5, OwnKeepsHeap
  <2>. QED
    BY <1>7, <2>6 DEF AppCreates
<1>8. ASSUME NEW x \in Ids, NEW r \in Pairs, NEW proto \in Protos,
             HostSendIp(x, r[1], r[2], proto)
      PROVE  Heap(mem', wire', pending', app')
  <2>1. PICK hdr \in Request : hdr = [proto |-> proto, src |-> r[1], dst |-> r[2]]
    BY <1>1, <1>4
  <2>2. /\ x \in app
        /\ \/ Keeps(mem, wire, x, hdr, {}, {}) /\ UNCHANGED app
           \/ Takes(mem, wire, x, hdr, {}) /\ app' = app \ {x}
    BY <1>8, <2>1 DEF HostSendIp
  <2>3. /\ Heap(mem, wire, pending, app \ {x})
        /\ Loose(x, wire, pending, app \ {x}) /\ mem[x] # Freed
    BY <1>0, <2>2, DisownKeepsHeap
  <2>4. CASE Keeps(mem, wire, x, hdr, {}, {}) /\ UNCHANGED app
    BY <1>0, <1>3, <2>1, <2>3, <2>4, KeepsHeap DEF Loose
  <2>5. CASE Takes(mem, wire, x, hdr, {}) /\ app' = app \ {x}
    <3>1. Idle({}, mem, wire, pending, app \ {x}) /\ x \notin {}
      BY DEF Idle
    <3>2. Heap(mem', wire', pending', app \ {x})
      BY <1>0, <2>1, <2>3, <2>5, <3>1, TakesHeap
    <3>. QED
      BY <2>5, <3>2
  <2>. QED
    BY <2>2, <2>4, <2>5
<1>9. ASSUME NEW x \in Ids, AppFrees(x)
      PROVE  Heap(mem', wire', pending', app')
  <2>1. x \in app /\ mem' = FreeAll(mem, {x}) /\ app' = app \ {x}
    BY <1>9 DEF AppFrees
  <2>2. Heap(mem, wire, pending, app \ {x}) /\ Loose(x, wire, pending, app \ {x})
    BY <1>0, <2>1, DisownKeepsHeap
  <2>3. Heap(FreeAll(mem, {x}), wire, pending, app \ {x})
    BY <2>2, FreeKeepsHeap
  <2>. QED
    BY <1>9, <2>1, <2>3 DEF AppFrees
<1>10. ASSUME NEW h \in Hosts, NEW x \in Ids, AppSendsError(h, x)
       PROVE  Heap(mem', wire', pending', app')
  <2>1. Sound(mem[x]) /\ IpBehind(mem[x])
    BY <1>0, <1>10 DEF AppSendsError, Heap
  <2>2. Heap(mem', wire', pending', app)
    BY <1>0, <1>10, <2>1, IcmpErrorHeap DEF AppSendsError
  <2>. QED
    BY <1>10, <2>2 DEF AppSendsError, Quiet
<1>. QED
  BY <1>5, <1>6, <1>7, <1>8, <1>9, <1>10 DEF Application

\* Whatever any step does.
LEMMA NextHeap ==
    ASSUME IInv, [Next]_vars
    PROVE  Heap(mem', wire', pending', app')
<1>0. Heap(mem, wire, pending, app) /\ cache \in Caches
  BY DEF IInv, TypeOK, Caches
<1>1. CASE Application
  BY <1>1, ApplicationHeap
<1>2. CASE Dispatch
  BY <1>0, <1>2, DispatchHeap
<1>3. ASSUME NEW k \in Claims, Learn(k[1], k[2], k[3])
      PROVE  Heap(mem', wire', pending', app')
  <2>1. Claims \subseteq Hosts \X Dests \X Hosts
    BY HostsAssumption, Zenon
  <2>2. k[1] \in Hosts /\ k[2] \in Dests /\ k[3] \in Hosts
    BY <2>1
  <2>3. Flush(k[1], k[2], k[3]) /\ app' = app
    BY <1>3 DEF Learn
  <2>. QED
    BY <1>0, <2>2, <2>3, FlushHeap
<1>4. CASE UNCHANGED <<mem, wire, pending, app>>
  BY <1>0, <1>4
<1>5. ASSUME NEW h, NEW p, UdpBind(h, p) \/ UdpUnbind(h, p)
      PROVE  UNCHANGED <<mem, wire, pending, app>>
  BY <1>5 DEF UdpBind, UdpUnbind, heap
<1>6. ASSUME NEW h, NEW p, NEW f, Register(h, p, f)
      PROVE  UNCHANGED <<mem, wire, pending, app>>
  BY <1>6 DEF Register, heap
<1>7. ASSUME Flap
      PROVE  UNCHANGED <<mem, wire, pending, app>>
  BY <1>7 DEF Flap, heap
<1>8. ASSUME NEW h, NEW p, Expire(h, p)
      PROVE  UNCHANGED <<mem, wire, pending, app>>
  BY <1>8 DEF Expire, heap
<1>9. CASE Administration
  BY <1>3, <1>4, <1>5, <1>6, <1>7, <1>8, <1>9 DEF Administration
<1>10. CASE UNCHANGED vars
  BY <1>4, <1>10 DEF vars
<1>. QED
  BY <1>1, <1>2, <1>9, <1>10 DEF Next

\* A socket table and its count: what TypeOK says of it.
Tabled(s, n) ==
    /\ s \in [Hosts -> [Slots -> Ports \cup {0}]]
    /\ \A h \in Hosts : \A i, j \in {k \in Slots : s[h][k] # 0} : s[h][i] = s[h][j] => i = j
    /\ n \in [Hosts -> Nat]
    /\ \A h \in Hosts : n[h] = Cardinality({i \in Slots : s[h][i] # 0})

\* The slots in use are finitely many.
LEMMA SlotsFinite == \A S \in SUBSET Slots : IsFiniteSet(S) /\ Cardinality(S) \in Nat
<1>1. 1 \in Int /\ MaxSockets \in Int
  BY HostsAssumption
<1>2. IsFiniteSet(Slots)
  BY <1>1, FS_Interval DEF Slots
<1>. QED
  BY <1>2, FS_Subset, FS_CardinalityType

\* udp_bind takes a slot that is not in use, for a port that no other has.
LEMMA BindTabled ==
    ASSUME Tabled(sockets, count), NEW h \in Hosts, NEW port \in Ports, UdpBind(h, port)
    PROVE  Tabled(sockets', count')
<1>1. PICK i \in Slots \ Bound(h) : sockets' = [sockets EXCEPT ![h][i] = port]
  BY DEF UdpBind
<1>2. \A j \in Bound(h) : sockets[h][j] # port
  BY DEF UdpBind, MayBind, SlotsOf
<1>3. port # 0
  <2>1. Ports \subseteq Nat \ {0}
    BY HostsAssumption
  <2>. QED
    BY <2>1
<1>4. sockets' \in [Hosts -> [Slots -> Ports \cup {0}]]
  BY <1>1 DEF Tabled
<1>5. \A g \in Hosts, j \in Slots :
         sockets'[g][j] = IF g = h /\ j = i THEN port ELSE sockets[g][j]
  BY <1>1 DEF Tabled
<1>6. \A g \in Hosts : \A j, k \in {l \in Slots : sockets'[g][l] # 0} :
         sockets'[g][j] = sockets'[g][k] => j = k
  BY <1>2, <1>5 DEF Tabled, Bound
<1>7. {j \in Slots : sockets'[h][j] # 0} = Bound(h) \cup {i}
  BY <1>1, <1>3, <1>5 DEF Bound
<1>8. Bound(h) \in SUBSET Slots /\ i \notin Bound(h)
  BY DEF Bound
<1>9. Cardinality(Bound(h) \cup {i}) = Cardinality(Bound(h)) + 1
  BY <1>8, SlotsFinite, FS_AddElement
<1>10. \A g \in Hosts : g # h =>
          {j \in Slots : sockets'[g][j] # 0} = {j \in Slots : sockets[g][j] # 0}
  BY <1>5
<1>11. count' = [count EXCEPT ![h] = count[h] + 1]
  BY DEF UdpBind
<1>12. count' \in [Hosts -> Nat] /\ count'[h] = count[h] + 1 /\ \A g \in Hosts : g # h => count'[g] = count[g]
  BY <1>11 DEF Tabled
<1>13. count[h] = Cardinality(Bound(h))
  BY DEF Tabled, Bound
<1>14. \A g \in Hosts : count'[g] = Cardinality({j \in Slots : sockets'[g][j] # 0})
  <2> SUFFICES ASSUME NEW g \in Hosts
               PROVE  count'[g] = Cardinality({j \in Slots : sockets'[g][j] # 0})
    OBVIOUS
  <2>1. CASE g = h
    BY <1>7, <1>9, <1>12, <1>13, <2>1
  <2>2. CASE g # h
    BY <1>10, <1>12, <2>2 DEF Tabled
  <2>. QED
    BY <2>1, <2>2
<1>. QED
  BY <1>4, <1>6, <1>12, <1>14 DEF Tabled

\* udp_unbind clears one.
LEMMA UnbindTabled ==
    ASSUME Tabled(sockets, count), NEW h \in Hosts, NEW port \in Ports, UdpUnbind(h, port)
    PROVE  Tabled(sockets', count')
<1>1. PICK i \in Bound(h) : sockets' = [sockets EXCEPT ![h][i] = 0]
  BY DEF UdpUnbind, SlotsOf
<1>2. i \in Slots
  BY DEF Bound
<1>3. sockets' \in [Hosts -> [Slots -> Ports \cup {0}]]
  BY <1>1, <1>2 DEF Tabled
<1>4. \A g \in Hosts, j \in Slots :
         sockets'[g][j] = IF g = h /\ j = i THEN 0 ELSE sockets[g][j]
  BY <1>1, <1>2 DEF Tabled
<1>5. \A g \in Hosts : \A j, k \in {l \in Slots : sockets'[g][l] # 0} :
         sockets'[g][j] = sockets'[g][k] => j = k
  BY <1>4 DEF Tabled
<1>6. {j \in Slots : sockets'[h][j] # 0} = Bound(h) \ {i}
  BY <1>4 DEF Bound
<1>7. Bound(h) \in SUBSET Slots
  BY DEF Bound
<1>8. Cardinality(Bound(h) \ {i}) = Cardinality(Bound(h)) - 1
  BY <1>7, SlotsFinite, FS_RemoveElement
<1>9. Cardinality(Bound(h) \ {i}) \in Nat
  BY <1>7, SlotsFinite
<1>10. \A g \in Hosts : g # h =>
          {j \in Slots : sockets'[g][j] # 0} = {j \in Slots : sockets[g][j] # 0}
  BY <1>4
<1>11. count[h] = Cardinality(Bound(h)) /\ count \in [Hosts -> Nat]
  BY DEF Tabled, Bound
<1>12. count' = [count EXCEPT ![h] = count[h] - 1]
  BY DEF UdpUnbind
<1>13. /\ count[h] - 1 \in Nat /\ count' \in [Hosts -> Nat] /\ count'[h] = count[h] - 1
       /\ \A g \in Hosts : g # h => count'[g] = count[g]
  BY <1>8, <1>9, <1>11, <1>12
<1>14. \A g \in Hosts : count'[g] = Cardinality({j \in Slots : sockets'[g][j] # 0})
  <2> SUFFICES ASSUME NEW g \in Hosts
               PROVE  count'[g] = Cardinality({j \in Slots : sockets'[g][j] # 0})
    OBVIOUS
  <2>1. CASE g = h
    BY <1>6, <1>8, <1>11, <1>13, <2>1
  <2>2. CASE g # h
    BY <1>10, <1>13, <2>2 DEF Tabled
  <2>. QED
    BY <2>1, <2>2
<1>. QED
  BY <1>3, <1>5, <1>13, <1>14 DEF Tabled

\* TypeOK without what Heap says.
Others ==
    /\ told \in [Ids -> [name : 0 .. MaxSends, from : Dests \cup {0}]]
    /\ Tabled(sockets, count)
    /\ handlers \in [Hosts -> [Protos -> {"icmp", "udp", "app", "none"}]]
    /\ cache \in Caches
    /\ linkUp \in BOOLEAN /\ up \in [Hosts -> BOOLEAN]
    /\ sends \in 0 .. MaxSends /\ changes \in 0 .. MaxChanges

\* The two parts.
LEMMA TypeParts == Heap(mem, wire, pending, app) => (TypeOK <=> Others)
  BY DEF Heap, TypeOK, Others, Tabled, Bound, Caches

\* The counters stay within their bounds.
LEMMA Counting ==
    ASSUME Others
    PROVE  /\ Change => changes' \in 0 .. MaxChanges
           /\ Sending => sends' \in 0 .. MaxSends
<1>1. MaxSends \in Nat /\ MaxChanges \in Nat
  BY HostsAssumption
<1>. QED
  BY <1>1 DEF Others, Change, Sending

\* Everything but the heap keeps its type.
LEMMA NextOthers ==
    ASSUME Heap(mem, wire, pending, app), Others, [Next]_vars
    PROVE  Others'
<1>0. Nobody \in [name : 0 .. MaxSends, from : Dests \cup {0}]
  <2>1. MaxSends \in Nat
    BY HostsAssumption
  <2>. QED
    BY <2>1 DEF Nobody
<1>1. ASSUME NEW b \in Binds, UdpBind(b[1], b[2]) \/ UdpUnbind(b[1], b[2])
      PROVE  Others'
  <2>1. Binds \subseteq Hosts \X Ports
    BY HostsAssumption, Zenon
  <2>2. b[1] \in Hosts /\ b[2] \in Ports
    BY <2>1
  <2>3. Tabled(sockets, count)
    BY DEF Others
  <2>4. Tabled(sockets', count')
    BY <1>1, <2>2, <2>3, BindTabled, UnbindTabled
  <2>5. changes' \in 0 .. MaxChanges
    BY <1>1, Counting DEF UdpBind, UdpUnbind
  <2>6. UNCHANGED <<told, handlers, cache, linkUp, up, sends>>
    BY <1>1 DEF UdpBind, UdpUnbind, heap, medium
  <2>. QED
    BY <2>4, <2>5, <2>6 DEF Others, Tabled
<1>2. ASSUME NEW r \in Handlers, Register(r[1], r[2], r[3])
      PROVE  Others'
  <2>1. Handlers \subseteq Hosts \X {"ICMP", "UDP", "OTHER"} \X {"none", "app"}
    BY HostsAssumption, Zenon
  <2>2. r[1] \in Hosts /\ r[2] \in Protos /\ r[3] \in {"icmp", "udp", "app", "none"}
    BY <2>1 DEF Protos
  <2>3. handlers' = [handlers EXCEPT ![r[1]][r[2]] = r[3]]
    BY <1>2 DEF Register
  <2>4. handlers' \in [Hosts -> [Protos -> {"icmp", "udp", "app", "none"}]]
    BY <2>2, <2>3 DEF Others
  <2>5. changes' \in 0 .. MaxChanges
    BY <1>2, Counting DEF Register
  <2>6. UNCHANGED <<told, sockets, count, cache, linkUp, up, sends>>
    BY <1>2 DEF Register, heap, udp, medium
  <2>. QED
    BY <2>4, <2>5, <2>6 DEF Others, Tabled
<1>3. CASE Flap
  <2>1. linkUp' \in BOOLEAN /\ up' \in [Hosts -> BOOLEAN]
    BY <1>3 DEF Flap, Others
  <2>2. changes' \in 0 .. MaxChanges
    BY <1>3, Counting DEF Flap
  <2>3. UNCHANGED <<told, sockets, count, handlers, cache, sends>>
    BY <1>3 DEF Flap, heap, udp
  <2>. QED
    BY <2>1, <2>2, <2>3 DEF Others, Tabled
<1>4. ASSUME NEW h \in Hosts, NEW adr \in Dests, NEW mac \in Hosts \cup {0},
             cache' = [cache EXCEPT ![h][adr] = mac], Change,
             UNCHANGED <<told, sockets, count, handlers, linkUp, up, sends>>
      PROVE  Others'
  <2>1. cache' \in Caches
    BY <1>4 DEF Others, Caches
  <2>2. changes' \in 0 .. MaxChanges
    BY <1>4, Counting
  <2>. QED
    BY <1>4, <2>1, <2>2 DEF Others, Tabled
<1>5. ASSUME NEW k \in Claims, Learn(k[1], k[2], k[3])
      PROVE  Others'
  <2>1. Claims \subseteq Hosts \X Dests \X Hosts
    BY HostsAssumption, Zenon
  <2>2. k[1] \in Hosts /\ k[2] \in Dests /\ k[3] \in Hosts \cup {0}
    BY <2>1
  <2>3. /\ cache' = [cache EXCEPT ![k[1]][k[2]] = k[3]] /\ Change
        /\ UNCHANGED <<told, sockets, count, handlers, linkUp, up, sends>>
    BY <1>5 DEF Learn, udp, medium
  <2>. QED
    BY <1>4, <2>2, <2>3
<1>6. ASSUME NEW h \in Hosts, NEW adr \in Dests, Expire(h, adr)
      PROVE  Others'
  <2>1. /\ cache' = [cache EXCEPT ![h][adr] = 0] /\ Change
        /\ UNCHANGED <<told, sockets, count, handlers, linkUp, up, sends>>
    BY <1>6 DEF Expire, heap, udp, medium
  <2>. QED
    BY <1>4, <2>1
<1>7. ASSUME Sending, UNCHANGED <<sockets, count, handlers, cache, linkUp, up, changes>>,
             told' = told \/ \E x \in Ids : told' = [told EXCEPT ![x] = Nobody]
      PROVE  Others'
  <2>1. sends' \in 0 .. MaxSends
    BY <1>7, Counting
  <2>2. told' \in [Ids -> [name : 0 .. MaxSends, from : Dests \cup {0}]]
    BY <1>0, <1>7 DEF Others
  <2>. QED
    BY <1>7, <2>1, <2>2 DEF Others, Tabled
<1>8. ASSUME NEW src, NEW dst, NEW port, UdpSend(src, dst, port) \/ EchoRequest(src, dst)
      PROVE  Others'
  BY <1>7, <1>8 DEF UdpSend, EchoRequest, Quiet, udp, medium
<1>9. CASE AppCreates(1)
  BY <1>7, <1>9 DEF AppCreates, udp, medium
<1>10. ASSUME NEW x \in Ids, NEW src, NEW dst, NEW proto, HostSendIp(x, src, dst, proto)
       PROVE  Others'
  BY <1>7, <1>10 DEF HostSendIp, udp, medium
<1>11. ASSUME NEW h, NEW x, AppSendsError(h, x)
       PROVE  Others'
  BY <1>7, <1>11 DEF AppSendsError, Quiet, udp, medium
<1>12. ASSUME NEW x \in Ids, AppFrees(x)
       PROVE  Others'
  <2>1. /\ told' = [told EXCEPT ![x] = Nobody]
        /\ UNCHANGED <<sockets, count, handlers, cache, linkUp, up, sends, changes>>
    BY <1>12 DEF AppFrees, udp, medium, bounds
  <2>2. told' \in [Ids -> [name : 0 .. MaxSends, from : Dests \cup {0}]]
    BY <1>0, <2>1 DEF Others
  <2>. QED
    BY <2>1, <2>2 DEF Others, Tabled
<1>13. CASE Dispatch
  <2>1. UNCHANGED <<sockets, count, handlers, cache, linkUp, up, sends, changes>>
    BY <1>13 DEF Dispatch, udp, medium, bounds
  <2>2. told' = told \/ UdpDelivers
    BY <1>13 DEF Dispatch, Refuse, NotIp, Unhandled, AppHandler, IcmpConsumes, EchoReply,
                 UdpMalformed, UdpUnreachable, Nothing
  <2>3. CASE UdpDelivers
    <3>1. Arrives /\ Raw.body.kind # "arp"
      BY <1>13, <2>3 DEF Dispatch, UdpDelivers, IsFor
    <3>2. First.id \in Ids /\ Sound(Opened) /\ IpBehind(Opened)
      BY <3>1, ArrivalHeap DEF Loose
    <3>3. SourceOf(Opened) \in Dests
      BY <3>2, BehindIsRoute DEF SourceOf
    <3>4. Opened.body.name \in 0 .. MaxSends
      BY <3>2 DEF Sound, Buffer
    <3>5. told' = [told EXCEPT ![First.id] =
                      [name |-> Opened.body.name, from |-> SourceOf(Opened)]]
      BY <2>3 DEF UdpDelivers
    <3>6. told' \in [Ids -> [name : 0 .. MaxSends, from : Dests \cup {0}]]
      BY <3>2, <3>3, <3>4, <3>5 DEF Others
    <3>. QED
      BY <2>1, <3>6 DEF Others, Tabled
  <2>4. CASE told' = told
    BY <2>1, <2>4 DEF Others, Tabled
  <2>. QED
    BY <2>2, <2>3, <2>4
<1>14. CASE UNCHANGED vars
  BY <1>14 DEF vars, Others, Tabled
<1>15. CASE Administration
  BY <1>1, <1>2, <1>3, <1>5, <1>6, <1>15 DEF Administration
<1>16. CASE Application
  BY <1>8, <1>9, <1>10, <1>11, <1>12, <1>16 DEF Application
<1>. QED
  BY <1>13, <1>14, <1>15, <1>16 DEF Next

\* IInv is inductive: memory, owners and types together.
THEOREM HeapInvariant == Spec => []IInv
<1>1. Init => IInv
  <2> SUFFICES ASSUME Init PROVE IInv
    OBVIOUS
  <2>1. Heap(mem, wire, pending, app)
    BY InitHeap
  <2>2. Tabled(sockets, count)
    <3>1. \A h \in Hosts, i \in Slots : sockets[h][i] = 0
      BY DEF Init
    <3>2. \A h \in Hosts : {i \in Slots : sockets[h][i] # 0} = {}
      BY <3>1
    <3>3. Cardinality({}) = 0
      BY FS_EmptySet
    <3>4. sockets \in [Hosts -> [Slots -> Ports \cup {0}]] /\ count \in [Hosts -> Nat]
          /\ \A h \in Hosts : count[h] = 0
      BY DEF Init
    <3>. QED
      BY <3>1, <3>2, <3>3, <3>4 DEF Tabled
  <2>3. MaxSends \in Nat /\ MaxChanges \in Nat
    BY HostsAssumption
  <2>4. told \in [Ids -> [name : 0 .. MaxSends, from : Dests \cup {0}]]
    BY <2>3 DEF Init, Nobody
  <2>5. handlers \in [Hosts -> [Protos -> {"icmp", "udp", "app", "none"}]] /\ cache \in Caches
    BY DEF Init, Caches
  <2>6. Others
    BY <2>2, <2>3, <2>4, <2>5 DEF Init, Others
  <2>. QED
    BY <2>1, <2>6, TypeParts DEF IInv
<1>2. IInv /\ [Next]_vars => IInv'
  <2> SUFFICES ASSUME IInv, [Next]_vars PROVE IInv'
    OBVIOUS
  <2>1. Heap(mem, wire, pending, app) /\ Others
    BY TypeParts DEF IInv
  <2>2. Heap(mem', wire', pending', app')
    BY NextHeap
  <2>3. Others'
    BY <2>1, NextOthers
  <2>4. TypeOK'
    BY <2>2, <2>3 DEF Heap, TypeOK, Others, Tabled, Bound, Caches
  <2>. QED
    BY <2>2, <2>4 DEF IInv
<1>. QED
  BY <1>1, <1>2, PTL DEF Spec

\* TypeOK: every variable keeps its type, and a socket table its count.
THEOREM TypeCorrect == Spec => []TypeOK
<1>1. IInv => TypeOK
  BY DEF IInv
<1>. QED
  BY <1>1, HeapInvariant, PTL

\* OwnedOnce: on whichever path a send fails, no packet gets a second owner, and
\* none is freed that has one (udp.c, icmp.c, arp_cache.c, link.c).
THEOREM OwnershipTheorem == Spec => []OwnedOnce
<1>1. IInv => OwnedOnce
  <2> SUFFICES ASSUME IInv PROVE OwnedOnce
    OBVIOUS
  <2>0. Heap(mem, wire, pending, app)
    BY DEF IInv
  <2>1. \A k \in DOMAIN wire : wire[k].id \in Ids /\ mem[wire[k].id] # Freed
    <3>1. \A k \in DOMAIN wire : wire[k].id \in Ids
      BY <2>0, HeapRefs
    <3>2. \A k \in DOMAIN wire : mem[wire[k].id] \in Buffer
      BY <2>0 DEF Heap, Sendworthy, Sound
    <3>. QED
      BY <3>1, <3>2, FreedIsNoBuffer
  <2>2. OnWire \subseteq Packets
    BY <2>1 DEF OnWire, Packets
  <2>3. \A x \in InQueue : \E h \in Hosts, i \in PSlots : pending[h][i] # Empty /\ x = pending[h][i].id
    BY DEF InQueue, Queued
  <2>4. \A h \in Hosts, i \in PSlots : pending[h][i] # Empty =>
           pending[h][i].id \in Ids /\ mem[pending[h][i].id] # Freed
    BY <2>0, HeapRefs DEF Heap
  <2>5. InQueue \subseteq Packets
    BY <2>3, <2>4 DEF Packets
  <2>6. app \subseteq Packets
    BY <2>0 DEF Heap, Packets
  <2>7. OnWire \cap InQueue = {}
    BY <2>0, <2>3 DEF OnWire, Heap
  <2>8. OnWire \cap app = {}
    BY <2>0 DEF OnWire, Heap
  <2>9. InQueue \cap app = {}
    BY <2>0, <2>3 DEF Heap
  <2>10. \A j, k \in DOMAIN wire : wire[j].id = wire[k].id => j = k
    BY <2>0 DEF Heap
  <2>11. \A g, h \in Hosts : \A i \in Queued(g), j \in Queued(h) :
            pending[g][i].id = pending[h][j].id => g = h /\ i = j
    BY <2>0 DEF Heap, Queued
  <2>. QED
    BY <2>2, <2>5, <2>6, <2>7, <2>8, <2>9, <2>10, <2>11 DEF OwnedOnce, Owned
<1>. QED
  BY <1>1, HeapInvariant, PTL

\* LayoutOK: no sequence of sends, failures, retries and strips takes a header out
\* of the buffer (packet.c:40-65).
THEOREM LayoutTheorem == Spec => []LayoutOK
<1>1. IInv => LayoutOK
  BY DEF IInv, Heap, Sound, LayoutOK, Packets
<1>. QED
  BY <1>1, HeapInvariant, PTL
=============================================================================
