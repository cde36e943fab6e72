--------------------------- MODULE DeliveryProofs ---------------------------
(***************************************************************************)
(* Theorems about what becomes of the packets of two hosts: an ICMP error  *)
(* goes back to where its original came from, a packet is lost in the      *)
(* known cases only, and UDP delivers what was sent, once, from where it   *)
(* was sent.  All rest on one description of what ip_output leaves in      *)
(* memory, on the wire and in the pending queue, whichever way it takes.   *)
(***************************************************************************)
EXTENDS HostsProofs

\* What the call of ip_output for the packet at x leaves of memory m and wire w:
\* c is the frame it schedules, or 0.
Output(m, w, x, body, hdr, c) ==
    /\ \A y \in Ids : y # x /\ y # c =>
          \/ mem'[y] = Freed
          \/ mem'[y] = m[y]
          \/ m[y] = Freed /\ mem'[y].body.kind = "arp"
    /\ mem'[x] # Freed =>
          /\ mem'[x].body = body
          /\ body.kind = "raw" \/ mem'[x].hdr = NoQuote \/ mem'[x].hdr = hdr
    /\ \/ c = 0 /\ wire' = w
       \/ /\ c \in Ids /\ c # x /\ m[c] = Freed /\ mem'[c] # Freed
          /\ \E g \in Hosts : wire' = Append(w, [id |-> c, to |-> g])
          /\ \/ mem'[c].body.kind = "arp"
             \/ mem'[c].body = body /\ mem'[c].hdr = hdr /\ pending' = pending
    /\ \A h \in Hosts, i \in PSlots :
          \/ pending'[h][i] = pending[h][i]
          \/ pending[h][i] = Empty /\ pending'[h][i] = Entry(x, hdr)

\* A packet taken over by the layers below: it was cloned, or waits.
Handled(x, hdr, c) ==
    \/ c \in Ids /\ mem'[c] = Clone(mem'[x])
    \/ \E h \in Hosts, i \in PSlots : pending'[h][i] = Entry(x, hdr)

Queues == [Hosts -> [PSlots -> [id : Ids, hdr : Route] \cup {Empty}]]

Freed0(S) == \A y \in S : y \in Ids => mem'[y] = Freed

LEMMA NoZero == 0 \notin Ids
<1>1. Ids \subseteq Nat \ {0}
  BY HostsAssumption
<1>. QED
  BY <1>1

-----------------------------------------------------------------------------
(***************************************************************************)
(* Payloads and headers.                                                   *)
(***************************************************************************)
\* A send that fails leaves the payload alone, and the header it wrote.
LEMMA TriedKeeps ==
    ASSUME NEW p \in Buffer, NEW hdr \in Route, NEW mac \in Hosts \cup {0}
    PROVE  /\ Tried(p, hdr, mac) \in Buffer
           /\ Tried(p, hdr, mac).body = p.body
           /\ Tried(p, hdr, mac).hdr = p.hdr \/ Tried(p, hdr, mac).hdr = hdr
           /\ HeadersFit(p, hdr) => Tried(p, hdr, mac).hdr = hdr
<1>1. CASE ~CanPrepend(p, IpHdrLen)
  BY <1>1 DEF Tried, HeadersFit
<1>2. CASE CanPrepend(p, IpHdrLen)
  <2>1. PICK q \in Buffer : q = WithIp(p, hdr)
    BY <1>2, WithIpFields
  <2>2. q.hdr = hdr /\ q.body = p.body
    BY <1>2, <2>1, WithIpFields
  <2>3. CASE ~CanPrepend(q, EthHdrLen)
    BY <1>2, <2>1, <2>2, <2>3 DEF Tried
  <2>4. CASE CanPrepend(q, EthHdrLen)
    <3>1. hdr.src \in Hosts \cup {0}
      BY DEF Route
    <3>2. PICK r \in Buffer : r = WithEth(q, hdr.src, mac)
      BY <2>4, <3>1, WithEthFields
    <3>3. r.hdr = q.hdr /\ r.body = q.body
      BY <2>4, <3>1, <3>2, WithEthFields
    <3>. QED
      BY <1>2, <2>1, <2>2, <2>4, <3>2, <3>3 DEF Tried
  <2>. QED
    BY <2>3, <2>4
<1>. QED
  BY <1>1, <1>2

\* What udp_send asks to be sent.
LEMMA DatagramBody ==
    ASSUME NEW name \in 0 .. MaxSends, NEW port \in Ports
    PROVE  /\ Datagram(name, port) \in Body /\ Datagram(name, port).kind = "datagram"
           /\ Datagram(name, port).name = name /\ Datagram(name, port).port = port
<1>1. PICK b \in Body : b = Plain("datagram") /\ b.kind = "datagram"
  BY PlainBody DEF Kinds
<1>2. PICK d : d = [b EXCEPT !.name = name, !.port = port]
  OBVIOUS
<1>3. d \in Body /\ d.kind = "datagram" /\ d.name = name /\ d.port = port
  BY <1>1, <1>2 DEF Body
<1>. QED
  BY <1>1, <1>2, <1>3 DEF Datagram

\* A clone carries what the original carries.
LEMMA CloneKeeps ==
    ASSUME NEW p \in Buffer
    PROVE  Clone(p) # Freed /\ Clone(p).body = p.body /\ Clone(p).hdr = p.hdr
<1>1. PICK i : i = IF p.ip >= p.data THEN p.ip - p.data + PktHeadroom ELSE Nowhere
  OBVIOUS
<1>2. i \in Int
  BY <1>1 DEF Buffer, PktHeadroom, Nowhere, IpHdrLen
<1>3. PICK q : q = [p EXCEPT !.data = PktHeadroom, !.cap = p.len, !.ip = i]
  OBVIOUS
<1>4. q \in Buffer /\ q.hdr = p.hdr /\ q.body = p.body
  BY <1>2, <1>3 DEF Buffer, PktHeadroom
<1>5. Clone(p) = q
  BY <1>1, <1>3 DEF Clone
<1>. QED
  BY <1>4, <1>5, FreedIsNoBuffer

\* The payload of an ARP request.
LEMMA ArpFrameKeeps ==
    ASSUME NEW h \in Hosts
    PROVE  /\ ArpFrame(h) \in Buffer /\ ArpFrame(h).body.kind = "arp"
           /\ Clone(ArpFrame(h)) # Freed /\ Clone(ArpFrame(h)).body.kind = "arp"
<1>1. PICK body \in Body : body = Plain("arp")
  BY PlainBody DEF Kinds
<1>2. PICK e : e = [Created(ArpLen, body) EXCEPT !.len = 0]
  OBVIOUS
<1>3. e \in Buffer /\ e.data = 64 /\ e.body = body
  BY <1>1, <1>2 DEF Created, Buffer, Body, PktHeadroom, ArpLen, Nowhere, IpHdrLen, Header, NoQuote
<1>4. PICK q \in Buffer : q = Prepended(e, ArpLen)
  BY <1>3, PrependedFields DEF CanPrepend, ArpLen
<1>5. q.data = 36 /\ q.body = body
  BY <1>3, <1>4, PrependedFields DEF CanPrepend, ArpLen
<1>6. PICK r \in Buffer : r = WithEth(q, h, Broadcast)
  BY <1>4, <1>5, WithEthFields DEF CanPrepend, EthHdrLen, Broadcast
<1>7. r.body = body
  BY <1>4, <1>5, <1>6, WithEthFields DEF CanPrepend, EthHdrLen, Broadcast
<1>8. ArpFrame(h) = r
  BY <1>1, <1>2, <1>4, <1>6 DEF ArpFrame
<1>9. body.kind = "arp"
  BY <1>1, PlainBody DEF Kinds
<1>. QED
  BY <1>6, <1>7, <1>8, <1>9, CloneKeeps

-----------------------------------------------------------------------------
(***************************************************************************)
(* ip_output, whichever way it takes.                                      *)
(***************************************************************************)
\* The result is -1: the packet has the headers that fit, and nothing waits.
LEMMA KeepsOutput ==
    ASSUME NEW m \in [Ids -> Buffer \cup {Freed}], NEW w, cache \in Caches,
           NEW x \in Ids, m[x] # Freed, NEW hdr \in Request,
           m[x].body.kind = "raw" \/ m[x].hdr = NoQuote,
           NEW done, NEW spare, \A y \in done \cup spare : y \in Ids /\ m[y] # Freed,
           Keeps(m, w, x, hdr, done, spare)
    PROVE  \E c : /\ Output(m, w, x, m[x].body, hdr, c)
                  /\ pending' = pending /\ Freed0(done \cup spare)
<1>0. m[x] \in Buffer
  OBVIOUS
<1>1. ASSUME NEW n \in [Ids -> Buffer \cup {Freed}], Failed(n, w, done, spare),
             n[x].body = m[x].body,
             n[x].hdr = m[x].hdr \/ n[x].hdr = hdr,
             \A y \in Ids : y # x => n[y] = m[y] \/ (m[y] = Freed /\ n[y].body.kind = "arp")
      PROVE  Output(m, w, x, m[x].body, hdr, 0) /\ pending' = pending /\ Freed0(done \cup spare)
  <2>1. mem' = FreeAll(n, done \cup spare) /\ wire' = w /\ pending' = pending
    BY <1>1 DEF Failed
  <2>2. \A y \in Ids : mem'[y] = Freed \/ mem'[y] = n[y]
    BY <2>1 DEF FreeAll
  <2>3. Freed0(done \cup spare)
    BY <2>1 DEF FreeAll, Freed0
  <2>4. \A y \in Ids : y # x =>
          mem'[y] = Freed \/ mem'[y] = m[y] \/ (m[y] = Freed /\ mem'[y].body.kind = "arp")
    BY <1>1, <2>2
  <2>5. mem'[x] # Freed =>
          mem'[x].body = m[x].body
          /\ (m[x].body.kind = "raw" \/ mem'[x].hdr = NoQuote \/ mem'[x].hdr = hdr)
    BY <1>1, <2>2
  <2>. QED
    BY <2>1, <2>3, <2>4, <2>5 DEF Output
<1>2. CASE OutputRefused(m, w, hdr, done, spare)
  BY <1>1, <1>2 DEF OutputRefused
<1>3. CASE OutputFails(m, w, x, hdr, done, spare)
  <2>1. hdr \in Route /\ cache[hdr.src][hdr.dst] \in Hosts \cup {0}
    BY <1>3, RoutableRoute DEF OutputFails
  <2>2. PICK p \in Buffer : p = Tried(m[x], hdr, cache[hdr.src][hdr.dst])
    BY <1>0, <2>1, TriedKeeps
  <2>3. p.body = m[x].body /\ (p.hdr = m[x].hdr \/ p.hdr = hdr)
    BY <1>0, <2>1, <2>2, TriedKeeps
  <2>4. PICK n \in [Ids -> Buffer \cup {Freed}] : n = [m EXCEPT ![x] = p]
    OBVIOUS
  <2>5. Failed([m EXCEPT ![x] = Tried(m[x], hdr, cache[hdr.src][hdr.dst])], w, done, spare)
    BY <1>3 DEF OutputFails
  <2>6. Failed(n, w, done, spare)
    BY <2>2, <2>4, <2>5
  <2>7. n[x] = p /\ \A y \in Ids : y # x => n[y] = m[y]
    BY <2>4
  <2>. QED
    BY <1>1, <2>3, <2>6, <2>7
<1>4. CASE OutputCannotAsk(m, w, hdr, done, spare)
  <2>1. CASE Failed(m, w, done, spare)
    BY <1>1, <2>1
  <2>2. ASSUME NEW r \in Ids, Lowest(FreeIn(m), r),
               Failed([m EXCEPT ![r] = ArpFrame(hdr.src)], w, done, spare)
        PROVE  \E c : /\ Output(m, w, x, m[x].body, hdr, c)
                      /\ pending' = pending /\ Freed0(done \cup spare)
    <3>1. hdr.src \in Hosts
      BY <1>4, RoutableRoute DEF OutputCannotAsk
    <3>2. PICK f \in Buffer : f = ArpFrame(hdr.src)
      BY <3>1, ArpFrameKeeps
    <3>3. f.body.kind = "arp" /\ m[r] = Freed
      BY <2>2, <3>1, <3>2, ArpFrameKeeps DEF Lowest, FreeIn
    <3>4. PICK n \in [Ids -> Buffer \cup {Freed}] : n = [m EXCEPT ![r] = f]
      OBVIOUS
    <3>5. Failed(n, w, done, spare)
      BY <2>2, <3>2, <3>4
    <3>6. n[r] = f /\ \A y \in Ids : y # r => n[y] = m[y]
      BY <3>4
    <3>. QED
      BY <1>1, <3>3, <3>5, <3>6
  <2>. QED
    BY <1>4, <2>1, <2>2 DEF OutputCannotAsk
<1>5. CASE OutputQueueFull(m, w, hdr, done, spare)
  <2>1. PICK r \in Ids, c \in Ids :
          /\ Asks(m, hdr, r, c)
          /\ Failed(Asked(m, hdr.src, r, c), Append(w, Frame(c, hdr.src)), done, spare)
    BY <1>5 DEF OutputQueueFull
  <2>2. m[r] = Freed /\ m[c] = Freed /\ r # c /\ hdr.src \in Hosts
    BY <2>1, RoutableRoute DEF Asks, Lowest, FreeIn
  <2>3. PICK f : f = ArpFrame(hdr.src)
    OBVIOUS
  <2>4. PICK g : g = Clone(ArpFrame(hdr.src))
    OBVIOUS
  <2>5. f.body.kind = "arp" /\ g # Freed /\ g.body.kind = "arp"
    BY <2>2, <2>3, <2>4, ArpFrameKeeps
  <2>6. Asked(m, hdr.src, r, c) = [m EXCEPT ![r] = f, ![c] = g]
    BY <2>3, <2>4 DEF Asked
  <2>7. PICK n : n = [m EXCEPT ![r] = f, ![c] = g]
    OBVIOUS
  <2>8. n[r] = f /\ n[c] = g /\ \A y \in Ids : y # r /\ y # c => n[y] = m[y]
    BY <2>2, <2>7
  <2>9. /\ mem' = FreeAll(n, done \cup spare) /\ wire' = Append(w, [id |-> c, to |-> Peer(hdr.src)])
        /\ pending' = pending
    BY <2>1, <2>6, <2>7 DEF Failed, Frame
  <2>10. \A y \in Ids : mem'[y] = Freed \/ mem'[y] = n[y]
    BY <2>9 DEF FreeAll
  <2>11. mem'[c] = g
    BY <2>2, <2>8, <2>9 DEF FreeAll
  <2>12. Freed0(done \cup spare)
    BY <2>9 DEF FreeAll, Freed0
  <2>13. x # r /\ x # c /\ n[x] = m[x]
    BY <2>2, <2>8
  <2>14. Peer(hdr.src) \in Hosts
    BY <2>2, PeerIsHost
  <2>15. \A y \in Ids : y # x /\ y # c =>
           mem'[y] = Freed \/ mem'[y] = m[y] \/ (m[y] = Freed /\ mem'[y].body.kind = "arp")
    BY <2>2, <2>5, <2>8, <2>10
  <2>16. mem'[x] # Freed =>
           mem'[x].body = m[x].body
           /\ (m[x].body.kind = "raw" \/ mem'[x].hdr = NoQuote \/ mem'[x].hdr = hdr)
    BY <2>10, <2>13
  <2>17. Output(m, w, x, m[x].body, hdr, c)
    BY <2>2, <2>5, <2>9, <2>11, <2>13, <2>14, <2>15, <2>16 DEF Output
  <2>. QED
    BY <2>9, <2>12, <2>17
<1>. QED
  BY <1>2, <1>3, <1>4, <1>5 DEF Keeps

\* The result is 1 or 0: the packet leaves as a clone, or waits.
LEMMA TakesOutput ==
    ASSUME NEW m \in [Ids -> Buffer \cup {Freed}], NEW w, cache \in Caches,
           NEW x \in Ids, m[x] # Freed, NEW hdr \in Request,
           m[x].body.kind = "raw" \/ m[x].hdr = NoQuote,
           pending \in Queues,
           NEW done, x \notin done, \A y \in done : y \in Ids /\ m[y] # Freed,
           Takes(m, w, x, hdr, done)
    PROVE  \E c : /\ Output(m, w, x, m[x].body, hdr, c)
                  /\ Handled(x, hdr, c) /\ Freed0(done)
<1>0. m[x] \in Buffer
  OBVIOUS
<1>1. CASE OutputSends(m, w, x, hdr, done)
  <2>1. hdr \in Route /\ hdr.src \in Hosts /\ cache[hdr.src][hdr.dst] \in Hosts \cup {0}
    BY <1>1, RoutableRoute DEF OutputSends
  <2>2. PICK p \in Buffer : p = Tried(m[x], hdr, cache[hdr.src][hdr.dst])
    BY <1>0, <2>1, TriedKeeps
  <2>3. p.body = m[x].body /\ p.hdr = hdr
    BY <1>0, <1>1, <2>1, <2>2, TriedKeeps DEF OutputSends
  <2>4. PICK q : q = Clone(p)
    OBVIOUS
  <2>5. q # Freed /\ q.body = m[x].body /\ q.hdr = hdr
    BY <2>3, <2>4, CloneKeeps
  <2>6. PICK c \in Ids :
          /\ Lowest(FreeIn(m), c)
          /\ mem' = FreeAll([m EXCEPT ![x] = p, ![c] = q], done)
          /\ wire' = Append(w, Frame(c, hdr.src))
    BY <1>1, <2>2, <2>4 DEF OutputSends
  <2>7. m[c] = Freed /\ c # x /\ c \notin done
    BY <2>6 DEF Lowest, FreeIn
  <2>8. PICK n : n = [m EXCEPT ![x] = p, ![c] = q]
    OBVIOUS
  <2>9. n[x] = p /\ n[c] = q /\ \A y \in Ids : y # x /\ y # c => n[y] = m[y]
    BY <2>7, <2>8
  <2>10. mem' = FreeAll(n, done) /\ pending' = pending
    BY <1>1, <2>6, <2>8 DEF OutputSends
  <2>11. mem'[x] = p /\ mem'[c] = q /\ \A y \in Ids : mem'[y] = Freed \/ mem'[y] = n[y]
    BY <2>7, <2>9, <2>10 DEF FreeAll
  <2>12. Freed0(done)
    BY <2>10 DEF FreeAll, Freed0
  <2>13. wire' = Append(w, [id |-> c, to |-> Peer(hdr.src)]) /\ Peer(hdr.src) \in Hosts
    BY <2>1, <2>6, PeerIsHost DEF Frame
  <2>14. \A y \in Ids : y # x /\ y # c => mem'[y] = Freed \/ mem'[y] = m[y]
    BY <2>9, <2>11
  <2>15. Output(m, w, x, m[x].body, hdr, c)
    BY <2>3, <2>5, <2>7, <2>10, <2>11, <2>13, <2>14 DEF Output
  <2>16. Handled(x, hdr, c)
    BY <2>4, <2>11 DEF Handled
  <2>. QED
    BY <2>12, <2>15, <2>16
<1>2. CASE OutputWaits(m, w, x, hdr, done)
  <2>1. PICK r \in Ids, c \in Ids, i \in PSlots :
          /\ Asks(m, hdr, r, c) /\ Lowest(FreeSlots(hdr.src), i)
          /\ pending' = [pending EXCEPT ![hdr.src][i] = Entry(x, hdr)]
          /\ mem' = FreeAll(Asked(m, hdr.src, r, c), done)
          /\ wire' = Append(w, Frame(c, hdr.src))
    BY <1>2 DEF OutputWaits
  <2>2. m[r] = Freed /\ m[c] = Freed /\ r # c /\ hdr.src \in Hosts /\ hdr \in Route
    BY <2>1, RoutableRoute DEF Asks, Lowest, FreeIn
  <2>3. pending[hdr.src][i] = Empty /\ i \in PSlots
    BY <2>1 DEF Lowest, FreeSlots
  <2>4. PICK f : f = ArpFrame(hdr.src)
    OBVIOUS
  <2>5. PICK g : g = Clone(ArpFrame(hdr.src))
    OBVIOUS
  <2>6. f.body.kind = "arp" /\ g # Freed /\ g.body.kind = "arp"
    BY <2>2, <2>4, <2>5, ArpFrameKeeps
  <2>7. Asked(m, hdr.src, r, c) = [m EXCEPT ![r] = f, ![c] = g]
    BY <2>4, <2>5 DEF Asked
  <2>8. PICK n : n = [m EXCEPT ![r] = f, ![c] = g]
    OBVIOUS
  <2>9. n[r] = f /\ n[c] = g /\ \A y \in Ids : y # r /\ y # c => n[y] = m[y]
    BY <2>2, <2>8
  <2>10. mem' = FreeAll(n, done) /\ wire' = Append(w, [id |-> c, to |-> Peer(hdr.src)])
    BY <2>1, <2>7, <2>8 DEF Frame
  <2>11. Peer(hdr.src) \in Hosts
    BY <2>2, PeerIsHost
  <2>12. x # r /\ x # c /\ c \notin done /\ n[x] = m[x]
    BY <2>2, <2>9
  <2>13. mem'[x] = m[x] /\ mem'[c] = g /\ \A y \in Ids : mem'[y] = Freed \/ mem'[y] = n[y]
    BY <2>9, <2>10, <2>12 DEF FreeAll
  <2>14. \A y \in Ids : y # x /\ y # c =>
            mem'[y] = Freed \/ mem'[y] = m[y] \/ (m[y] = Freed /\ mem'[y].body.kind = "arp")
    BY <2>2, <2>6, <2>9, <2>13
  <2>15. Freed0(done)
    BY <2>10 DEF FreeAll, Freed0
  <2>16. \A h \in Hosts, j \in PSlots :
            pending'[h][j] = IF h = hdr.src /\ j = i THEN Entry(x, hdr) ELSE pending[h][j]
    BY <2>1, <2>2, <2>3 DEF Queues
  <2>17. Output(m, w, x, m[x].body, hdr, c)
    BY <2>2, <2>3, <2>6, <2>10, <2>11, <2>12, <2>13, <2>14, <2>16 DEF Output
  <2>18. Handled(x, hdr, c)
    BY <2>2, <2>3, <2>16 DEF Handled
  <2>. QED
    BY <2>15, <2>17, <2>18
<1>. QED
  BY <1>1, <1>2 DEF Takes

\* The same for a packet made for the call, at an address that was free.
LEMMA SendOutput ==
    ASSUME NEW m \in [Ids -> Buffer \cup {Freed}], NEW w, cache \in Caches, pending \in Queues,
           NEW len \in Nat, NEW body \in Body, NEW hdr \in Request,
           NEW done, \A y \in done : y \in Ids /\ m[y] # Freed,
           Send(m, w, len, body, hdr, done)
    PROVE  /\ Freed0(done)
           /\ \/ mem' = FreeAll(m, done) /\ wire' = w /\ pending' = pending
              \/ \E x \in Ids : \E c : /\ m[x] = Freed /\ Output(m, w, x, body, hdr, c)
                                       /\ mem'[x] = Freed \/ Handled(x, hdr, c)
<1>1. CASE Failed(m, w, done, {})
  BY <1>1 DEF Failed, FreeAll, Freed0
<1>2. ASSUME NEW x \in Ids, Lowest(FreeIn(m), x),
             LET made == [m EXCEPT ![x] = Created(len, body)] IN
             Keeps(made, w, x, hdr, done, {x}) \/ Takes(made, w, x, hdr, done)
      PROVE  \E c : /\ m[x] = Freed /\ Output(m, w, x, body, hdr, c) /\ Freed0(done)
                    /\ mem'[x] = Freed \/ Handled(x, hdr, c)
  <2>1. m[x] = Freed /\ x \notin done
    BY <1>2 DEF Lowest, FreeIn
  <2>2. PICK p \in Buffer : p = Created(len, body)
    BY CreatedSound DEF Sound
  <2>3. p.body = body /\ p.hdr = NoQuote
    BY <2>2 DEF Created, NoQuote
  <2>4. PICK n \in [Ids -> Buffer \cup {Freed}] : n = [m EXCEPT ![x] = p]
    OBVIOUS
  <2>5. n[x] = p /\ \A y \in Ids : y # x => n[y] = m[y]
    BY <2>4
  <2>6. n[x] # Freed /\ \A y \in done : y \in Ids /\ n[y] # Freed
    BY <2>1, <2>5, FreedIsNoBuffer
  <2>7. Keeps(n, w, x, hdr, done, {x}) \/ Takes(n, w, x, hdr, done)
    BY <1>2, <2>2, <2>4
  <2>8. \E c : /\ Output(n, w, x, body, hdr, c) /\ Freed0(done)
               /\ mem'[x] = Freed \/ Handled(x, hdr, c)
    <3>1. CASE Keeps(n, w, x, hdr, done, {x})
      <4>1. \A y \in done \cup {x} : y \in Ids /\ n[y] # Freed
        BY <2>6
      <4>2. \E c : Output(n, w, x, n[x].body, hdr, c) /\ Freed0(done \cup {x})
        BY <2>3, <2>5, <2>6, <3>1, <4>1, KeepsOutput
      <4>. QED
        BY <2>3, <2>5, <4>2 DEF Freed0
    <3>2. CASE Takes(n, w, x, hdr, done)
      BY <2>1, <2>3, <2>5, <2>6, <3>2, TakesOutput
    <3>. QED
      BY <2>7, <3>1, <3>2
  <2>9. \A c : Output(n, w, x, body, hdr, c) => Output(m, w, x, body, hdr, c)
    BY <2>5 DEF Output
  <2>. QED
    BY <2>1, <2>8, <2>9
<1>. QED
  BY <1>1, <1>2 DEF Send

-----------------------------------------------------------------------------
(***************************************************************************)
(* arp_pending_flush and what arrives.                                     *)
(***************************************************************************)
\* What the flush of the slots waiting for adr leaves: the packets of `sent' with
\* the headers they waited for, and a clone of each; the others are freed.
Delivered(h, adr, sent, c) ==
    /\ \A i \in sent :
          /\ mem'[c[i]] # Freed
          /\ mem'[c[i]].body = mem[pending[h][i].id].body
          /\ mem'[c[i]].hdr = pending[h][i].hdr
    /\ \A y \in Ids : (\A i \in sent : c[i] # y) =>
          \/ mem'[y] = mem[y] /\ \A i \in Waiting(h, adr) : pending[h][i].id # y
          \/ mem'[y] = Freed
          \/ \E i \in sent :
                /\ pending[h][i].id = y /\ mem'[c[i]] = Clone(mem'[y])
                /\ mem'[y].body = mem[y].body /\ mem'[y].hdr = pending[h][i].hdr
    /\ \A y \in Ids :
          /\ \A i \in sent : c[i] # y
          /\ \A i \in Waiting(h, adr) : pending[h][i].id # y
          => mem'[y] = mem[y]

LEMMA FlushDelivers ==
    ASSUME Heap(mem, wire, pending, app), NEW h \in Hosts, NEW adr \in Dests,
           NEW mac \in Hosts,
           NEW sent \in SUBSET Sendable(h, adr), NEW c \in [sent -> Ids],
           Distinct(sent, c), mem' = Flushed(h, adr, mac, sent, c)
    PROVE  Delivered(h, adr, sent, c)
<1>1. ASSUME NEW i \in sent
      PROVE  /\ Framed(h, i, mac) \in Buffer
             /\ Framed(h, i, mac).body = mem[pending[h][i].id].body
             /\ Framed(h, i, mac).hdr = pending[h][i].hdr
  <2>1. i \in PSlots /\ pending[h][i] # Empty
        /\ HeadersFit(mem[pending[h][i].id], pending[h][i].hdr)
    BY DEF Sendable, Waiting
  <2>2. pending[h][i].id \in Ids /\ pending[h][i].hdr \in Route
    BY <2>1, HeapRefs
  <2>3. mem[pending[h][i].id] \in Buffer
    BY <2>1, <2>2 DEF Heap, Sound
  <2>. DEFINE p == mem[pending[h][i].id]
              q == pending[h][i].hdr
  <2>4. p \in Buffer /\ q \in Route /\ HeadersFit(p, q) /\ Framed(h, i, mac) = Tried(p, q, mac)
    BY <2>1, <2>2, <2>3 DEF Framed
  <2>5. Tried(p, q, mac) \in Buffer /\ Tried(p, q, mac).body = p.body
        /\ Tried(p, q, mac).hdr = q
    <3>. HIDE DEF p, q
    <3>. QED
      BY <2>4, TriedKeeps
  <2>. QED
    BY <2>4, <2>5
<1>2. ASSUME NEW i \in sent
      PROVE  mem'[c[i]] = Clone(Framed(h, i, mac))
  <2>1. (CHOOSE j \in sent : c[j] = c[i]) = i
    BY DEF Distinct
  <2>2. c[i] \in Ids
    OBVIOUS
  <2>. QED
    BY <2>1, <2>2 DEF Flushed
<1>3. ASSUME NEW y \in Ids, \A i \in sent : c[i] # y, NEW i \in sent, pending[h][i].id = y
      PROVE  mem'[y] = Framed(h, i, mac)
  <2>1. PICK j \in sent : j = CHOOSE k \in sent : pending[h][k].id = y
    BY <1>3
  <2>2. pending[h][j].id = y
    BY <1>3, <2>1
  <2>3. i \in PSlots /\ pending[h][i] # Empty /\ j \in PSlots /\ pending[h][j] # Empty
    BY DEF Sendable, Waiting
  <2>4. i = j
    BY <1>3, <2>2, <2>3 DEF Heap
  <2>. QED
    BY <1>3, <2>1, <2>4 DEF Flushed
<1>4. ASSUME NEW y \in Ids, \A i \in sent : c[i] # y, \A i \in sent : pending[h][i].id # y
      PROVE  \/ mem'[y] = mem[y] /\ \A i \in Waiting(h, adr) : pending[h][i].id # y
             \/ mem'[y] = Freed /\ \E i \in Waiting(h, adr) : pending[h][i].id = y
  BY <1>4 DEF Flushed
<1>5. \A i \in sent :
         /\ mem'[c[i]] # Freed
         /\ mem'[c[i]].body = mem[pending[h][i].id].body
         /\ mem'[c[i]].hdr = pending[h][i].hdr
  BY <1>1, <1>2, CloneKeeps
<1>6. ASSUME NEW y \in Ids, \A i \in sent : c[i] # y
      PROVE  \/ mem'[y] = mem[y] /\ \A i \in Waiting(h, adr) : pending[h][i].id # y
             \/ mem'[y] = Freed
             \/ \E i \in sent :
                   /\ pending[h][i].id = y /\ mem'[c[i]] = Clone(mem'[y])
                   /\ mem'[y].body = mem[y].body /\ mem'[y].hdr = pending[h][i].hdr
  <2>1. ASSUME NEW i \in sent, pending[h][i].id = y
        PROVE  /\ mem'[c[i]] = Clone(mem'[y])
               /\ mem'[y].body = mem[y].body /\ mem'[y].hdr = pending[h][i].hdr
    BY <1>1, <1>2, <1>3, <1>6, <2>1
  <2>. QED
    BY <1>4, <1>6, <2>1
<1>7. sent \subseteq Waiting(h, adr)
  BY DEF Sendable
<1>. QED
  BY <1>4, <1>5, <1>6, <1>7 DEF Delivered

\* The elements of a concatenation.
LEMMA ConcatElements ==
    ASSUME NEW F, NEW w \in Seq(F), NEW b \in Seq(F), NEW v, v = w \o b
    PROVE  /\ \A k \in DOMAIN v :
                 (k \in DOMAIN w /\ v[k] = w[k]) \/ \E l \in DOMAIN b : v[k] = b[l]
           /\ \A k \in DOMAIN w : k \in DOMAIN v /\ v[k] = w[k]
           /\ \A l \in DOMAIN b : Len(w) + l \in DOMAIN v /\ v[Len(w) + l] = b[l]
<1>1. /\ v \in Seq(F) /\ Len(v) = Len(w) + Len(b)
      /\ \A k \in 1 .. Len(w) + Len(b) : v[k] = IF k <= Len(w) THEN w[k] ELSE b[k - Len(w)]
  BY ConcatProperties
<1>2. /\ Len(w) \in Nat /\ DOMAIN w = 1 .. Len(w) /\ Len(b) \in Nat /\ DOMAIN b = 1 .. Len(b)
      /\ DOMAIN v = 1 .. Len(w) + Len(b)
  BY <1>1, LenProperties
<1>3. ASSUME NEW k \in DOMAIN v
      PROVE  (k \in DOMAIN w /\ v[k] = w[k]) \/ \E l \in DOMAIN b : v[k] = b[l]
  <2>1. CASE k <= Len(w)
    BY <1>1, <1>2, <2>1
  <2>2. CASE ~(k <= Len(w))
    <3>1. k \in 1 .. Len(w) + Len(b)
      BY <1>2
    <3>2. k - Len(w) \in DOMAIN b
      BY <1>2, <2>2, <3>1
    <3>3. v[k] = b[k - Len(w)]
      BY <1>1, <2>2, <3>1
    <3>. QED
      BY <3>2, <3>3
  <2>. QED
    BY <2>1, <2>2
<1>4. \A k \in DOMAIN w : k \in DOMAIN v /\ v[k] = w[k]
  BY <1>1, <1>2
<1>5. ASSUME NEW l \in DOMAIN b PROVE Len(w) + l \in DOMAIN v /\ v[Len(w) + l] = b[l]
  <2>1. PICK k \in Nat : k = Len(w) + l
    BY <1>2
  <2>2. k \in DOMAIN v /\ ~(k <= Len(w)) /\ k - Len(w) = l
    BY <1>2, <2>1
  <2>3. v[k] = b[l]
    BY <1>1, <1>2, <2>2
  <2>. QED
    BY <2>1, <2>2, <2>3
<1>. QED
  BY <1>3, <1>4, <1>5

\* arp_reply_handler, as the properties below look at it.
LEMMA FlushEffect ==
    ASSUME Heap(mem, wire, pending, app), NEW h \in Hosts, NEW adr \in Dests,
           NEW mac \in Hosts, Flush(h, adr, mac)
    PROVE  \E sent \in SUBSET Waiting(h, adr) : \E c \in [sent -> Ids] :
              /\ Distinct(sent, c) /\ Fresh(h, adr, sent, c) /\ Delivered(h, adr, sent, c)
              /\ \A y : y \in OnWire' <=> y \in OnWire \/ \E i \in sent : c[i] = y
              /\ \A g \in Hosts, j \in PSlots :
                    pending'[g][j] = IF g = h /\ j \in Waiting(h, adr) THEN Empty ELSE pending[g][j]
<1>1. PICK sent \in SUBSET Sendable(h, adr) :
        \E c \in [sent -> Ids], q \in [1 .. Cardinality(sent) -> sent] :
        /\ ClonedTo(h, adr, sent, c) /\ Increasing(q)
        /\ mem' = Flushed(h, adr, mac, sent, c)
        /\ wire' = wire \o [k \in 1 .. Cardinality(sent) |-> Frame(c[q[k]], h)]
        /\ pending' = [pending EXCEPT ![h] =
              [i \in PSlots |-> IF i \in Waiting(h, adr) THEN Empty ELSE pending[h][i]]]
  BY DEF Flush
<1>2. sent \subseteq PSlots
  BY DEF Sendable, Waiting
<1>3. IsFiniteSet(sent) /\ Cardinality(sent) \in Nat
  <2>0. 1 \in Int /\ MaxPending \in Int
    BY HostsAssumption
  <2>1. IsFiniteSet(PSlots)
    BY <2>0, FS_Interval DEF PSlots
  <2>. QED
    BY <1>2, <2>1, FS_Subset, FS_CardinalityType
<1>4. PICK N \in Nat : N = Cardinality(sent)
  BY <1>3
<1>5. PICK c \in [sent -> Ids], q \in [1 .. N -> sent] :
        /\ ClonedTo(h, adr, sent, c) /\ Increasing(q)
        /\ mem' = Flushed(h, adr, mac, sent, c)
        /\ wire' = wire \o [k \in 1 .. N |-> Frame(c[q[k]], h)]
        /\ pending' = [pending EXCEPT ![h] =
              [i \in PSlots |-> IF i \in Waiting(h, adr) THEN Empty ELSE pending[h][i]]]
  BY <1>1, <1>4
<1>6. /\ ClonedTo(h, adr, sent, c) /\ mem' = Flushed(h, adr, mac, sent, c)
      /\ wire' = wire \o [k \in 1 .. N |-> Frame(c[q[k]], h)]
  BY <1>5
<1>7. Distinct(sent, c) /\ Fresh(h, adr, sent, c)
  BY <1>6, ClonesFresh
<1>8. Delivered(h, adr, sent, c)
  BY <1>6, <1>7, FlushDelivers
<1>9. \A g \in Hosts, j \in PSlots :
         pending'[g][j] = IF g = h /\ j \in Waiting(h, adr) THEN Empty ELSE pending[g][j]
  BY <1>5 DEF Heap
<1>10. \A i \in sent : \E k \in 1 .. N : q[k] = i
  <2>1. \A i, j \in 1 .. N : i < j => q[i] < q[j]
    BY <1>5 DEF Increasing
  <2>2. \A i \in 1 .. N : q[i] \in Int
    <3>1. PSlots \subseteq Int
      BY DEF PSlots
    <3>2. \A i \in 1 .. N : q[i] \in sent
      OBVIOUS
    <3>. QED
      BY <1>2, <3>1, <3>2
  <2>3. \A i, j \in 1 .. N : q[i] = q[j] => i = j
    BY <2>1, <2>2
  <2>4. q \in Injection(1 .. N, sent)
    BY <2>3 DEF Injection, IsInjective
  <2>5. 1 \in Int /\ N \in Int
    OBVIOUS
  <2>6. IsFiniteSet(1 .. N) /\ Cardinality(1 .. N) = IF 1 > N THEN 0 ELSE N - 1 + 1
    BY <2>5, FS_Interval
  <2>7. Cardinality(1 .. N) = Cardinality(sent)
    BY <1>4, <2>6
  <2>8. q \in Surjection(1 .. N, sent)
    BY <1>3, <2>4, <2>7, FS_Injection
  <2>. QED
    BY <2>8 DEF Surjection
<1>11. \A y : y \in OnWire' <=> y \in OnWire \/ \E i \in sent : c[i] = y
  <2> DEFINE Frames == [id : Ids, to : Hosts]
  <2>1. wire \in Seq(Frames)
    BY DEF Heap
  <2> HIDE DEF Frames
  <2>2. /\ \A k \in DOMAIN wire' :
              (k \in DOMAIN wire /\ wire'[k].id = wire[k].id) \/ \E i \in sent : wire'[k].id = c[i]
        /\ \A k \in DOMAIN wire : k \in DOMAIN wire' /\ wire'[k].id = wire[k].id
        /\ \A i \in sent : \E k \in DOMAIN wire' : wire'[k].id = c[i]
    <3>1. PICK b : b = [k \in 1 .. N |-> Frame(c[q[k]], h)]
      OBVIOUS
    <3>2. b \in [1 .. N -> Frames] /\ \A k \in 1 .. N : b[k].id = c[q[k]]
      BY <3>1, PeerIsHost DEF Frame, Frames
    <3>3. b \in Seq(Frames) /\ DOMAIN b = 1 .. N
      BY <3>2
    <3>4. PICK v : v = wire'
      OBVIOUS
    <3>5. v = wire \o b
      BY <1>6, <3>1, <3>4
    <3>6. /\ \A k \in DOMAIN v :
                (k \in DOMAIN wire /\ v[k] = wire[k]) \/ \E l \in DOMAIN b : v[k] = b[l]
          /\ \A k \in DOMAIN wire : k \in DOMAIN v /\ v[k] = wire[k]
          /\ \A l \in DOMAIN b : \E k \in DOMAIN v : v[k] = b[l]
      <4>1. b \in Seq(Frames)
        BY <3>3
      <4>2. \A k \in DOMAIN v :
                (k \in DOMAIN wire /\ v[k] = wire[k]) \/ \E l \in DOMAIN b : v[k] = b[l]
        BY <2>1, <4>1, <3>5, ConcatElements
      <4>3. \A k \in DOMAIN wire : k \in DOMAIN v /\ v[k] = wire[k]
        BY <2>1, <4>1, <3>5, ConcatElements
      <4>4. \A l \in DOMAIN b : Len(wire) + l \in DOMAIN v /\ v[Len(wire) + l] = b[l]
        BY <2>1, <4>1, <3>5, ConcatElements
      <4>. QED
        BY <4>2, <4>3, <4>4
    <3>7. /\ \A k \in DOMAIN v :
                (k \in DOMAIN wire /\ v[k].id = wire[k].id) \/ \E i \in sent : v[k].id = c[i]
          /\ \A k \in DOMAIN wire : k \in DOMAIN v /\ v[k].id = wire[k].id
      <4>1. \A l \in DOMAIN b : \E i \in sent : b[l].id = c[i]
        BY <3>2, <3>3
      <4>. QED
        BY <3>6, <4>1
    <3>8. ASSUME NEW i \in sent PROVE \E k \in DOMAIN v : v[k].id = c[i]
      <4>1. PICK l \in 1 .. N : q[l] = i
        BY <1>10
      <4>2. b[l].id = c[i] /\ l \in DOMAIN b
        BY <3>2, <3>3, <4>1
      <4>. QED
        BY <3>6, <4>2
    <3>. QED
      BY <3>4, <3>7, <3>8
  <2>. QED
    BY <2>2 DEF OnWire
<1>12. sent \in SUBSET Waiting(h, adr)
  BY DEF Sendable
<1>. QED
  BY <1>7, <1>8, <1>9, <1>11, <1>12

\* The two strips on the way up move the data only.
LEMMA OpenedKeeps ==
    ASSUME Heap(mem, wire, pending, app), Arrives, Raw.body.kind # "arp"
    PROVE  Opened.body = Raw.body /\ Opened.hdr = Raw.hdr
<1>1. Sendworthy(Raw)
  BY ArriveKeepsHeap DEF Arrives, First, Raw
<1>2. Raw \in Buffer /\ Raw.len >= 34
  BY <1>1 DEF Sendworthy, Sound, EthHdrLen, IpHdrLen
<1>3. PICK r \in Buffer : r = Stripped(Raw, EthHdrLen)
  BY <1>2, StrippedFields DEF CanStrip, EthHdrLen, Buffer
<1>4. r.len = Raw.len - 14 /\ r.hdr = Raw.hdr /\ r.body = Raw.body
  BY <1>2, <1>3, StrippedFields DEF CanStrip, EthHdrLen, Buffer
<1>5. PICK q \in Buffer : q = Stripped(r, IpHdrLen)
  BY <1>2, <1>3, <1>4, StrippedFields DEF CanStrip, IpHdrLen, Buffer
<1>6. q.hdr = r.hdr /\ q.body = r.body
  BY <1>2, <1>3, <1>4, <1>5, StrippedFields DEF CanStrip, IpHdrLen, Buffer
<1>. QED
  BY <1>3, <1>4, <1>5, <1>6 DEF Opened

-----------------------------------------------------------------------------
(***************************************************************************)
(* ICMP errors.                                                            *)
(***************************************************************************)
\* The header that an error may be given: to the sender of what it quotes.
Fits(body, hdr) ==
    body.kind = "error" => hdr.proto = "ICMP" /\ hdr.dst = body.quote.src

Answers(p) ==
    /\ p.body.kind = "error" => p.body.about # "error"
    /\ p.hdr = NoQuote \/ Fits(p.body, p.hdr)

\* What makes ErrorGoesBack inductive: an error that waits for ARP waits with the
\* right header; and the application can send again only what has no ICMP header,
\* for an error that it was given came with its header behind the data.
Back(m, pd, a) ==
    /\ \A x \in Ids : m[x] # Freed => Answers(m[x])
    /\ \A h \in Hosts, i \in PSlots :
          pd[h][i] # Empty => Fits(m[pd[h][i].id].body, pd[h][i].hdr)
    /\ \A x \in a : m[x].body.kind = "raw" \/ IpBehind(m[x])

\* ip_output of anything but an error that went astray.
LEMMA OutputBack ==
    ASSUME NEW m, NEW w, Heap(m, w, pending, app), Heap(mem', wire', pending', app'),
           app' \subseteq app, Back(m, pending, app),
           NEW x \in Ids, NEW body, NEW hdr, NEW c,
           m[x] = Freed \/ (x \in app /\ body.kind = "raw"),
           body.kind = "error" => body.about # "error", Fits(body, hdr),
           Output(m, w, x, body, hdr, c)
    PROVE  Back(mem', pending', app')
<1>1. \A y \in Ids : mem'[y] # Freed => Answers(mem'[y])
  <2> SUFFICES ASSUME NEW y \in Ids, mem'[y] # Freed PROVE Answers(mem'[y])
    OBVIOUS
  <2>1. CASE y = x
    BY <2>1 DEF Output, Answers, Fits
  <2>2. CASE y # x /\ y = c
    BY <2>2, NoZero DEF Output, Answers, Fits
  <2>3. CASE y # x /\ y # c
    BY <2>3 DEF Output, Answers, Fits, Back
  <2>. QED
    BY <2>1, <2>2, <2>3
<1>2. ASSUME NEW y \in Ids, m[y] # Freed, mem'[y] # Freed, y # x
      PROVE  mem'[y] = m[y]
  BY <1>2, NoZero DEF Output
<1>3. ASSUME NEW h \in Hosts, NEW i \in PSlots, pending'[h][i] # Empty
      PROVE  Fits(mem'[pending'[h][i].id].body, pending'[h][i].hdr)
  <2>1. mem'[pending'[h][i].id] # Freed
    BY <1>3 DEF Heap
  <2>2. CASE pending'[h][i] = pending[h][i]
    <3>1. pending[h][i].id \in Ids /\ m[pending[h][i].id] # Freed /\ pending[h][i].id \notin app
      BY <1>3, <2>2, HeapRefs DEF Heap
    <3>2. mem'[pending[h][i].id] = m[pending[h][i].id]
      BY <1>2, <2>1, <2>2, <3>1
    <3>. QED
      BY <1>3, <2>2, <3>2 DEF Back
  <2>3. CASE pending'[h][i] = Entry(x, hdr)
    <3>1. pending'[h][i].id = x /\ pending'[h][i].hdr = hdr
      BY <2>3 DEF Entry
    <3>2. mem'[x].body = body
      BY <2>1, <3>1 DEF Output
    <3>. QED
      BY <3>1, <3>2
  <2>. QED
    BY <2>2, <2>3 DEF Output
<1>4. ASSUME NEW y \in app'
      PROVE  mem'[y].body.kind = "raw" \/ IpBehind(mem'[y])
  <2>1. y \in Ids /\ y \in app /\ m[y] # Freed /\ mem'[y] # Freed
    BY DEF Heap
  <2>2. CASE y = x
    BY <2>1, <2>2 DEF Output
  <2>3. CASE y # x
    BY <1>2, <2>1, <2>3 DEF Back
  <2>. QED
    BY <2>2, <2>3
<1>. QED
  BY <1>1, <1>3, <1>4 DEF Back

\* Freeing, and what a handler does to the packet that arrived, disturb nothing.
LEMMA BackKept ==
    ASSUME NEW m, NEW w, NEW pd, NEW a, Heap(m, w, pd, a), Back(m, pd, a),
           NEW n, NEW v, NEW b, Heap(n, v, pd, b), b \subseteq a,
           \A y \in Ids : \/ n[y] = Freed \/ n[y] = m[y]
                          \/ Loose(y, v, pd, b) /\ Answers(n[y])
    PROVE  Back(n, pd, b)
<1>1. \A y \in Ids : n[y] # Freed => Answers(n[y])
  BY DEF Back
<1>2. ASSUME NEW h \in Hosts, NEW i \in PSlots, pd[h][i] # Empty
      PROVE  Fits(n[pd[h][i].id].body, pd[h][i].hdr)
  <2>1. pd[h][i].id \in Ids /\ n[pd[h][i].id] # Freed
    BY <1>2, HeapRefs DEF Heap
  <2>2. ~Loose(pd[h][i].id, v, pd, b)
    BY <1>2 DEF Loose, OffStack
  <2>3. n[pd[h][i].id] = m[pd[h][i].id]
    BY <2>1, <2>2
  <2>. QED
    BY <1>2, <2>3 DEF Back
<1>3. ASSUME NEW y \in b
      PROVE  n[y].body.kind = "raw" \/ IpBehind(n[y])
  <2>1. y \in Ids /\ n[y] # Freed /\ ~Loose(y, v, pd, b)
    BY DEF Heap, Loose
  <2>. QED
    BY <2>1 DEF Back
<1>. QED
  BY <1>1, <1>2, <1>3 DEF Back

\* A packet that is made and sent.
LEMMA SendBack ==
    ASSUME NEW m, NEW w, Heap(m, w, pending, app), Heap(mem', wire', pending', app'),
           app' = app, Back(m, pending, app), cache \in Caches,
           NEW len \in Nat, NEW body \in Body, NEW hdr \in Request,
           body.kind = "error" => body.about # "error", Fits(body, hdr),
           NEW done, Idle(done, m, w, pending, app),
           Send(m, w, len, body, hdr, done)
    PROVE  Back(mem', pending', app')
<1>1. m \in [Ids -> Buffer \cup {Freed}] /\ pending \in Queues
  BY DEF Heap, Queues
<1>2. \A y \in done : y \in Ids /\ m[y] # Freed
  BY DEF Idle, Loose
<1>3. \/ mem' = FreeAll(m, done) /\ wire' = w /\ pending' = pending
      \/ \E x \in Ids : \E c : m[x] = Freed /\ Output(m, w, x, body, hdr, c)
  BY <1>1, <1>2, SendOutput
<1>4. CASE mem' = FreeAll(m, done) /\ wire' = w /\ pending' = pending
  <2>1. \A y \in Ids : mem'[y] = Freed \/ mem'[y] = m[y]
    BY <1>4 DEF FreeAll
  <2>. QED
    BY <1>4, <2>1, BackKept
<1>5. ASSUME NEW x \in Ids, NEW c, m[x] = Freed, Output(m, w, x, body, hdr, c)
      PROVE  Back(mem', pending', app')
  BY <1>5, OutputBack
<1>. QED
  BY <1>3, <1>4, <1>5

\* Slots that are flushed held the right headers.
LEMMA FlushBack ==
    ASSUME Heap(mem, wire, pending, app), Heap(mem', wire', pending', app'),
           app' = app, Back(mem, pending, app),
           NEW h \in Hosts, NEW adr \in Dests, NEW mac \in Hosts, Flush(h, adr, mac)
    PROVE  Back(mem', pending', app')
<1>0. PICK sent \in SUBSET Waiting(h, adr) : \E c \in [sent -> Ids] :
        /\ Distinct(sent, c) /\ Fresh(h, adr, sent, c) /\ Delivered(h, adr, sent, c)
        /\ \A g \in Hosts, j \in PSlots :
              pending'[g][j] = IF g = h /\ j \in Waiting(h, adr) THEN Empty ELSE pending[g][j]
  BY FlushEffect
<1>1. PICK c \in [sent -> Ids] :
        /\ Distinct(sent, c) /\ Fresh(h, adr, sent, c) /\ Delivered(h, adr, sent, c)
        /\ \A g \in Hosts, j \in PSlots :
              pending'[g][j] = IF g = h /\ j \in Waiting(h, adr) THEN Empty ELSE pending[g][j]
  BY <1>0
<1>2. \A i \in Waiting(h, adr) : i \in PSlots /\ pending[h][i] # Empty
  BY DEF Waiting
<1>3. ASSUME NEW i \in Waiting(h, adr)
      PROVE  /\ Fits(mem[pending[h][i].id].body, pending[h][i].hdr)
             /\ Answers(mem[pending[h][i].id])
  <2>1. pending[h][i].id \in Ids /\ mem[pending[h][i].id] # Freed
    BY <1>2, HeapRefs DEF Heap
  <2>2. Fits(mem[pending[h][i].id].body, pending[h][i].hdr)
    BY <1>2 DEF Back
  <2>3. Answers(mem[pending[h][i].id])
    BY <2>1 DEF Back
  <2>. QED
    BY <2>2, <2>3
<1>4. ASSUME NEW y \in Ids, mem'[y] # Freed PROVE Answers(mem'[y])
  <2>1. CASE \E i \in sent : c[i] = y
    <3>1. PICK i \in sent : c[i] = y
      BY <2>1
    <3>2. /\ mem'[y].body = mem[pending[h][i].id].body
          /\ mem'[y].hdr = pending[h][i].hdr
      BY <1>1, <3>1 DEF Delivered
    <3>3. /\ Fits(mem[pending[h][i].id].body, pending[h][i].hdr)
          /\ Answers(mem[pending[h][i].id])
      BY <1>3
    <3>. QED
      BY <3>2, <3>3 DEF Answers
  <2>2. CASE \A i \in sent : c[i] # y
    <3>1. ASSUME NEW i \in sent, pending[h][i].id = y,
                 mem'[y].body = mem[y].body /\ mem'[y].hdr = pending[h][i].hdr
          PROVE  Answers(mem'[y])
      BY <1>3, <3>1 DEF Answers, Fits
    <3>2. CASE mem'[y] = mem[y]
      BY <1>4, <3>2 DEF Back
    <3>. QED
      BY <1>1, <1>4, <2>2, <3>1, <3>2 DEF Delivered
  <2>. QED
    BY <2>1, <2>2
<1>5. ASSUME NEW y \in Ids, \A i \in sent : c[i] # y,
             \A i \in Waiting(h, adr) : pending[h][i].id # y
      PROVE  mem'[y] = mem[y]
  BY <1>1, <1>5 DEF Delivered
<1>6. ASSUME NEW g \in Hosts, NEW j \in PSlots, pending'[g][j] # Empty
      PROVE  Fits(mem'[pending'[g][j].id].body, pending'[g][j].hdr)
  <2>1. /\ pending'[g][j] = pending[g][j] /\ pending[g][j] # Empty
        /\ ~(g = h /\ j \in Waiting(h, adr))
    BY <1>1, <1>6
  <2>2. pending[g][j].id \in Ids /\ \A i \in sent : c[i] # pending[g][j].id
    BY <1>1, <2>1, HeapRefs DEF Fresh
  <2>3. \A i \in Waiting(h, adr) : pending[h][i].id # pending[g][j].id
    BY <1>2, <2>1 DEF Heap
  <2>4. mem'[pending[g][j].id] = mem[pending[g][j].id]
    BY <1>5, <2>2, <2>3
  <2>. QED
    BY <2>1, <2>4 DEF Back
<1>7. ASSUME NEW y \in app'
      PROVE  mem'[y].body.kind = "raw" \/ IpBehind(mem'[y])
  <2>1. y \in app /\ y \in Ids
    BY DEF Heap
  <2>2. \A i \in sent : c[i] # y
    BY <1>1, <2>1 DEF Fresh
  <2>3. \A i \in Waiting(h, adr) : pending[h][i].id # y
    BY <1>2, <2>1 DEF Heap
  <2>. QED
    BY <1>5, <2>1, <2>2, <2>3 DEF Back
<1>. QED
  BY <1>4, <1>6, <1>7 DEF Back

\* icmp_send_error: of an ICMP message it sees the protocol in the header and the
\* type in the payload, for every error on this link has a header.
LEMMA IcmpErrorBack ==
    ASSUME NEW m, NEW w, Heap(m, w, pending, app), Heap(mem', wire', pending', app'),
           app' = app, Back(m, pending, app), cache \in Caches,
           NEW h \in Hosts, NEW p, Sound(p), IpBehind(p), Answers(p), IcmpError(m, w, h, p)
    PROVE  Back(mem', pending', app')
<1>1. CASE Failed(m, w, {}, {})
  <2>1. \A y \in Ids : mem'[y] = Freed \/ mem'[y] = m[y]
    BY <1>1 DEF FreeAll, Failed
  <2>. QED
    BY <1>1, <2>1, BackKept DEF Failed
<1>2. CASE /\ ~IsSuppressed(p)
           /\ Send(m, w, IcmpHdrLen + IpHdrLen + (IF p.len < QuoteLen THEN p.len ELSE QuoteLen),
                ErrorBody(p),
                [proto |-> "ICMP", src |-> h, dst |-> HeaderRead(p).src], {})
  <2>1. IcmpHdrLen + IpHdrLen + (IF p.len < QuoteLen THEN p.len ELSE QuoteLen) \in Nat
    BY DEF IcmpHdrLen, IpHdrLen, QuoteLen, Sound, Buffer
  <2>2. HeaderRead(p) \in Route /\ HeaderRead(p) \in Header /\ HeaderRead(p).src \in Dests
    BY BehindIsRoute DEF Header
  <2>3. HeaderRead(p) = p.hdr
    BY DEF HeaderRead
  <2>4. p.body.kind # "error"
    <3>1. p.hdr # NoQuote
      BY <2>2, <2>3 DEF Route, Protos, NoQuote
    <3>2. p.body.kind = "error" => p.hdr.proto = "ICMP"
      BY <3>1 DEF Answers, Fits
    <3>. QED
      BY <1>2, <2>3, <3>2 DEF IsSuppressed
  <2>5. PICK b \in Body : b = Plain("error")
    BY PlainBody DEF Kinds
  <2>6. p.body.kind \in Kinds
    BY DEF Sound, Buffer
  <2>7. PICK e \in Body : e = ErrorBody(p)
    BY <2>2, <2>5, <2>6 DEF ErrorBody, Body
  <2>8. e.quote = HeaderRead(p) /\ e.about = p.body.kind
    BY <2>2, <2>5, <2>6, <2>7 DEF ErrorBody, Body
  <2>9. PICK hdr \in Request : hdr = [proto |-> "ICMP", src |-> h, dst |-> HeaderRead(p).src]
    <3>1. h \in Dests
      BY HostsAreDests
    <3>. QED
      BY <2>2, <3>1 DEF Request, Protos
  <2>10. hdr.proto = "ICMP" /\ hdr.dst = HeaderRead(p).src
    BY <2>9
  <2>11. Idle({}, m, w, pending, app)
    BY DEF Idle
  <2>12. Send(m, w, IcmpHdrLen + IpHdrLen + (IF p.len < QuoteLen THEN p.len ELSE QuoteLen), e, hdr, {})
    BY <1>2, <2>7, <2>9
  <2>13. Fits(e, hdr) /\ e.about # "error"
    BY <2>4, <2>8, <2>10 DEF Fits
  <2>. QED
    BY <2>1, <2>11, <2>12, <2>13, SendBack
<1>. QED
  BY <1>1, <1>2 DEF IcmpError

\* The way up the stack.
LEMMA DispatchBack ==
    ASSUME Heap(mem, wire, pending, app), Heap(mem', wire', pending', app'),
           Back(mem, pending, app), cache \in Caches, Dispatch
    PROVE  Back(mem', pending', app')
<1>1. Arrives
  BY DEF Dispatch
<1>2. /\ Heap(mem, Rest, pending, app)
      /\ Loose(First.id, Rest, pending, app) /\ mem[First.id] # Freed /\ Here \in Hosts
  BY <1>1, ArrivalHeap
<1>3. ASSUME Raw.body.kind # "arp"
      PROVE  /\ Heap(OpenedMem, Rest, pending, app)
             /\ OpenedMem[First.id] = Opened /\ Opened # Freed
             /\ Sound(Opened) /\ IpBehind(Opened)
             /\ Answers(Opened) /\ Back(OpenedMem, pending, app)
  <2>1. /\ Heap(OpenedMem, Rest, pending, app)
        /\ OpenedMem[First.id] = Opened /\ Opened # Freed
        /\ Sound(Opened) /\ IpBehind(Opened)
    BY <1>1, <1>3, ArrivalHeap
  <2>2. Opened.body = Raw.body /\ Opened.hdr = Raw.hdr
    BY <1>1, <1>3, OpenedKeeps
  <2>3. First.id \in Ids
    BY <1>2 DEF Loose
  <2>4. Answers(Raw)
    BY <1>2, <2>3 DEF Back, Raw
  <2>5. Answers(Opened)
    BY <2>2, <2>4 DEF Answers
  <2>6. \A y \in Ids : y # First.id => OpenedMem[y] = mem[y]
    BY DEF Heap, OpenedMem
  <2>7. \A y \in Ids : OpenedMem[y] = mem[y] \/ (Loose(y, Rest, pending, app) /\ Answers(OpenedMem[y]))
    BY <1>2, <2>1, <2>5, <2>6
  <2>8. Back(OpenedMem, pending, app)
    BY <2>1, <2>7, BackKept
  <2>. QED
    BY <2>1, <2>5, <2>8
<1>4. ASSUME mem' = FreeAll(mem, {First.id}) \/ mem' = mem, pending' = pending, app' = app
      PROVE  Back(mem', pending', app')
  <2>1. \A y \in Ids : mem'[y] = Freed \/ mem'[y] = mem[y]
    BY <1>4 DEF FreeAll
  <2>. QED
    BY <1>4, <2>1, BackKept
<1>5. CASE Refuse \/ NotIp \/ IcmpConsumes \/ UdpMalformed
  BY <1>4, <1>5 DEF Refuse, NotIp, IcmpConsumes, UdpMalformed, Nothing
<1>6. CASE Unhandled
  BY <1>3, <1>6 DEF Unhandled, IsFor, Nothing
<1>7. CASE AppHandler
  <2>1. Back(OpenedMem, pending, app) /\ IpBehind(OpenedMem[First.id])
    BY <1>3, <1>7 DEF AppHandler, IsFor
  <2>2. mem' = OpenedMem /\ app' = app \cup {First.id} /\ pending' = pending
    BY <1>7 DEF AppHandler
  <2>. QED
    BY <2>1, <2>2 DEF Back
<1>8. CASE EchoReply
  <2>1. /\ Heap(OpenedMem, Rest, pending, app) /\ OpenedMem[First.id] # Freed
        /\ Sound(Opened) /\ IpBehind(Opened) /\ Back(OpenedMem, pending, app)
    BY <1>3, <1>8 DEF EchoReply, IsFor
  <2>2. Idle({First.id}, OpenedMem, Rest, pending, app)
    BY <1>2, <2>1 DEF Idle
  <2>3. Opened.len \in Nat /\ Plain("reply") \in Body /\ Plain("reply").kind = "reply"
    BY <2>1, PlainBody DEF Sound, Buffer, Kinds
  <2>4. ReplyHeader(Opened) \in Request
    BY <2>1, BehindIsRoute DEF ReplyHeader, Request, Protos
  <2>5. /\ Send(OpenedMem, Rest, Opened.len, Plain("reply"), ReplyHeader(Opened), {First.id})
        /\ app' = app
    BY <1>8 DEF EchoReply
  <2>6. Fits(Plain("reply"), ReplyHeader(Opened)) /\ Plain("reply").kind # "error"
    BY <2>3 DEF Fits
  <2>. QED
    BY <2>1, <2>2, <2>3, <2>4, <2>5, <2>6, SendBack
<1>9. CASE UdpDelivers
  <2>1. /\ Heap(OpenedMem, Rest, pending, app) /\ OpenedMem[First.id] = Opened
        /\ Sound(Opened) /\ Opened.len >= UdpHdrLen /\ Back(OpenedMem, pending, app)
    BY <1>3, <1>9 DEF UdpDelivers, IsFor, IsDatagram
  <2>2. /\ mem' = Handed(OpenedMem, First.id) /\ app' = app \cup {First.id}
        /\ pending' = pending /\ wire' = Rest
    BY <1>9 DEF UdpDelivers
  <2>3. PICK b \in Body : b = Plain("raw") /\ b.kind = "raw"
    BY PlainBody DEF Kinds
  <2>4. PICK q \in Buffer : q = Stripped(Opened, UdpHdrLen)
    BY <2>1, StrippedFields DEF CanStrip, UdpHdrLen, Sound, Buffer
  <2>5. PICK p : p = [q EXCEPT !.body = b]
    OBVIOUS
  <2>6. p.body = b /\ Answers(p)
    BY <2>3, <2>4, <2>5 DEF Buffer, Answers, Fits, Plain
  <2>7. mem' = [OpenedMem EXCEPT ![First.id] = p]
    BY <2>1, <2>2, <2>3, <2>4, <2>5 DEF Handed
  <2>8. First.id \in Ids
    BY <1>2 DEF Loose
  <2>9. mem'[First.id] = p /\ \A y \in Ids : y # First.id => mem'[y] = OpenedMem[y]
    BY <2>1, <2>7, <2>8 DEF Heap
  <2>10. Back(mem', pending, app)
    <3>1. \A y \in Ids : \/ mem'[y] = OpenedMem[y]
                         \/ Loose(y, Rest, pending, app) /\ Answers(mem'[y])
      BY <1>2, <2>6, <2>9
    <3>2. Heap(mem', Rest, pending, app)
      <4>1. app \subseteq app'
        BY <2>2
      <4>. QED
        BY <2>2, <4>1 DEF Heap
    <3>. QED
      BY <2>1, <3>1, <3>2, BackKept
  <2>. QED
    BY <2>2, <2>3, <2>6, <2>9, <2>10 DEF Back
<1>10. CASE UdpUnreachable
  <2>1. /\ Heap(OpenedMem, Rest, pending, app) /\ Sound(Opened) /\ IpBehind(Opened)
        /\ Answers(Opened) /\ Back(OpenedMem, pending, app)
    BY <1>3, <1>10 DEF UdpUnreachable, IsFor
  <2>2. IcmpError(OpenedMem, Rest, Here, Opened) /\ app' = app
    BY <1>10 DEF UdpUnreachable
  <2>. QED
    BY <1>2, <2>1, <2>2, IcmpErrorBack
<1>. QED
  BY <1>5, <1>6, <1>7, <1>8, <1>9, <1>10 DEF Dispatch

\* What the application calls.
LEMMA ApplicationBack ==
    ASSUME IInv, Heap(mem', wire', pending', app'), Back(mem, pending, app), Application
    PROVE  Back(mem', pending', app')
<1>0. /\ Heap(mem, wire, pending, app) /\ cache \in Caches /\ sends \in 0 .. MaxSends
      /\ mem \in [Ids -> Buffer \cup {Freed}] /\ pending \in Queues
  BY DEF IInv, TypeOK, Caches, Heap, Queues
<1>1. ASSUME NEW src \in Dests, NEW dst \in Dests, NEW proto \in Protos
      PROVE  [proto |-> proto, src |-> src, dst |-> dst] \in Request
  BY DEF Request
<1>2. "UDP" \in Protos /\ "ICMP" \in Protos
  BY DEF Protos
<1>3. Idle({}, mem, wire, pending, app)
  BY DEF Idle
<1>4. \A r \in Pairs : r[1] \in Dests /\ r[2] \in Dests
  <2>1. Pairs \subseteq Dests \X Dests
    BY HostsAssumption, Zenon
  <2>. QED
    BY <2>1
<1>5. ASSUME NEW r \in Pairs, NEW port \in Ports, UdpSend(r[1], r[2], port)
      PROVE  Back(mem', pending', app')
  <2>1. sends + 1 \in 0 .. MaxSends
    <3>1. MaxSends \in Nat
      BY HostsAssumption
    <3>. QED
      BY <1>0, <1>5, <3>1 DEF UdpSend, Sending
  <2>2. PICK body \in Body : body = Datagram(sends + 1, port) /\ body.kind = "datagram"
    BY <2>1, DatagramBody
  <2>3. UdpHdrLen \in Nat
    BY DEF UdpHdrLen
  <2>4. PICK hdr \in Request : hdr = [proto |-> "UDP", src |-> r[1], dst |-> r[2]]
    BY <1>1, <1>2, <1>4
  <2>5. Send(mem, wire, UdpHdrLen, body, hdr, {}) /\ app' = app
    BY <1>5, <2>2, <2>4 DEF UdpSend, Quiet
  <2>6. Fits(body, hdr) /\ body.kind # "error"
    BY <2>2 DEF Fits
  <2>. QED
    BY <1>0, <1>3, <2>3, <2>5, <2>6, SendBack
<1>6. ASSUME NEW r \in Pairs, EchoRequest(r[1], r[2])
      PROVE  Back(mem', pending', app')
  <2>1. PICK body \in Body : body = Plain("request") /\ body.kind = "request"
    BY PlainBody DEF Kinds
  <2>2. IcmpHdrLen \in Nat
    BY DEF IcmpHdrLen
  <2>3. PICK hdr \in Request : hdr = [proto |-> "ICMP", src |-> r[1], dst |-> r[2]]
    BY <1>1, <1>2, <1>4
  <2>4. Send(mem, wire, IcmpHdrLen, body, hdr, {}) /\ app' = app
    BY <1>6, <2>1, <2>3 DEF EchoRequest, Quiet
  <2>5. Fits(body, hdr) /\ body.kind # "error"
    BY <2>1 DEF Fits
  <2>. QED
    BY <1>0, <1>3, <2>2, <2>4, <2>5, SendBack
<1>7. CASE AppCreates(1)
  <2>1. PICK body \in Body : body = Plain("raw") /\ body.kind = "raw"
    BY PlainBody DEF Kinds
  <2>2. PICK p : p = Created(1, body)
    OBVIOUS
  <2>3. p.body = body /\ Answers(p)
    BY <2>1, <2>2 DEF Created, Answers, Fits, NoQuote
  <2>4. PICK x \in Ids :
          /\ Lowest(FreeIn(mem), x) /\ mem' = [mem EXCEPT ![x] = p] /\ app' = app \cup {x}
    BY <1>7, <2>1, <2>2 DEF AppCreates
  <2>5. pending' = pending /\ wire' = wire
    BY <1>7 DEF AppCreates
  <2>6. mem'[x] = p /\ \A y \in Ids : y # x => mem'[y] = mem[y]
    BY <1>0, <2>4
  <2>7. Loose(x, wire, pending, app)
    BY <1>0, <2>4, FreeIsLoose DEF Lowest, FreeIn
  <2>8. Heap(mem', wire, pending, app)
    <3>1. app \subseteq app'
      BY <2>4
    <3>. QED
      BY <2>5, <3>1 DEF Heap
  <2>9. \A y \in Ids : mem'[y] = mem[y] \/ (Loose(y, wire, pending, app) /\ Answers(mem'[y]))
    BY <2>3, <2>6, <2>7
  <2>10. Back(mem', pending, app)
    BY <1>0, <2>8, <2>9, BackKept
  <2>. QED
    BY <2>1, <2>3, <2>4, <2>5, <2>6, <2>10 DEF Back
<1>8. ASSUME NEW x \in Ids, NEW r \in Pairs, NEW proto \in Protos,
             HostSendIp(x, r[1], r[2], proto)
      PROVE  Back(mem', pending', app')
  <2>1. PICK hdr \in Request : hdr = [proto |-> proto, src |-> r[1], dst |-> r[2]]
    BY <1>1, <1>4
  <2>2. /\ x \in app /\ ~IpBehind(mem[x]) /\ app' \subseteq app
        /\ Keeps(mem, wire, x, hdr, {}, {}) \/ Takes(mem, wire, x, hdr, {})
    BY <1>8, <2>1 DEF HostSendIp
  <2>3. mem[x] # Freed /\ mem[x].body.kind = "raw"
    BY <1>0, <2>2 DEF Heap, Back
  <2>4. \E c : Output(mem, wire, x, mem[x].body, hdr, c)
    <3>1. CASE Keeps(mem, wire, x, hdr, {}, {})
      <4>1. \A y \in {} \cup {} : y \in Ids /\ mem[y] # Freed
        OBVIOUS
      <4>2. \E c : /\ Output(mem, wire, x, mem[x].body, hdr, c)
                   /\ pending' = pending /\ Freed0({} \cup {})
        BY <1>0, <2>3, <3>1, <4>1, KeepsOutput
      <4>. QED
        BY <4>2
    <3>2. CASE Takes(mem, wire, x, hdr, {})
      <4>1. x \notin {} /\ \A y \in {} : y \in Ids /\ mem[y] # Freed
        OBVIOUS
      <4>. QED
        BY <1>0, <2>3, <3>2, <4>1, TakesOutput
    <3>. QED
      BY <2>2, <3>1, <3>2
  <2>5. Fits(mem[x].body, hdr) /\ mem[x].body.kind # "error"
    BY <2>3 DEF Fits
  <2>6. PICK body : body = mem[x].body
    OBVIOUS
  <2>. QED
    BY <1>0, <2>2, <2>3, <2>4, <2>5, <2>6, OutputBack
<1>9. ASSUME NEW x \in Ids, AppFrees(x)
      PROVE  Back(mem', pending', app')
  <2>1. /\ mem' = FreeAll(mem, {x}) /\ app' \subseteq app /\ pending' = pending
    BY <1>9 DEF AppFrees
  <2>2. \A y \in Ids : mem'[y] = Freed \/ mem'[y] = mem[y]
    BY <2>1 DEF FreeAll
  <2>. QED
    BY <1>0, <2>1, <2>2, BackKept
<1>10. ASSUME NEW h \in Hosts, NEW x \in Ids, AppSendsError(h, x)
       PROVE  Back(mem', pending', app')
  <2>1. x \in app /\ IpBehind(mem[x]) /\ IcmpError(mem, wire, h, mem[x]) /\ app' = app
    BY <1>10 DEF AppSendsError, Quiet
  <2>2. Sound(mem[x]) /\ Answers(mem[x])
    BY <1>0, <2>1 DEF Heap, Back
  <2>. QED
    BY <1>0, <2>1, <2>2, IcmpErrorBack
<1>. QED
  BY <1>5, <1>6, <1>7, <1>8, <1>9, <1>10 DEF Application

\* What leaves the packets and their owners alone.
LEMMA AdministrationSteps ==
    ASSUME Administration
    PROVE  \/ UNCHANGED <<mem, wire, pending, app, told, sends>>
           \/ \E h \in Hosts, adr \in Dests, mac \in Hosts :
                 Flush(h, adr, mac) /\ UNCHANGED <<app, told, sends>>
<1>1. ASSUME NEW k \in Claims, Learn(k[1], k[2], k[3])
      PROVE  \E h \in Hosts, adr \in Dests, mac \in Hosts :
                Flush(h, adr, mac) /\ UNCHANGED <<app, told, sends>>
  <2>1. Claims \subseteq Hosts \X Dests \X Hosts
    BY HostsAssumption, Zenon
  <2>2. k[1] \in Hosts /\ k[2] \in Dests /\ k[3] \in Hosts
    BY <2>1
  <2>3. Flush(k[1], k[2], k[3]) /\ UNCHANGED <<app, told, sends>>
    BY <1>1 DEF Learn
  <2>. QED
    BY <2>2, <2>3
<1>2. ASSUME NEW h, NEW p, UdpBind(h, p) \/ UdpUnbind(h, p)
      PROVE  UNCHANGED <<mem, wire, pending, app, told, sends>>
  BY <1>2 DEF UdpBind, UdpUnbind, heap
<1>3. ASSUME NEW h, NEW p, NEW f, Register(h, p, f)
      PROVE  UNCHANGED <<mem, wire, pending, app, told, sends>>
  BY <1>3 DEF Register, heap
<1>4. ASSUME Flap
      PROVE  UNCHANGED <<mem, wire, pending, app, told, sends>>
  BY <1>4 DEF Flap, heap
<1>5. ASSUME NEW h, NEW p, Expire(h, p)
      PROVE  UNCHANGED <<mem, wire, pending, app, told, sends>>
  BY <1>5 DEF Expire, heap
<1>. QED
  BY <1>1, <1>2, <1>3, <1>4, <1>5 DEF Administration

\* BackInv is inductive.
BackInv == IInv /\ Back(mem, pending, app)

THEOREM BackInvariant == Spec => []BackInv
<1>1. Init => Back(mem, pending, app)
  <2> SUFFICES ASSUME Init PROVE Back(mem, pending, app)
    OBVIOUS
  <2>1. /\ \A x \in Ids : mem[x] = Freed
        /\ \A h \in Hosts, i \in PSlots : pending[h][i] = Empty
        /\ app = {}
    BY DEF Init
  <2>. QED
    BY <2>1 DEF Back
<1>2. IInv /\ IInv' /\ Back(mem, pending, app) /\ [Next]_vars => Back(mem, pending, app)'
  <2> SUFFICES ASSUME IInv, IInv', Back(mem, pending, app), [Next]_vars
               PROVE  Back(mem', pending', app')
    OBVIOUS
  <2>1. Heap(mem, wire, pending, app) /\ Heap(mem', wire', pending', app') /\ cache \in Caches
    BY DEF IInv, TypeOK, Caches
  <2>2. CASE Application
    BY <2>1, <2>2, ApplicationBack
  <2>3. CASE Dispatch
    BY <2>1, <2>3, DispatchBack
  <2>4. CASE Administration
    BY <2>1, <2>4, AdministrationSteps, FlushBack
  <2>5. CASE UNCHANGED vars
    BY <2>5 DEF vars
  <2>. QED
    BY <2>2, <2>3, <2>4, <2>5 DEF Next
<1>. QED
  BY <1>1, <1>2, HeapInvariant, PTL DEF Spec, BackInv

\* ErrorGoesBack: an ICMP error goes to the sender of the packet it quotes and is
\* never about an ICMP error, whoever asks for it (icmp.c:31-42).
THEOREM ErrorTheorem == Spec => []ErrorGoesBack
<1>1. BackInv => ErrorGoesBack
  BY DEF BackInv, Back, Answers, Fits, ErrorGoesBack, Packets, NoQuote
<1>. QED
  BY <1>1, BackInvariant, PTL

-----------------------------------------------------------------------------
(***************************************************************************)
(* Packets that are lost.                                                  *)
(***************************************************************************)
Stray(i, m, w, pd, a) == Loose(i, w, pd, a) /\ m[i] # Freed

LEMMA LostIsStray == \A i : i \in Lost <=> Stray(i, mem, wire, pending, app)
<1>1. \A i : i \in OnWire <=> \E k \in DOMAIN wire : wire[k].id = i
  BY DEF OnWire
<1>2. \A i : i \in InQueue <=> \E h \in Hosts, j \in PSlots : pending[h][j] # Empty /\ pending[h][j].id = i
  BY DEF InQueue, Queued
<1>. QED
  BY <1>1, <1>2 DEF Lost, Packets, Owned, Stray, Loose, OffStack

LEMMA LostIsStrayNext == \A i : i \in Lost' <=> Stray(i, mem', wire', pending', app')
<1>1. \A i : i \in OnWire' <=> \E k \in DOMAIN wire' : wire'[k].id = i
  BY DEF OnWire
<1>2. \A i : i \in InQueue' <=> \E h \in Hosts, j \in PSlots : pending'[h][j] # Empty /\ pending'[h][j].id = i
  BY DEF InQueue, Queued
<1>. QED
  BY <1>1, <1>2 DEF Lost, Packets, Owned, Stray, Loose, OffStack

\* A frame added to the wire.
LEMMA AppendIds ==
    ASSUME NEW m, NEW w, NEW pd, NEW a, Heap(m, w, pd, a), NEW c \in Ids, NEW g \in Hosts,
           NEW v, v = Append(w, [id |-> c, to |-> g])
    PROVE  \A y : (\E k \in DOMAIN v : v[k].id = y) <=> (\E k \in DOMAIN w : w[k].id = y) \/ y = c
<1> DEFINE Frames == [id : Ids, to : Hosts]
<1>1. w \in Seq(Frames)
  BY DEF Heap
<1>2. PICK f \in Frames : f = [id |-> c, to |-> g]
  OBVIOUS
<1> HIDE DEF Frames
<1>3. v = Append(w, f) /\ f.id = c
  BY <1>2
<1>4. /\ v \in Seq(Frames) /\ Len(v) = Len(w) + 1 /\ v[Len(w) + 1] = f
      /\ \A k \in 1 .. Len(w) : v[k] = w[k]
  BY <1>1, <1>3, AppendProperties
<1>5. Len(w) \in Nat /\ DOMAIN w = 1 .. Len(w) /\ DOMAIN v = 1 .. Len(w) + 1
  BY <1>1, <1>4, LenProperties
<1>6. \A k \in DOMAIN v : (k \in DOMAIN w /\ v[k] = w[k]) \/ v[k] = f
  BY <1>4, <1>5
<1>7. Len(w) + 1 \in DOMAIN v /\ \A k \in DOMAIN w : k \in DOMAIN v
  BY <1>5
<1>. QED
  BY <1>3, <1>4, <1>5, <1>6, <1>7

\* The first frame and the rest.
LEMMA WireParts ==
    ASSUME Heap(mem, wire, pending, app), Arrives
    PROVE  \A y : (\E k \in DOMAIN wire : wire[k].id = y)
                     <=> y = First.id \/ \E k \in DOMAIN Rest : Rest[k].id = y
<1> DEFINE Frames == [id : Ids, to : Hosts]
<1>1. wire \in Seq(Frames) /\ wire # <<>>
  BY DEF Heap, Arrives
<1> HIDE DEF Frames
<1>2. Len(wire) \in Nat \ {0} /\ DOMAIN wire = 1 .. Len(wire)
  BY <1>1, LenProperties, EmptySeq
<1>3. First = wire[1]
  BY <1>1 DEF First
<1>4. PICK v : v = Tail(wire)
  OBVIOUS
<1>5. DOMAIN v = 1 .. Len(wire) - 1 /\ \A k \in 1 .. Len(wire) - 1 : v[k] = wire[k + 1]
  <2>1. /\ Tail(wire) \in Seq(Frames) /\ Len(Tail(wire)) = Len(wire) - 1
        /\ \A k \in 1 .. Len(Tail(wire)) : Tail(wire)[k] = wire[k + 1]
    BY <1>1, HeadTailProperties
  <2>2. v \in Seq(Frames) /\ Len(v) = Len(wire) - 1
    BY <1>4, <2>1
  <2>. QED
    BY <1>4, <2>1, <2>2, LenProperties
<1>6. ASSUME NEW k \in DOMAIN wire
      PROVE  wire[k] = First \/ \E j \in DOMAIN v : v[j] = wire[k]
  <2>1. CASE k = 1
    BY <1>3, <2>1
  <2>2. CASE k # 1
    <3>1. k - 1 \in DOMAIN v /\ k - 1 + 1 = k /\ k - 1 \in 1 .. Len(wire) - 1
      BY <1>2, <1>5, <2>2
    <3>. QED
      BY <1>5, <3>1
  <2>. QED
    BY <2>1, <2>2
<1>7. 1 \in DOMAIN wire
  BY <1>2
<1>8. \A j \in DOMAIN v : j + 1 \in DOMAIN wire /\ v[j] = wire[j + 1]
  BY <1>2, <1>5
<1>. QED
  BY <1>3, <1>4, <1>6, <1>7, <1>8 DEF Rest

\* ip_output adds the frame it schedules.
LEMMA OutputWire ==
    ASSUME NEW m, NEW w, Heap(m, w, pending, app),
           NEW x, NEW body, NEW hdr, NEW c, Output(m, w, x, body, hdr, c)
    PROVE  \A y : (\E k \in DOMAIN wire' : wire'[k].id = y)
                     <=> (\E k \in DOMAIN w : w[k].id = y) \/ (c \in Ids /\ y = c)
<1>1. CASE c = 0 /\ wire' = w
  BY <1>1, NoZero
<1>2. ASSUME c \in Ids, NEW g \in Hosts, wire' = Append(w, [id |-> c, to |-> g])
      PROVE  \A y : (\E k \in DOMAIN wire' : wire'[k].id = y)
                       <=> (\E k \in DOMAIN w : w[k].id = y) \/ (c \in Ids /\ y = c)
  <2>1. PICK v : v = wire'
    OBVIOUS
  <2>2. \A y : (\E k \in DOMAIN v : v[k].id = y) <=> (\E k \in DOMAIN w : w[k].id = y) \/ y = c
    BY <1>2, <2>1, AppendIds
  <2>. QED
    BY <1>2, <2>1, <2>2
<1>. QED
  BY <1>1, <1>2 DEF Output

\* ip_output loses what it cloned, and ARP requests.
LEMMA OutputLost ==
    ASSUME NEW m, NEW w, Heap(m, w, pending, app), Heap(mem', wire', pending', app'),
           NEW x \in Ids, NEW body, NEW hdr, NEW c,
           \A y \in app : y \in app' \/ y = x,
           mem'[x] = Freed \/ x \in app' \/ Handled(x, hdr, c),
           Output(m, w, x, body, hdr, c),
           NEW i, Stray(i, mem', wire', pending', app')
    PROVE  \/ Stray(i, m, w, pending, app)
           \/ mem'[i].body.kind = "arp"
           \/ c \in Ids /\ m[c] = Freed /\ mem'[c] = Clone(mem'[i])
              /\ \E k \in DOMAIN wire' : wire'[k].id = c
<1>0. i \in Ids
  BY DEF Stray, Loose
<1>1. /\ \A y : (\E k \in DOMAIN w : w[k].id = y) => \E k \in DOMAIN wire' : wire'[k].id = y
      /\ c \in Ids => \E k \in DOMAIN wire' : wire'[k].id = c
  BY OutputWire
<1>2. CASE i = x
  <2>1. ~\E h \in Hosts, j \in PSlots : pending'[h][j] = Entry(x, hdr)
    <3>1. Entry(x, hdr) # Empty /\ Entry(x, hdr).id = x
      BY NoZero DEF Entry, Empty
    <3>. QED
      BY <1>2, <3>1 DEF Stray, Loose, OffStack
  <2>2. c \in Ids /\ mem'[c] = Clone(mem'[x])
    BY <1>2, <2>1 DEF Stray, Loose, Handled
  <2>3. m[c] = Freed
    BY <2>2, NoZero DEF Output
  <2>. QED
    BY <1>1, <1>2, <2>2, <2>3
<1>3. CASE i # x /\ i = c
  BY <1>0, <1>1, <1>3 DEF Stray, Loose, OffStack
<1>4. CASE i # x /\ i # c /\ mem'[i].body.kind # "arp"
  <2>1. mem'[i] = m[i] /\ m[i] # Freed
    BY <1>0, <1>4 DEF Output, Stray
  <2>2. i \notin app
    BY <1>4 DEF Stray, Loose
  <2>3. \A k \in DOMAIN w : w[k].id # i
    BY <1>1 DEF Stray, Loose, OffStack
  <2>4. \A h \in Hosts, j \in PSlots : pending[h][j] # Empty => pending[h][j].id # i
    BY DEF Output, Stray, Loose, OffStack
  <2>. QED
    BY <1>0, <2>1, <2>2, <2>3, <2>4 DEF Stray, Loose, OffStack
<1>. QED
  BY <1>2, <1>3, <1>4

\* A packet that is made and sent is lost in no other way.
LEMMA SendLost ==
    ASSUME NEW m, NEW w, Heap(m, w, pending, app), Heap(mem', wire', pending', app'),
           app' = app, cache \in Caches,
           NEW len \in Nat, NEW body \in Body, NEW hdr \in Request,
           NEW done, Idle(done, m, w, pending, app),
           Send(m, w, len, body, hdr, done),
           NEW i, Stray(i, mem', wire', pending', app')
    PROVE  \/ Stray(i, m, w, pending, app) /\ i \notin done
           \/ mem'[i].body.kind = "arp"
           \/ \E c \in Ids : m[c] = Freed /\ mem'[c] = Clone(mem'[i])
                             /\ \E k \in DOMAIN wire' : wire'[k].id = c
<1>1. m \in [Ids -> Buffer \cup {Freed}] /\ pending \in Queues
  BY DEF Heap, Queues
<1>2. \A y \in done : y \in Ids /\ m[y] # Freed
  BY DEF Idle, Loose
<1>3. /\ Freed0(done)
      /\ \/ mem' = FreeAll(m, done) /\ wire' = w /\ pending' = pending
         \/ \E x \in Ids : \E c : /\ m[x] = Freed /\ Output(m, w, x, body, hdr, c)
                                  /\ mem'[x] = Freed \/ Handled(x, hdr, c)
  BY <1>1, <1>2, SendOutput
<1>4. i \notin done
  BY <1>2, <1>3 DEF Freed0, Stray, Loose
<1>5. CASE mem' = FreeAll(m, done) /\ wire' = w /\ pending' = pending
  BY <1>4, <1>5 DEF FreeAll, Stray, Loose
<1>6. ASSUME NEW x \in Ids, NEW c, Output(m, w, x, body, hdr, c),
             mem'[x] = Freed \/ Handled(x, hdr, c)
      PROVE  \/ Stray(i, m, w, pending, app)
             \/ mem'[i].body.kind = "arp"
             \/ c \in Ids /\ m[c] = Freed /\ mem'[c] = Clone(mem'[i])
                /\ \E k \in DOMAIN wire' : wire'[k].id = c
  BY <1>6, OutputLost
<1>. QED
  BY <1>3, <1>4, <1>5, <1>6

\* icmp_send_error loses what it made in no other way.
LEMMA IcmpErrorLost ==
    ASSUME NEW m, NEW w, Heap(m, w, pending, app), Heap(mem', wire', pending', app'),
           app' = app, cache \in Caches,
           NEW h \in Hosts, NEW p, Sound(p), IpBehind(p), IcmpError(m, w, h, p),
           NEW i, Stray(i, mem', wire', pending', app')
    PROVE  \/ Stray(i, m, w, pending, app)
           \/ mem'[i].body.kind = "arp"
           \/ \E c \in Ids : m[c] = Freed /\ mem'[c] = Clone(mem'[i])
                             /\ \E k \in DOMAIN wire' : wire'[k].id = c
<1>1. CASE Failed(m, w, {}, {})
  BY <1>1 DEF Failed, FreeAll, Stray, Loose
<1>2. CASE Send(m, w, IcmpHdrLen + IpHdrLen + (IF p.len < QuoteLen THEN p.len ELSE QuoteLen),
                ErrorBody(p),
                [proto |-> "ICMP", src |-> h, dst |-> HeaderRead(p).src], {})
  <2>1. IcmpHdrLen + IpHdrLen + (IF p.len < QuoteLen THEN p.len ELSE QuoteLen) \in Nat
    BY DEF IcmpHdrLen, IpHdrLen, QuoteLen, Sound, Buffer
  <2>2. HeaderRead(p) \in Header /\ HeaderRead(p).src \in Dests
    BY BehindIsRoute DEF Header
  <2>3. ErrorBody(p) \in Body
    <3>1. p.body.kind \in Kinds
      BY DEF Sound, Buffer
    <3>2. PICK b \in Body : b = Plain("error")
      BY PlainBody DEF Kinds
    <3>. QED
      BY <2>2, <3>1, <3>2 DEF ErrorBody, Body
  <2>4. [proto |-> "ICMP", src |-> h, dst |-> HeaderRead(p).src] \in Request
    <3>1. h \in Dests
      BY HostsAreDests
    <3>. QED
      BY <2>2, <3>1 DEF Request, Protos
  <2>5. Idle({}, m, w, pending, app)
    BY DEF Idle
  <2>. QED
    BY <1>2, <2>1, <2>3, <2>4, <2>5, SendLost
<1>. QED
  BY <1>1, <1>2 DEF IcmpError

\* The cases in which a packet may be lost.
Excused(i) ==
    \/ \E c \in OnWire' \ OnWire : mem'[c] = Clone(mem'[i])
    \/ mem'[i].body.kind = "arp"
    \/ /\ Arrives /\ i = First.id
       /\ \/ ~ForMe
          \/ handlers[Here][Raw.hdr.proto] = "none"
          \/ Raw.body.kind = "datagram" /\ SlotsOf(Here, Raw.body.port) = {}

LEMMA CloneExcuses ==
    ASSUME NEW i, NEW c \in Ids, \A k \in DOMAIN wire : wire[k].id # c,
           \E k \in DOMAIN wire' : wire'[k].id = c, mem'[c] = Clone(mem'[i])
    PROVE  Excused(i)
  BY DEF Excused, OnWire

\* What ethernet_receive_event starts loses the packet that arrived when the
\* station, the protocol or the port is not its own, and else nothing.
LEMMA DispatchLost ==
    ASSUME Heap(mem, wire, pending, app), Heap(mem', wire', pending', app'),
           cache \in Caches, Dispatch,
           NEW i, Stray(i, mem', wire', pending', app')
    PROVE  Stray(i, mem, wire, pending, app) \/ Excused(i)
<1>1. Arrives
  BY DEF Dispatch
<1>2. /\ Heap(mem, Rest, pending, app)
      /\ Loose(First.id, Rest, pending, app) /\ mem[First.id] # Freed /\ Here \in Hosts
  BY <1>1, ArrivalHeap
<1>3. ASSUME Raw.body.kind # "arp"
      PROVE  /\ Heap(OpenedMem, Rest, pending, app)
             /\ OpenedMem[First.id] = Opened /\ Opened # Freed
             /\ Sound(Opened) /\ IpBehind(Opened) /\ Opened.body = Raw.body
             /\ \A y \in Ids : y # First.id => OpenedMem[y] = mem[y]
  <2>1. \A y \in Ids : y # First.id => OpenedMem[y] = mem[y]
    BY DEF Heap, OpenedMem
  <2>. QED
    BY <1>1, <1>3, <2>1, ArrivalHeap, OpenedKeeps
<1>4. \A y : (\E k \in DOMAIN wire : wire[k].id = y)
                <=> y = First.id \/ \E k \in DOMAIN Rest : Rest[k].id = y
  BY <1>1, WireParts
<1>5. ASSUME NEW m, Stray(i, m, Rest, pending, app), i # First.id, m[i] = mem[i]
      PROVE  Stray(i, mem, wire, pending, app)
  BY <1>4, <1>5 DEF Stray, Loose, OffStack
<1>6. i \in Ids /\ mem'[i] # Freed /\ i \notin app'
  BY DEF Stray, Loose
<1>7. ASSUME Raw.body.kind # "arp",
             \E c \in Ids : OpenedMem[c] = Freed /\ mem'[c] = Clone(mem'[i])
                            /\ \E k \in DOMAIN wire' : wire'[k].id = c
      PROVE  Excused(i)
  <2>1. PICK c \in Ids : OpenedMem[c] = Freed /\ mem'[c] = Clone(mem'[i])
                         /\ \E k \in DOMAIN wire' : wire'[k].id = c
    BY <1>7
  <2>2. c # First.id /\ Loose(c, Rest, pending, app)
    BY <1>3, <1>7, <2>1, FreeIsLoose
  <2>3. \A k \in DOMAIN wire : wire[k].id # c
    BY <1>4, <2>2 DEF Loose, OffStack
  <2>. QED
    BY <2>1, <2>3, CloneExcuses
<1>8. CASE Refuse
  <2>1. Stray(i, mem, Rest, pending, app)
    BY <1>8 DEF Refuse, Nothing, Stray
  <2>2. i = First.id => Excused(i)
    BY <1>1, <1>8 DEF Refuse, Excused
  <2>. QED
    BY <1>5, <2>1, <2>2
<1>9. CASE NotIp \/ IcmpConsumes \/ UdpMalformed
  <2>1. /\ mem' = FreeAll(mem, {First.id}) /\ wire' = Rest /\ pending' = pending /\ app' = app
    BY <1>9 DEF NotIp, IcmpConsumes, UdpMalformed, Nothing
  <2>2. i # First.id /\ mem'[i] = mem[i]
    BY <1>6, <2>1 DEF FreeAll
  <2>. QED
    BY <1>5, <2>1, <2>2
<1>10. CASE Unhandled
  <2>1. Raw.body.kind # "arp" /\ handlers[Here][Raw.hdr.proto] = "none"
    BY <1>10 DEF Unhandled, IsFor
  <2>2. mem' = OpenedMem /\ wire' = Rest /\ pending' = pending /\ app' = app
    BY <1>10 DEF Unhandled, Nothing
  <2>3. i # First.id => mem'[i] = mem[i]
    BY <1>3, <1>6, <2>1, <2>2
  <2>4. i = First.id => Excused(i)
    BY <1>1, <2>1 DEF Excused
  <2>. QED
    BY <1>5, <2>2, <2>3, <2>4
<1>11. CASE AppHandler \/ UdpDelivers
  <2>1. Raw.body.kind # "arp" /\ wire' = Rest /\ pending' = pending /\ app' = app \cup {First.id}
    BY <1>11 DEF AppHandler, UdpDelivers, IsFor
  <2>2. i # First.id /\ i \notin app
    BY <1>6, <2>1
  <2>3. mem'[i] = mem[i]
    <3>1. OpenedMem[i] = mem[i] /\ OpenedMem \in [Ids -> Buffer \cup {Freed}]
      BY <1>3, <1>6, <2>1, <2>2 DEF Heap
    <3>2. mem' = OpenedMem \/ mem' = Handed(OpenedMem, First.id)
      BY <1>11 DEF AppHandler, UdpDelivers
    <3>. QED
      BY <1>6, <2>2, <3>1, <3>2 DEF Handed
  <2>4. Stray(i, mem', Rest, pending, app)
    BY <2>1, <2>2 DEF Stray, Loose
  <2>. QED
    BY <1>5, <2>2, <2>3, <2>4
<1>12. CASE EchoReply
  <2>0. Raw.body.kind # "arp"
    BY <1>12 DEF EchoReply, IsFor
  <2>1. /\ Heap(OpenedMem, Rest, pending, app) /\ OpenedMem[First.id] # Freed
        /\ Sound(Opened) /\ IpBehind(Opened)
    BY <1>3, <2>0
  <2>2. Idle({First.id}, OpenedMem, Rest, pending, app)
    BY <1>2, <2>1 DEF Idle
  <2>3. Opened.len \in Nat /\ Plain("reply") \in Body
    BY <2>1, PlainBody DEF Sound, Buffer, Kinds
  <2>4. ReplyHeader(Opened) \in Request
    BY <2>1, BehindIsRoute DEF ReplyHeader, Request, Protos
  <2>5. /\ Send(OpenedMem, Rest, Opened.len, Plain("reply"), ReplyHeader(Opened), {First.id})
        /\ app' = app
    BY <1>12 DEF EchoReply
  <2>6. \/ Stray(i, OpenedMem, Rest, pending, app) /\ i \notin {First.id}
        \/ mem'[i].body.kind = "arp"
        \/ \E c \in Ids : OpenedMem[c] = Freed /\ mem'[c] = Clone(mem'[i])
                          /\ \E k \in DOMAIN wire' : wire'[k].id = c
    BY <2>1, <2>2, <2>3, <2>4, <2>5, SendLost
  <2>7. mem'[i].body.kind = "arp" => Excused(i)
    BY DEF Excused
  <2>. QED
    BY <1>3, <1>5, <1>6, <1>7, <2>0, <2>6, <2>7
<1>13. CASE UdpUnreachable
  <2>0. Raw.body.kind # "arp"
    BY <1>13 DEF UdpUnreachable, IsFor
  <2>1. /\ Heap(OpenedMem, Rest, pending, app) /\ Sound(Opened) /\ IpBehind(Opened)
    BY <1>3, <2>0
  <2>2. IcmpError(OpenedMem, Rest, Here, Opened) /\ app' = app
    BY <1>13 DEF UdpUnreachable
  <2>3. \/ Stray(i, OpenedMem, Rest, pending, app)
        \/ mem'[i].body.kind = "arp"
        \/ \E c \in Ids : OpenedMem[c] = Freed /\ mem'[c] = Clone(mem'[i])
                          /\ \E k \in DOMAIN wire' : wire'[k].id = c
    BY <1>2, <2>1, <2>2, IcmpErrorLost
  <2>4. mem'[i].body.kind = "arp" => Excused(i)
    BY DEF Excused
  <2>5. Raw.body.kind = "datagram" /\ SlotsOf(Here, Raw.body.port) = {}
    BY <1>3, <1>13, <2>0 DEF UdpUnreachable, IsDatagram
  <2>6. i = First.id => Excused(i)
    BY <1>1, <2>5 DEF Excused
  <2>. QED
    BY <1>3, <1>5, <1>6, <1>7, <2>0, <2>3, <2>4, <2>6
<1>. QED
  BY <1>8, <1>9, <1>10, <1>11, <1>12, <1>13 DEF Dispatch

\* arp_pending_flush loses the packets it has sent a clone of.
LEMMA FlushLost ==
    ASSUME Heap(mem, wire, pending, app), app' = app,
           NEW h \in Hosts, NEW adr \in Dests, NEW mac \in Hosts, Flush(h, adr, mac),
           NEW i, Stray(i, mem', wire', pending', app')
    PROVE  Stray(i, mem, wire, pending, app) \/ Excused(i)
<1>0. PICK sent \in SUBSET Waiting(h, adr) : \E c \in [sent -> Ids] :
        /\ Fresh(h, adr, sent, c) /\ Delivered(h, adr, sent, c)
        /\ \A y : y \in OnWire' <=> y \in OnWire \/ \E j \in sent : c[j] = y
        /\ \A g \in Hosts, j \in PSlots :
              pending'[g][j] = IF g = h /\ j \in Waiting(h, adr) THEN Empty ELSE pending[g][j]
  BY FlushEffect
<1>1. PICK c \in [sent -> Ids] :
        /\ Fresh(h, adr, sent, c) /\ Delivered(h, adr, sent, c)
        /\ \A y : y \in OnWire' <=> y \in OnWire \/ \E j \in sent : c[j] = y
        /\ \A g \in Hosts, j \in PSlots :
              pending'[g][j] = IF g = h /\ j \in Waiting(h, adr) THEN Empty ELSE pending[g][j]
  BY <1>0
<1>2. i \in Ids /\ mem'[i] # Freed /\ i \notin app /\ i \notin OnWire'
  BY DEF Stray, Loose, OffStack, OnWire
<1>3. i \notin OnWire /\ \A j \in sent : c[j] # i
  BY <1>1, <1>2
<1>4. ASSUME NEW j \in sent, mem'[c[j]] = Clone(mem'[i])
      PROVE  Excused(i)
  <2>1. \A k \in DOMAIN wire : wire[k].id # c[j]
    BY <1>1 DEF Fresh
  <2>2. c[j] \notin OnWire
    BY <2>1 DEF OnWire
  <2>3. c[j] \in OnWire'
    BY <1>1
  <2>. QED
    BY <1>4, <2>2, <2>3 DEF Excused
<1>5. CASE mem'[i] = mem[i] /\ \A j \in Waiting(h, adr) : pending[h][j].id # i
  <2>1. \A g \in Hosts, j \in PSlots : pending[g][j] # Empty => pending[g][j].id # i
    <3> SUFFICES ASSUME NEW g \in Hosts, NEW j \in PSlots, pending[g][j] # Empty
                 PROVE  pending[g][j].id # i
      OBVIOUS
    <3>1. CASE g = h /\ j \in Waiting(h, adr)
      BY <1>5, <3>1
    <3>2. CASE ~(g = h /\ j \in Waiting(h, adr))
      <4>1. pending'[g][j] = pending[g][j]
        BY <1>1, <3>2
      <4>. QED
        BY <4>1 DEF Stray, Loose, OffStack
    <3>. QED
      BY <3>1, <3>2
  <2>2. \A k \in DOMAIN wire : wire[k].id # i
    BY <1>3 DEF OnWire
  <2>. QED
    BY <1>2, <1>5, <2>1, <2>2 DEF Stray, Loose, OffStack
<1>. QED
  BY <1>1, <1>2, <1>3, <1>4, <1>5 DEF Delivered

\* What the application calls.
LEMMA ApplicationLost ==
    ASSUME IInv, Heap(mem', wire', pending', app'), Back(mem, pending, app), Application,
           NEW i, Stray(i, mem', wire', pending', app')
    PROVE  Stray(i, mem, wire, pending, app) \/ Excused(i)
<1>0. /\ Heap(mem, wire, pending, app) /\ cache \in Caches /\ sends \in 0 .. MaxSends
      /\ mem \in [Ids -> Buffer \cup {Freed}] /\ pending \in Queues
  BY DEF IInv, TypeOK, Caches, Heap, Queues
<1>1. ASSUME NEW src \in Dests, NEW dst \in Dests, NEW proto \in Protos
      PROVE  [proto |-> proto, src |-> src, dst |-> dst] \in Request
  BY DEF Request
<1>2. "UDP" \in Protos /\ "ICMP" \in Protos
  BY DEF Protos
<1>3. Idle({}, mem, wire, pending, app)
  BY DEF Idle
<1>4. \A r \in Pairs : r[1] \in Dests /\ r[2] \in Dests
  <2>1. Pairs \subseteq Dests \X Dests
    BY HostsAssumption, Zenon
  <2>. QED
    BY <2>1
<1>5. i \in Ids /\ mem'[i] # Freed /\ i \notin app'
  BY DEF Stray, Loose
<1>6. ASSUME \/ Stray(i, mem, wire, pending, app)
             \/ mem'[i].body.kind = "arp"
             \/ \E c \in Ids : mem[c] = Freed /\ mem'[c] = Clone(mem'[i])
                               /\ \E k \in DOMAIN wire' : wire'[k].id = c
      PROVE  Stray(i, mem, wire, pending, app) \/ Excused(i)
  <2>1. ASSUME NEW c \in Ids, mem[c] = Freed, mem'[c] = Clone(mem'[i]),
               \E k \in DOMAIN wire' : wire'[k].id = c
        PROVE  Excused(i)
    <3>1. \A k \in DOMAIN wire : wire[k].id # c
      BY <1>0, <2>1, FreeIsLoose DEF Loose, OffStack
    <3>. QED
      BY <2>1, <3>1, CloneExcuses
  <2>2. mem'[i].body.kind = "arp" => Excused(i)
    BY DEF Excused
  <2>. QED
    BY <1>6, <2>1, <2>2
<1>7. ASSUME NEW r \in Pairs, NEW port \in Ports, UdpSend(r[1], r[2], port)
      PROVE  Stray(i, mem, wire, pending, app) \/ Excused(i)
  <2>1. sends + 1 \in 0 .. MaxSends
    <3>1. MaxSends \in Nat
      BY HostsAssumption
    <3>. QED
      BY <1>0, <1>7, <3>1 DEF UdpSend, Sending
  <2>2. PICK body \in Body : body = Datagram(sends + 1, port)
    BY <2>1, DatagramBody
  <2>3. UdpHdrLen \in Nat
    BY DEF UdpHdrLen
  <2>4. PICK hdr \in Request : hdr = [proto |-> "UDP", src |-> r[1], dst |-> r[2]]
    BY <1>1, <1>2, <1>4
  <2>5. Send(mem, wire, UdpHdrLen, body, hdr, {}) /\ app' = app
    BY <1>7, <2>2, <2>4 DEF UdpSend, Quiet
  <2>. QED
    BY <1>0, <1>3, <1>6, <2>3, <2>5, SendLost
<1>8. ASSUME NEW r \in Pairs, EchoRequest(r[1], r[2])
      PROVE  Stray(i, mem, wire, pending, app) \/ Excused(i)
  <2>1. PICK body \in Body : body = Plain("request")
    BY PlainBody DEF Kinds
  <2>2. IcmpHdrLen \in Nat
    BY DEF IcmpHdrLen
  <2>3. PICK hdr \in Request : hdr = [proto |-> "ICMP", src |-> r[1], dst |-> r[2]]
    BY <1>1, <1>2, <1>4
  <2>4. Send(mem, wire, IcmpHdrLen, body, hdr, {}) /\ app' = app
    BY <1>8, <2>1, <2>3 DEF EchoRequest, Quiet
  <2>. QED
    BY <1>0, <1>3, <1>6, <2>2, <2>4, SendLost
<1>9. CASE AppCreates(1)
  <2>1. PICK x \in Ids : \E p : mem' = [mem EXCEPT ![x] = p] /\ app' = app \cup {x}
    BY <1>9 DEF AppCreates
  <2>2. i # x /\ i \notin app /\ mem'[i] = mem[i]
    BY <1>0, <1>5, <2>1
  <2>3. wire' = wire /\ pending' = pending
    BY <1>9 DEF AppCreates
  <2>. QED
    BY <2>2, <2>3 DEF Stray, Loose
<1>10. ASSUME NEW x \in Ids, NEW r \in Pairs, NEW proto \in Protos,
              HostSendIp(x, r[1], r[2], proto)
       PROVE  Stray(i, mem, wire, pending, app) \/ Excused(i)
  <2>1. PICK hdr \in Request : hdr = [proto |-> proto, src |-> r[1], dst |-> r[2]]
    BY <1>1, <1>4
  <2>2. /\ x \in app
        /\ \/ Keeps(mem, wire, x, hdr, {}, {}) /\ app' = app
           \/ Takes(mem, wire, x, hdr, {}) /\ app' = app \ {x}
    BY <1>10, <2>1 DEF HostSendIp
  <2>3. mem[x] # Freed /\ mem[x].body.kind = "raw"
    BY <1>0, <1>10, <2>2 DEF Heap, Back, HostSendIp
  <2>4. PICK c : /\ Output(mem, wire, x, mem[x].body, hdr, c)
                 /\ mem'[x] = Freed \/ x \in app' \/ Handled(x, hdr, c)
    <3>1. CASE Keeps(mem, wire, x, hdr, {}, {}) /\ app' = app
      <4>1. \A y \in {} \cup {} : y \in Ids /\ mem[y] # Freed
        OBVIOUS
      <4>2. \E c : /\ Output(mem, wire, x, mem[x].body, hdr, c)
                   /\ pending' = pending /\ Freed0({} \cup {})
        BY <1>0, <2>3, <3>1, <4>1, KeepsOutput
      <4>. QED
        BY <2>2, <3>1, <4>2
    <3>2. CASE Takes(mem, wire, x, hdr, {})
      <4>1. x \notin {} /\ \A y \in {} : y \in Ids /\ mem[y] # Freed
        OBVIOUS
      <4>. QED
        BY <1>0, <2>3, <3>2, <4>1, TakesOutput
    <3>. QED
      BY <2>2, <3>1, <3>2
  <2>5. \A y \in app : y \in app' \/ y = x
    BY <2>2
  <2>6. PICK body : body = mem[x].body
    OBVIOUS
  <2>7. \/ Stray(i, mem, wire, pending, app)
        \/ mem'[i].body.kind = "arp"
        \/ c \in Ids /\ mem[c] = Freed /\ mem'[c] = Clone(mem'[i])
           /\ \E k \in DOMAIN wire' : wire'[k].id = c
    BY <1>0, <2>4, <2>5, <2>6, OutputLost
  <2>. QED
    BY <1>6, <2>7
<1>11. ASSUME NEW x \in Ids, AppFrees(x)
       PROVE  Stray(i, mem, wire, pending, app) \/ Excused(i)
  <2>1. /\ mem' = FreeAll(mem, {x}) /\ app' = app \ {x} /\ pending' = pending /\ wire' = wire
    BY <1>11 DEF AppFrees
  <2>2. i # x /\ mem'[i] = mem[i]
    BY <1>5, <2>1 DEF FreeAll
  <2>. QED
    BY <2>1, <2>2 DEF Stray, Loose
<1>12. ASSUME NEW h \in Hosts, NEW x \in Ids, AppSendsError(h, x)
       PROVE  Stray(i, mem, wire, pending, app) \/ Excused(i)
  <2>1. x \in app /\ IpBehind(mem[x]) /\ IcmpError(mem, wire, h, mem[x]) /\ app' = app
    BY <1>12 DEF AppSendsError, Quiet
  <2>2. Sound(mem[x])
    BY <1>0, <2>1 DEF Heap
  <2>3. \/ Stray(i, mem, wire, pending, app)
        \/ mem'[i].body.kind = "arp"
        \/ \E c \in Ids : mem[c] = Freed /\ mem'[c] = Clone(mem'[i])
                          /\ \E k \in DOMAIN wire' : wire'[k].id = c
    BY <1>0, <2>1, <2>2, IcmpErrorLost
  <2>. QED
    BY <1>6, <2>3
<1>. QED
  BY <1>7, <1>8, <1>9, <1>10, <1>11, <1>12 DEF Application

\* NothingElseLost: a packet is forgotten without being freed only when a clone of
\* it was scheduled, when it is an ARP request, and when it arrived for another
\* station, protocol or port; a send that fails anywhere frees what was made for
\* it, of whatever size the memory, the queues and the tables are.
THEOREM LostTheorem == Spec => NothingElseLost
<1>1. ASSUME BackInv, BackInv', [Next]_vars, NEW i \in Lost' \ Lost
      PROVE  Excused(i)
  <2>1. /\ IInv /\ Back(mem, pending, app)
        /\ Heap(mem, wire, pending, app) /\ Heap(mem', wire', pending', app') /\ cache \in Caches
    BY <1>1 DEF BackInv, IInv, TypeOK, Caches
  <2>2. Stray(i, mem', wire', pending', app') /\ ~Stray(i, mem, wire, pending, app)
    BY LostIsStray, LostIsStrayNext
  <2>3. CASE Application
    BY <2>1, <2>2, <2>3, ApplicationLost
  <2>4. CASE Dispatch
    BY <2>1, <2>2, <2>4, DispatchLost
  <2>5. CASE Administration
    BY <2>1, <2>2, <2>5, AdministrationSteps, FlushLost
  <2>6. CASE UNCHANGED vars
    BY <2>2, <2>6 DEF vars
  <2>. QED
    BY <1>1, <2>3, <2>4, <2>5, <2>6 DEF Next
<1>2. BackInv /\ BackInv' /\ [Next]_vars
        => [\A i \in Lost' \ Lost :
              \/ \E c \in OnWire' \ OnWire : mem'[c] = Clone(mem'[i])
              \/ mem'[i].body.kind = "arp"
              \/ /\ Arrives /\ i = First.id
                 /\ \/ ~ForMe
                    \/ handlers[Here][Raw.hdr.proto] = "none"
                    \/ Raw.body.kind = "datagram" /\ SlotsOf(Here, Raw.body.port) = {}]_vars
  BY <1>1 DEF Excused
<1>. QED
  BY <1>2, BackInvariant, PTL DEF Spec, NothingElseLost

-----------------------------------------------------------------------------
(***************************************************************************)
(* The datagram service.                                                   *)
(***************************************************************************)
\* The packet at y is on the wire, or waits, to be given header g.
Carried(y, g, m, w, pd) ==
    \/ (\E k \in DOMAIN w : w[k].id = y) /\ m[y].hdr = g
    \/ \E h \in Hosts, j \in PSlots : pd[h][j] # Empty /\ pd[h][j].id = y /\ pd[h][j].hdr = g

\* The packet at y is a datagram under way, with payload b and header g.
Flies(y, b, g, m, w, pd) ==
    y \in Ids /\ m[y].body = b /\ b.kind = "datagram" /\ Carried(y, g, m, w, pd)

LEMMA CarriedAllocated ==
    ASSUME NEW m, NEW w, NEW pd, NEW a, Heap(m, w, pd, a), NEW y, NEW g, Carried(y, g, m, w, pd)
    PROVE  y \in Ids /\ y \notin a /\ m[y] # Freed
<1>1. CASE \E k \in DOMAIN w : w[k].id = y
  <2>1. PICK k \in DOMAIN w : w[k].id = y
    BY <1>1
  <2>2. y \in Ids
    BY <2>1, HeapRefs
  <2>3. Sendworthy(m[y]) /\ y \notin a
    BY <2>1 DEF Heap
  <2>4. m[y] # Freed
    BY <2>3, FreedIsNoBuffer DEF Sendworthy, Sound
  <2>. QED
    BY <2>2, <2>3, <2>4
<1>2. CASE \E h \in Hosts, j \in PSlots : pd[h][j] # Empty /\ pd[h][j].id = y
  BY <1>2, HeapRefs DEF Heap
<1>. QED
  BY <1>1, <1>2 DEF Carried

\* ip_output adds the datagram it is given, or nothing.
LEMMA OutputFlies ==
    ASSUME NEW m, NEW w, Heap(m, w, pending, app), Heap(mem', wire', pending', app'),
           NEW x \in Ids, OffStack(x, w, pending),
           NEW body, NEW hdr, NEW c, Output(m, w, x, body, hdr, c)
    PROVE  \/ \A y, b, g : Flies(y, b, g, mem', wire', pending') <=> Flies(y, b, g, m, w, pending)
           \/ body.kind = "datagram" /\ \E z \in Ids : \A y, b, g :
                 Flies(y, b, g, mem', wire', pending')
                    <=> Flies(y, b, g, m, w, pending) \/ (y = z /\ b = body /\ g = hdr)
<1>1. \A y : (\E k \in DOMAIN wire' : wire'[k].id = y)
                <=> (\E k \in DOMAIN w : w[k].id = y) \/ (c \in Ids /\ y = c)
  BY OutputWire
<1>2. \A h \in Hosts, j \in PSlots :
         \/ pending'[h][j] = pending[h][j]
         \/ pending[h][j] = Empty /\ pending'[h][j] = Entry(x, hdr)
  BY DEF Output
<1>3. ASSUME NEW y, NEW g, Carried(y, g, m, w, pending)
      PROVE  /\ y # x /\ y # c /\ mem'[y] = m[y]
             /\ Carried(y, g, mem', wire', pending')
  <2>1. y \in Ids /\ m[y] # Freed /\ y # x
    BY <1>3, CarriedAllocated DEF Carried, OffStack
  <2>2. y # c
    BY <2>1, NoZero DEF Output
  <2>3. \/ \E k \in DOMAIN wire' : wire'[k].id = y
        \/ \E h \in Hosts, j \in PSlots : pending'[h][j] # Empty /\ pending'[h][j].id = y
    BY <1>1, <1>2, <1>3 DEF Carried
  <2>4. Carried(y, mem'[y].hdr, mem', wire', pending')
        \/ \E f : Carried(y, f, mem', wire', pending')
    BY <2>3 DEF Carried
  <2>5. mem'[y] # Freed
    BY <2>4, CarriedAllocated
  <2>6. mem'[y] = m[y]
    BY <2>1, <2>2, <2>5 DEF Output
  <2>7. Carried(y, g, mem', wire', pending')
    BY <1>1, <1>2, <1>3, <2>6 DEF Carried
  <2>. QED
    BY <2>1, <2>2, <2>6, <2>7
<1>4. ASSUME NEW y, NEW g, Carried(y, g, mem', wire', pending')
      PROVE  \/ Carried(y, g, m, w, pending)
             \/ c \in Ids /\ y = c /\ mem'[c].hdr = g
             \/ /\ y = x /\ g = hdr
                /\ \E h \in Hosts, j \in PSlots : pending'[h][j] = Entry(x, hdr)
  <2>1. CASE (\E k \in DOMAIN w : w[k].id = y) /\ mem'[y].hdr = g
    <3>1. Carried(y, m[y].hdr, m, w, pending)
      BY <2>1 DEF Carried
    <3>. QED
      BY <1>3, <2>1, <3>1
  <2>2. ASSUME NEW h \in Hosts, NEW j \in PSlots,
               pending'[h][j] # Empty, pending'[h][j].id = y, pending'[h][j].hdr = g
        PROVE  \/ Carried(y, g, m, w, pending)
               \/ /\ y = x /\ g = hdr
                  /\ \E f \in Hosts, l \in PSlots : pending'[f][l] = Entry(x, hdr)
    BY <1>2, <2>2 DEF Carried, Entry
  <2>. QED
    BY <1>1, <1>4, <2>1, <2>2 DEF Carried
<1>5. ASSUME NEW h \in Hosts, NEW j \in PSlots, pending'[h][j] = Entry(x, hdr)
      PROVE  Carried(x, hdr, mem', wire', pending') /\ mem'[x].body = body
  <2>1. Entry(x, hdr) # Empty /\ Entry(x, hdr).id = x /\ Entry(x, hdr).hdr = hdr
    BY NoZero DEF Entry, Empty
  <2>2. Carried(x, hdr, mem', wire', pending')
    BY <1>5, <2>1 DEF Carried
  <2>3. mem'[x] # Freed
    BY <2>2, CarriedAllocated
  <2>. QED
    BY <2>2, <2>3 DEF Output
<1>6. c \in Ids => Carried(c, mem'[c].hdr, mem', wire', pending')
  BY <1>1 DEF Carried
<1>7. CASE c \in Ids /\ mem'[c].body = body /\ mem'[c].hdr = hdr /\ pending' = pending
  <2>1. ~\E h \in Hosts, j \in PSlots : pending'[h][j] = Entry(x, hdr)
    <3>1. Entry(x, hdr) # Empty /\ Entry(x, hdr).id = x
      BY NoZero DEF Entry, Empty
    <3>. QED
      BY <1>7, <3>1 DEF OffStack
  <2>2. \A y, g : Carried(y, g, mem', wire', pending')
                     <=> Carried(y, g, m, w, pending) \/ (y = c /\ g = hdr)
    BY <1>3, <1>4, <1>6, <1>7, <2>1
  <2>. QED
    BY <1>3, <1>7, <2>2 DEF Flies
<1>8. CASE c \notin Ids \/ mem'[c].body.kind = "arp"
  <2>1. CASE \E h \in Hosts, j \in PSlots : pending'[h][j] = Entry(x, hdr)
    <3>1. Carried(x, hdr, mem', wire', pending') /\ mem'[x].body = body
      BY <1>5, <2>1
    <3>2. \A y, b, g : Flies(y, b, g, mem', wire', pending') =>
             Flies(y, b, g, m, w, pending) \/ (y = x /\ b = body /\ g = hdr)
      BY <1>3, <1>4, <1>8, <3>1 DEF Flies
    <3>3. \A y, b, g : Flies(y, b, g, m, w, pending) => Flies(y, b, g, mem', wire', pending')
      BY <1>3 DEF Flies
    <3>4. body.kind = "datagram" => Flies(x, body, hdr, mem', wire', pending')
      BY <3>1 DEF Flies
    <3>. QED
      BY <3>2, <3>3, <3>4 DEF Flies
  <2>2. CASE ~\E h \in Hosts, j \in PSlots : pending'[h][j] = Entry(x, hdr)
    BY <1>3, <1>4, <1>8, <2>2 DEF Flies
  <2>. QED
    BY <2>1, <2>2
<1>9. \/ c = 0
      \/ c \in Ids /\ mem'[c].body.kind = "arp"
      \/ c \in Ids /\ mem'[c].body = body /\ mem'[c].hdr = hdr /\ pending' = pending
  BY DEF Output
<1>. QED
  BY <1>7, <1>8, <1>9, NoZero

\* Freed memory that nobody reaches.
LEMMA FreeFlies ==
    ASSUME NEW m, NEW w, NEW pd, NEW S, \A x \in S : OffStack(x, w, pd)
    PROVE  \A y, b, g : Flies(y, b, g, FreeAll(m, S), w, pd) <=> Flies(y, b, g, m, w, pd)
<1>1. ASSUME NEW y \in Ids, NEW g, NEW n, Carried(y, g, n, w, pd)
      PROVE  FreeAll(m, S)[y] = m[y]
  BY <1>1 DEF Carried, OffStack, FreeAll
<1>. QED
  BY <1>1 DEF Flies, Carried

\* A packet that is made and sent.
LEMMA SendFlies ==
    ASSUME NEW m, NEW w, Heap(m, w, pending, app), Heap(mem', wire', pending', app'),
           cache \in Caches,
           NEW len \in Nat, NEW body \in Body, NEW hdr \in Request,
           NEW done, Idle(done, m, w, pending, app),
           Send(m, w, len, body, hdr, done)
    PROVE  \/ \A y, b, g : Flies(y, b, g, mem', wire', pending') <=> Flies(y, b, g, m, w, pending)
           \/ body.kind = "datagram" /\ \E z \in Ids : \A y, b, g :
                 Flies(y, b, g, mem', wire', pending')
                    <=> Flies(y, b, g, m, w, pending) \/ (y = z /\ b = body /\ g = hdr)
<1>1. m \in [Ids -> Buffer \cup {Freed}] /\ pending \in Queues
  BY DEF Heap, Queues
<1>2. \A y \in done : y \in Ids /\ m[y] # Freed /\ OffStack(y, w, pending)
  BY DEF Idle, Loose
<1>3. \/ mem' = FreeAll(m, done) /\ wire' = w /\ pending' = pending
      \/ \E x \in Ids : \E c : m[x] = Freed /\ Output(m, w, x, body, hdr, c)
  BY <1>1, <1>2, SendOutput
<1>4. CASE mem' = FreeAll(m, done) /\ wire' = w /\ pending' = pending
  BY <1>2, <1>4, FreeFlies
<1>5. ASSUME NEW x \in Ids, NEW c, m[x] = Freed, Output(m, w, x, body, hdr, c)
      PROVE  \/ \A y, b, g : Flies(y, b, g, mem', wire', pending') <=> Flies(y, b, g, m, w, pending)
             \/ body.kind = "datagram" /\ \E z \in Ids : \A y, b, g :
                   Flies(y, b, g, mem', wire', pending')
                      <=> Flies(y, b, g, m, w, pending) \/ (y = z /\ b = body /\ g = hdr)
  <2>1. OffStack(x, w, pending)
    BY <1>5, FreeIsLoose DEF Loose
  <2>. QED
    BY <1>5, <2>1, OutputFlies
<1>. QED
  BY <1>3, <1>4, <1>5

\* icmp_send_error sends no datagram.
LEMMA IcmpErrorFlies ==
    ASSUME NEW m, NEW w, Heap(m, w, pending, app), Heap(mem', wire', pending', app'),
           cache \in Caches,
           NEW h \in Hosts, NEW p, Sound(p), IpBehind(p), IcmpError(m, w, h, p)
    PROVE  \A y, b, g : Flies(y, b, g, mem', wire', pending') <=> Flies(y, b, g, m, w, pending)
<1>1. CASE Failed(m, w, {}, {})
  BY <1>1, FreeFlies DEF Failed
<1>2. CASE Send(m, w, IcmpHdrLen + IpHdrLen + (IF p.len < QuoteLen THEN p.len ELSE QuoteLen),
                ErrorBody(p),
                [proto |-> "ICMP", src |-> h, dst |-> HeaderRead(p).src], {})
  <2>1. IcmpHdrLen + IpHdrLen + (IF p.len < QuoteLen THEN p.len ELSE QuoteLen) \in Nat
    BY DEF IcmpHdrLen, IpHdrLen, QuoteLen, Sound, Buffer
  <2>2. HeaderRead(p) \in Header /\ HeaderRead(p).src \in Dests
    BY BehindIsRoute DEF Header
  <2>3. PICK e \in Body : e = ErrorBody(p) /\ e.kind = "error"
    <3>1. p.body.kind \in Kinds
      BY DEF Sound, Buffer
    <3>2. PICK b \in Body : b = Plain("error") /\ b.kind = "error"
      BY PlainBody DEF Kinds
    <3>3. PICK e : e = [b EXCEPT !.quote = HeaderRead(p), !.about = p.body.kind]
      OBVIOUS
    <3>4. e \in Body /\ e.kind = "error"
      BY <2>2, <3>1, <3>2, <3>3 DEF Body
    <3>. QED
      BY <3>2, <3>3, <3>4 DEF ErrorBody
  <2>4. [proto |-> "ICMP", src |-> h, dst |-> HeaderRead(p).src] \in Request
    <3>1. h \in Dests
      BY HostsAreDests
    <3>. QED
      BY <2>2, <3>1 DEF Request, Protos
  <2>5. Idle({}, m, w, pending, app)
    BY DEF Idle
  <2>. QED
    BY <1>2, <2>1, <2>3, <2>4, <2>5, SendFlies
<1>. QED
  BY <1>1, <1>2 DEF IcmpError

\* The way up the stack takes the packet that arrived from the wire, and adds no
\* datagram.
LEMMA DispatchFlies ==
    ASSUME Heap(mem, wire, pending, app), Heap(mem', wire', pending', app'),
           cache \in Caches, Dispatch
    PROVE  \A y, b, g : Flies(y, b, g, mem', wire', pending')
                           <=> Flies(y, b, g, mem, wire, pending) /\ y # First.id
<1>1. Arrives
  BY DEF Dispatch
<1>2. /\ Heap(mem, Rest, pending, app)
      /\ Loose(First.id, Rest, pending, app) /\ mem[First.id] # Freed /\ Here \in Hosts
  BY <1>1, ArrivalHeap
<1>3. ASSUME Raw.body.kind # "arp"
      PROVE  /\ Heap(OpenedMem, Rest, pending, app)
             /\ OpenedMem[First.id] = Opened /\ Opened # Freed
             /\ Sound(Opened) /\ IpBehind(Opened)
             /\ \A y \in Ids : y # First.id => OpenedMem[y] = mem[y]
  <2>1. \A y \in Ids : y # First.id => OpenedMem[y] = mem[y]
    BY DEF Heap, OpenedMem
  <2>. QED
    BY <1>1, <1>3, <2>1, ArrivalHeap
<1>4. \A y : (\E k \in DOMAIN wire : wire[k].id = y)
                <=> y = First.id \/ \E k \in DOMAIN Rest : Rest[k].id = y
  BY <1>1, WireParts
<1>5. ASSUME NEW m, \A y \in Ids : y # First.id => m[y] = mem[y]
      PROVE  \A y, b, g : Flies(y, b, g, m, Rest, pending)
                             <=> Flies(y, b, g, mem, wire, pending) /\ y # First.id
  <2>1. ASSUME NEW g, NEW n PROVE ~Carried(First.id, g, n, Rest, pending)
    BY <1>2 DEF Carried, Loose, OffStack
  <2>2. ASSUME NEW y \in Ids, y # First.id, NEW g
        PROVE  Carried(y, g, m, Rest, pending) <=> Carried(y, g, mem, wire, pending)
    BY <1>4, <1>5, <2>2 DEF Carried
  <2>3. \A y \in Ids : \A b, g : Flies(y, b, g, m, Rest, pending)
                             <=> Flies(y, b, g, mem, wire, pending) /\ y # First.id
    BY <1>5, <2>1, <2>2 DEF Flies
  <2>. QED
    BY <2>3 DEF Flies
<1>6. ASSUME wire' = Rest, pending' = pending, \A y \in Ids : y # First.id => mem'[y] = mem[y]
      PROVE  \A y, b, g : Flies(y, b, g, mem', wire', pending')
                             <=> Flies(y, b, g, mem, wire, pending) /\ y # First.id
  BY <1>5, <1>6
<1>7. CASE Refuse
  BY <1>6, <1>7 DEF Refuse, Nothing
<1>8. CASE NotIp \/ IcmpConsumes \/ UdpMalformed
  <2>1. mem' = FreeAll(mem, {First.id}) /\ wire' = Rest /\ pending' = pending
    BY <1>8 DEF NotIp, IcmpConsumes, UdpMalformed, Nothing
  <2>2. \A y \in Ids : y # First.id => mem'[y] = mem[y]
    BY <2>1 DEF FreeAll
  <2>. QED
    BY <1>6, <2>1, <2>2
<1>9. CASE Unhandled \/ AppHandler \/ UdpDelivers
  <2>1. Raw.body.kind # "arp" /\ wire' = Rest /\ pending' = pending
    BY <1>9 DEF Unhandled, AppHandler, UdpDelivers, IsFor, Nothing
  <2>2. mem' = OpenedMem \/ mem' = Handed(OpenedMem, First.id)
    BY <1>9 DEF Unhandled, AppHandler, UdpDelivers
  <2>3. OpenedMem \in [Ids -> Buffer \cup {Freed}]
    BY <1>3, <2>1 DEF Heap
  <2>4. \A y \in Ids : y # First.id => mem'[y] = mem[y]
    BY <1>3, <2>1, <2>2, <2>3 DEF Handed
  <2>. QED
    BY <1>6, <2>1, <2>4
<1>10. ASSUME Raw.body.kind # "arp",
              \A y, b, g : Flies(y, b, g, mem', wire', pending')
                              <=> Flies(y, b, g, OpenedMem, Rest, pending)
       PROVE  \A y, b, g : Flies(y, b, g, mem', wire', pending')
                              <=> Flies(y, b, g, mem, wire, pending) /\ y # First.id
  BY <1>3, <1>5, <1>10
<1>11. CASE EchoReply
  <2>0. Raw.body.kind # "arp"
    BY <1>11 DEF EchoReply, IsFor
  <2>1. /\ Heap(OpenedMem, Rest, pending, app) /\ OpenedMem[First.id] # Freed
        /\ Sound(Opened) /\ IpBehind(Opened)
    BY <1>3, <2>0
  <2>2. Idle({First.id}, OpenedMem, Rest, pending, app)
    BY <1>2, <2>1 DEF Idle
  <2>3. Opened.len \in Nat /\ Plain("reply") \in Body /\ Plain("reply").kind = "reply"
    BY <2>1, PlainBody DEF Sound, Buffer, Kinds
  <2>4. ReplyHeader(Opened) \in Request
    BY <2>1, BehindIsRoute DEF ReplyHeader, Request, Protos
  <2>5. Send(OpenedMem, Rest, Opened.len, Plain("reply"), ReplyHeader(Opened), {First.id})
    BY <1>11 DEF EchoReply
  <2>6. \A y, b, g : Flies(y, b, g, mem', wire', pending')
                        <=> Flies(y, b, g, OpenedMem, Rest, pending)
    BY <2>1, <2>2, <2>3, <2>4, <2>5, SendFlies
  <2>. QED
    BY <1>10, <2>0, <2>6
<1>12. CASE UdpUnreachable
  <2>0. Raw.body.kind # "arp"
    BY <1>12 DEF UdpUnreachable, IsFor
  <2>1. /\ Heap(OpenedMem, Rest, pending, app) /\ Sound(Opened) /\ IpBehind(Opened)
    BY <1>3, <2>0
  <2>2. IcmpError(OpenedMem, Rest, Here, Opened)
    BY <1>12 DEF UdpUnreachable
  <2>3. \A y, b, g : Flies(y, b, g, mem', wire', pending')
                        <=> Flies(y, b, g, OpenedMem, Rest, pending)
    BY <1>2, <2>1, <2>2, IcmpErrorFlies
  <2>. QED
    BY <1>10, <2>0, <2>3
<1>. QED
  BY <1>7, <1>8, <1>9, <1>11, <1>12 DEF Dispatch

\* arp_pending_flush moves a datagram from its slot to the clone on the wire.
LEMMA FlushFlies ==
    ASSUME Heap(mem, wire, pending, app),
           NEW h \in Hosts, NEW adr \in Dests, NEW mac \in Hosts, Flush(h, adr, mac)
    PROVE  /\ \A y, b, g : Flies(y, b, g, mem', wire', pending') =>
                 \E x : Flies(x, b, g, mem, wire, pending)
           /\ \A y, z, b, e, f, g :
                 Flies(y, b, f, mem', wire', pending') /\ Flies(z, e, g, mem', wire', pending')
                    /\ y # z
                 => \E u, v : u # v /\ Flies(u, b, f, mem, wire, pending)
                                    /\ Flies(v, e, g, mem, wire, pending)
<1>0. PICK sent \in SUBSET Waiting(h, adr) : \E c \in [sent -> Ids] :
        /\ Distinct(sent, c) /\ Fresh(h, adr, sent, c) /\ Delivered(h, adr, sent, c)
        /\ \A y : y \in OnWire' <=> y \in OnWire \/ \E i \in sent : c[i] = y
        /\ \A g \in Hosts, j \in PSlots :
              pending'[g][j] = IF g = h /\ j \in Waiting(h, adr) THEN Empty ELSE pending[g][j]
  BY FlushEffect
<1>1. PICK c \in [sent -> Ids] :
        /\ Distinct(sent, c) /\ Fresh(h, adr, sent, c) /\ Delivered(h, adr, sent, c)
        /\ \A y : y \in OnWire' <=> y \in OnWire \/ \E i \in sent : c[i] = y
        /\ \A g \in Hosts, j \in PSlots :
              pending'[g][j] = IF g = h /\ j \in Waiting(h, adr) THEN Empty ELSE pending[g][j]
  BY <1>0
<1>2. \A i \in Waiting(h, adr) : i \in PSlots /\ pending[h][i] # Empty
  BY DEF Waiting
<1>3. /\ \A y : (\E k \in DOMAIN wire : wire[k].id = y) <=> y \in OnWire
      /\ \A y : (\E k \in DOMAIN wire' : wire'[k].id = y) <=> y \in OnWire'
  BY DEF OnWire
<1>4. ASSUME NEW y, NEW b, NEW g, Flies(y, b, g, mem', wire', pending')
      PROVE  \/ /\ Flies(y, b, g, mem, wire, pending)
                /\ \A i \in Waiting(h, adr) : pending[h][i].id # y
             \/ \E i \in sent : y = c[i] /\ Flies(pending[h][i].id, b, g, mem, wire, pending)
  <2>1. ASSUME NEW i \in sent, y = c[i]
        PROVE  Flies(pending[h][i].id, b, g, mem, wire, pending)
    <3>1. pending[h][i].id \in Ids
      BY <1>2, HeapRefs
    <3>2. /\ mem'[y].body = mem[pending[h][i].id].body
          /\ mem'[y].hdr = pending[h][i].hdr
      BY <1>1, <2>1 DEF Delivered
    <3>3. ~\E f \in Hosts, j \in PSlots : pending'[f][j] # Empty /\ pending'[f][j].id = y
      BY <1>1, <2>1 DEF Fresh
    <3>4. g = pending[h][i].hdr
      BY <1>4, <3>2, <3>3 DEF Flies, Carried
    <3>. QED
      BY <1>2, <1>4, <3>1, <3>2, <3>4 DEF Flies, Carried
  <2>2. ASSUME \A i \in sent : c[i] # y
        PROVE  /\ Flies(y, b, g, mem, wire, pending)
               /\ \A i \in Waiting(h, adr) : pending[h][i].id # y
    <3>1. CASE y \in OnWire'
      <4>1. y \in OnWire
        BY <1>1, <2>2, <3>1
      <4>2. \A i \in Waiting(h, adr) : pending[h][i].id # y
        BY <1>2, <1>3, <4>1 DEF Heap
      <4>3. \A f \in Hosts, j \in PSlots : pending[f][j] # Empty => pending[f][j].id # y
        BY <1>3, <4>1 DEF Heap
      <4>4. \A f \in Hosts, j \in PSlots : pending'[f][j] # Empty => pending'[f][j].id # y
        BY <1>1, <4>3
      <4>5. y \in Ids /\ mem'[y] = mem[y]
        BY <1>1, <1>4, <2>2, <4>2 DEF Delivered, Flies
      <4>. QED
        BY <1>3, <1>4, <4>1, <4>2, <4>4, <4>5 DEF Flies, Carried
    <3>2. ASSUME NEW f \in Hosts, NEW j \in PSlots,
                 pending'[f][j] # Empty, pending'[f][j].id = y, y \notin OnWire'
          PROVE  /\ Flies(y, b, g, mem, wire, pending)
                 /\ \A i \in Waiting(h, adr) : pending[h][i].id # y
      <4>1. pending'[f][j] = pending[f][j] /\ ~(f = h /\ j \in Waiting(h, adr))
        BY <1>1, <3>2
      <4>2. \A i \in Waiting(h, adr) : pending[h][i].id # y
        BY <1>2, <3>2, <4>1 DEF Heap
      <4>3. y \in Ids /\ mem'[y] = mem[y]
        BY <1>1, <1>4, <2>2, <4>2 DEF Delivered, Flies
      <4>4. \E k \in Hosts, l \in PSlots :
               pending'[k][l] # Empty /\ pending'[k][l].id = y /\ pending'[k][l].hdr = g
        BY <1>3, <1>4, <3>2 DEF Flies, Carried
      <4>5. \E k \in Hosts, l \in PSlots :
               pending[k][l] # Empty /\ pending[k][l].id = y /\ pending[k][l].hdr = g
        BY <1>1, <4>4
      <4>. QED
        BY <1>4, <4>2, <4>3, <4>5 DEF Flies, Carried
    <3>. QED
      BY <1>3, <1>4, <3>1, <3>2 DEF Flies, Carried
  <2>. QED
    BY <2>1, <2>2
<1>5. ASSUME NEW y, NEW z, NEW b, NEW e, NEW f, NEW g,
             Flies(y, b, f, mem', wire', pending'), Flies(z, e, g, mem', wire', pending'), y # z
      PROVE  \E u, v : u # v /\ Flies(u, b, f, mem, wire, pending)
                             /\ Flies(v, e, g, mem, wire, pending)
  <2>1. ASSUME NEW i \in sent, NEW j \in sent, i # j
        PROVE  pending[h][i].id # pending[h][j].id
    BY <1>2, <2>1 DEF Heap
  <2>. QED
    BY <1>4, <1>5, <2>1
<1>. QED
  BY <1>4, <1>5

\* The packet at x was given by a socket to an application that still has it.
Held(a, t, x) == x \in a /\ t[x] # Nobody

\* Of the application's calls, udp_send alone adds a datagram: one with a new number.
LEMMA ApplicationFlies ==
    ASSUME IInv, Heap(mem', wire', pending', app'), Back(mem, pending, app), Application
    PROVE  /\ sends' \in Nat /\ sends <= sends'
           /\ \/ \A y, b, g : Flies(y, b, g, mem', wire', pending')
                                 <=> Flies(y, b, g, mem, wire, pending)
              \/ \E z \in Ids, body \in Body, hdr \in Request :
                    /\ body.kind = "datagram" /\ body.name = sends' /\ sends' = sends + 1
                    /\ \A y, b, g :
                          Flies(y, b, g, mem', wire', pending')
                             <=> Flies(y, b, g, mem, wire, pending)
                                 \/ (y = z /\ b = body /\ g = hdr)
                    /\ app' = app /\ told' = told
<1>0. /\ Heap(mem, wire, pending, app) /\ cache \in Caches /\ sends \in 0 .. MaxSends
      /\ mem \in [Ids -> Buffer \cup {Freed}] /\ pending \in Queues
      /\ sends \in Nat
  BY DEF IInv, TypeOK, Caches, Heap, Queues
<1>1. ASSUME NEW src \in Dests, NEW dst \in Dests, NEW proto \in Protos
      PROVE  [proto |-> proto, src |-> src, dst |-> dst] \in Request
  BY DEF Request
<1>2. "UDP" \in Protos /\ "ICMP" \in Protos
  BY DEF Protos
<1>3. Idle({}, mem, wire, pending, app)
  BY DEF Idle
<1>4. \A r \in Pairs : r[1] \in Dests /\ r[2] \in Dests
  <2>1. Pairs \subseteq Dests \X Dests
    BY HostsAssumption, Zenon
  <2>. QED
    BY <2>1
<1> DEFINE Same == \A y, b, g : Flies(y, b, g, mem', wire', pending')
                                   <=> Flies(y, b, g, mem, wire, pending)
<1> DEFINE Posted ==
       \E z \in Ids, body \in Body, hdr \in Request :
           /\ body.kind = "datagram" /\ body.name = sends' /\ sends' = sends + 1
           /\ \A y, b, g :
                 Flies(y, b, g, mem', wire', pending')
                    <=> Flies(y, b, g, mem, wire, pending)
                        \/ (y = z /\ b = body /\ g = hdr)
           /\ app' = app /\ told' = told
<1>5. ASSUME Sending PROVE sends' = sends + 1 /\ sends' \in Nat /\ sends <= sends'
  BY <1>0, <1>5 DEF Sending
<1>6. ASSUME NEW r \in Pairs, NEW port \in Ports, UdpSend(r[1], r[2], port)
      PROVE  Same \/ Posted
  <2>1. sends + 1 \in 0 .. MaxSends /\ sends' = sends + 1
    <3>1. MaxSends \in Nat
      BY HostsAssumption
    <3>. QED
      BY <1>0, <1>6, <3>1 DEF UdpSend, Sending
  <2>2. PICK body \in Body :
          body = Datagram(sends + 1, port) /\ body.kind = "datagram" /\ body.name = sends + 1
    BY <2>1, DatagramBody
  <2>3. UdpHdrLen \in Nat
    BY DEF UdpHdrLen
  <2>4. PICK hdr \in Request : hdr = [proto |-> "UDP", src |-> r[1], dst |-> r[2]]
    BY <1>1, <1>2, <1>4
  <2>5. Send(mem, wire, UdpHdrLen, body, hdr, {}) /\ app' = app /\ told' = told
    BY <1>6, <2>2, <2>4 DEF UdpSend, Quiet
  <2>6. \/ Same
        \/ \E z \in Ids : \A y, b, g :
              Flies(y, b, g, mem', wire', pending')
                 <=> Flies(y, b, g, mem, wire, pending) \/ (y = z /\ b = body /\ g = hdr)
    BY <1>0, <1>3, <2>3, <2>5, SendFlies
  <2>. QED
    BY <2>1, <2>2, <2>5, <2>6
<1>7. ASSUME NEW r \in Pairs, EchoRequest(r[1], r[2])
      PROVE  Same
  <2>1. PICK body \in Body : body = Plain("request") /\ body.kind = "request"
    BY PlainBody DEF Kinds
  <2>2. IcmpHdrLen \in Nat
    BY DEF IcmpHdrLen
  <2>3. PICK hdr \in Request : hdr = [proto |-> "ICMP", src |-> r[1], dst |-> r[2]]
    BY <1>1, <1>2, <1>4
  <2>4. Send(mem, wire, IcmpHdrLen, body, hdr, {}) /\ app' = app
    BY <1>7, <2>1, <2>3 DEF EchoRequest, Quiet
  <2>. QED
    BY <1>0, <1>3, <2>1, <2>2, <2>4, SendFlies
<1>8. ASSUME NEW x \in Ids, OffStack(x, wire, pending), wire' = wire, pending' = pending,
             \A y \in Ids : y # x => mem'[y] = mem[y]
      PROVE  Same
  <2>1. \A y, g, n : Carried(y, g, n, wire, pending) => y # x
    BY <1>8 DEF Carried, OffStack
  <2>2. ASSUME NEW y \in Ids, y # x, NEW g
        PROVE  Carried(y, g, mem', wire', pending') <=> Carried(y, g, mem, wire, pending)
    BY <1>8, <2>2 DEF Carried
  <2>3. \A y \in Ids : \A b, g : Flies(y, b, g, mem', wire', pending')
                                   <=> Flies(y, b, g, mem, wire, pending)
    BY <1>8, <2>1, <2>2 DEF Flies
  <2>. QED
    BY <2>3 DEF Flies
<1>9. ASSUME AppCreates(1)
      PROVE  Same
  <2>1. PICK x, p : x \in Ids /\ Lowest(FreeIn(mem), x) /\ mem' = [mem EXCEPT ![x] = p]
    BY <1>9 DEF AppCreates
  <2>2. wire' = wire /\ pending' = pending
    BY <1>9 DEF AppCreates
  <2>3. OffStack(x, wire, pending)
    BY <1>0, <2>1, FreeIsLoose DEF Lowest, FreeIn, Loose
  <2>4. \A y \in Ids : y # x => mem'[y] = mem[y]
    BY <1>0, <2>1
  <2>5. x \in Ids
    BY <2>1
  <2>. QED
    BY <1>8, <2>2, <2>3, <2>4, <2>5
<1>10. ASSUME NEW x \in app PROVE x \in Ids /\ mem[x] # Freed /\ OffStack(x, wire, pending)
  BY <1>0 DEF Heap, OffStack
<1>11. ASSUME NEW x \in Ids, NEW r \in Pairs, NEW proto \in Protos,
              HostSendIp(x, r[1], r[2], proto)
       PROVE  Same
  <2>1. PICK hdr \in Request : hdr = [proto |-> proto, src |-> r[1], dst |-> r[2]]
    BY <1>1, <1>4
  <2>2. x \in app /\ (Keeps(mem, wire, x, hdr, {}, {}) \/ Takes(mem, wire, x, hdr, {}))
    BY <1>11, <2>1 DEF HostSendIp
  <2>3. mem[x] # Freed /\ mem[x].body.kind = "raw" /\ OffStack(x, wire, pending)
    BY <1>10, <1>11, <2>2 DEF Back, HostSendIp
  <2>4. PICK c : Output(mem, wire, x, mem[x].body, hdr, c)
    <3>1. CASE Keeps(mem, wire, x, hdr, {}, {})
      <4>1. \A y \in {} \cup {} : y \in Ids /\ mem[y] # Freed
        OBVIOUS
      <4>2. \E c : /\ Output(mem, wire, x, mem[x].body, hdr, c)
                   /\ pending' = pending /\ Freed0({} \cup {})
        BY <1>0, <2>3, <3>1, <4>1, KeepsOutput
      <4>. QED
        BY <4>2
    <3>2. CASE Takes(mem, wire, x, hdr, {})
      <4>1. x \notin {} /\ \A y \in {} : y \in Ids /\ mem[y] # Freed
        OBVIOUS
      <4>. QED
        BY <1>0, <2>3, <3>2, <4>1, TakesOutput
    <3>. QED
      BY <2>2, <3>1, <3>2
  <2>5. PICK body : body = mem[x].body /\ body.kind = "raw"
    BY <2>3
  <2>. QED
    BY <1>0, <2>3, <2>4, <2>5, OutputFlies
<1>12. ASSUME NEW x \in Ids, AppFrees(x)
       PROVE  Same
  <2>1. /\ x \in app /\ mem' = FreeAll(mem, {x}) /\ wire' = wire /\ pending' = pending
    BY <1>12 DEF AppFrees
  <2>2. \A y \in {x} : OffStack(y, wire, pending)
    BY <1>10, <2>1
  <2>. QED
    BY <2>1, <2>2, FreeFlies
<1>13. ASSUME NEW h \in Hosts, NEW x \in Ids, AppSendsError(h, x)
       PROVE  Same
  <2>1. x \in app /\ IpBehind(mem[x]) /\ IcmpError(mem, wire, h, mem[x])
    BY <1>13 DEF AppSendsError
  <2>2. Sound(mem[x])
    BY <1>0, <2>1 DEF Heap
  <2>. QED
    BY <1>0, <2>1, <2>2, IcmpErrorFlies
<1>14. sends' \in Nat /\ sends <= sends'
  <2>1. \A r, port : UdpSend(r[1], r[2], port) => Sending
    BY DEF UdpSend
  <2>2. \A r : EchoRequest(r[1], r[2]) => Sending
    BY DEF EchoRequest
  <2>3. AppCreates(1) => Sending
    BY DEF AppCreates
  <2>4. \A x, r, proto : HostSendIp(x, r[1], r[2], proto) => Sending
    BY DEF HostSendIp
  <2>5. \A x : AppFrees(x) => sends' = sends
    BY DEF AppFrees, bounds
  <2>6. \A h, x : AppSendsError(h, x) => Sending
    BY DEF AppSendsError
  <2>7. Sending \/ sends' = sends
    BY <2>1, <2>2, <2>3, <2>4, <2>5, <2>6 DEF Application
  <2>. QED
    BY <1>0, <1>5, <2>7
<1> HIDE DEF Same, Posted
<1>15. Same \/ Posted
  BY <1>6, <1>7, <1>9, <1>11, <1>12, <1>13 DEF Application
<1>. QED
  BY <1>14, <1>15 DEF Same, Posted

\* The application gets nothing by its own calls.
LEMMA ApplicationHolds ==
    ASSUME IInv, \A x \in Ids \ app : told[x] = Nobody, Application
    PROVE  \A x \in Ids : /\ x \notin app' => told'[x] = Nobody
                          /\ Held(app', told', x) => Held(app, told, x) /\ told'[x] = told[x]
<1>0. Heap(mem, wire, pending, app) /\ told \in [Ids -> [name : 0 .. MaxSends, from : Dests \cup {0}]]
  BY DEF IInv, TypeOK
<1>1. ASSUME app' = app, told' = told
      PROVE  \A x \in Ids : /\ x \notin app' => told'[x] = Nobody
                            /\ Held(app', told', x) => Held(app, told, x) /\ told'[x] = told[x]
  BY <1>1 DEF Held
<1>2. ASSUME NEW z \in Ids, told' = [told EXCEPT ![z] = Nobody], app' = app \/ app' = app \ {z}
      PROVE  \A x \in Ids : /\ x \notin app' => told'[x] = Nobody
                            /\ Held(app', told', x) => Held(app, told, x) /\ told'[x] = told[x]
  <2>1. told'[z] = Nobody /\ \A x \in Ids : x # z => told'[x] = told[x]
    BY <1>0, <1>2
  <2>. QED
    BY <1>2, <2>1 DEF Held
<1>3. CASE AppCreates(1)
  <2>1. PICK z \in Ids : Lowest(FreeIn(mem), z) /\ app' = app \cup {z}
    BY <1>3 DEF AppCreates
  <2>2. z \notin app
    BY <1>0, <2>1, FreeIsLoose DEF Lowest, FreeIn, Loose
  <2>3. told' = told
    BY <1>3 DEF AppCreates
  <2>. QED
    BY <2>1, <2>2, <2>3 DEF Held
<1>4. \A r, port : UdpSend(r[1], r[2], port) => app' = app /\ told' = told
  BY DEF UdpSend, Quiet
<1>5. \A r : EchoRequest(r[1], r[2]) => app' = app /\ told' = told
  BY DEF EchoRequest, Quiet
<1>6. \A h, x : AppSendsError(h, x) => app' = app /\ told' = told
  BY DEF AppSendsError, Quiet
<1>7. \A z, r, proto : HostSendIp(z, r[1], r[2], proto) =>
         told' = [told EXCEPT ![z] = Nobody] /\ (app' = app \/ app' = app \ {z})
  BY DEF HostSendIp
<1>8. \A z : AppFrees(z) => told' = [told EXCEPT ![z] = Nobody] /\ app' = app \ {z}
  BY DEF AppFrees
<1>. QED
  BY <1>1, <1>2, <1>3, <1>4, <1>5, <1>6, <1>7, <1>8 DEF Application

\* Datagrams under way have different numbers, all of them given out.
Named(m, w, pd, n) ==
    /\ \A y, b, g : Flies(y, b, g, m, w, pd) => b.name \in 1 .. n
    /\ \A y, z, b, e, f, g :
          Flies(y, b, f, m, w, pd) /\ Flies(z, e, g, m, w, pd) /\ b.name = e.name => y = z

\* What a step that adds no datagram keeps.
LEMMA NamedKept ==
    ASSUME Named(mem, wire, pending, sends), sends \in Nat, sends' \in Nat, sends <= sends',
           \A y, b, g : Flies(y, b, g, mem', wire', pending')
                           => Flies(y, b, g, mem, wire, pending)
    PROVE  Named(mem', wire', pending', sends')
<1>1. \A n \in 1 .. sends : n \in 1 .. sends'
  OBVIOUS
<1>. QED
  BY <1>1 DEF Named

\* The rest of the history: a packet that no application has was told to nobody.
DeliveryInv ==
    /\ BackInv
    /\ Named(mem, wire, pending, sends)
    /\ \A x \in Ids \ app : told[x] = Nobody

THEOREM DeliveryInvariant == Spec => []DeliveryInv
<1>1. Init => Named(mem, wire, pending, sends) /\ \A x \in Ids \ app : told[x] = Nobody
  <2> SUFFICES ASSUME Init
               PROVE  Named(mem, wire, pending, sends) /\ \A x \in Ids \ app : told[x] = Nobody
    OBVIOUS
  <2>1. /\ \A x \in Ids : mem[x] = Freed /\ told[x] = Nobody
        /\ Heap(mem, wire, pending, app)
    BY InitHeap DEF Init
  <2>2. \A y, b, g : ~Flies(y, b, g, mem, wire, pending)
    BY <2>1, CarriedAllocated DEF Flies
  <2>. QED
    BY <2>1, <2>2 DEF Named
<1>2. DeliveryInv /\ BackInv' /\ [Next]_vars
        => Named(mem, wire, pending, sends)' /\ (\A x \in Ids \ app : told[x] = Nobody)'
  <2> SUFFICES ASSUME DeliveryInv, BackInv', [Next]_vars
               PROVE  Named(mem', wire', pending', sends') /\ \A x \in Ids \ app' : told'[x] = Nobody
    OBVIOUS
  <2>1. /\ IInv /\ Back(mem, pending, app) /\ cache \in Caches
        /\ Heap(mem, wire, pending, app) /\ Heap(mem', wire', pending', app')
        /\ Named(mem, wire, pending, sends) /\ \A x \in Ids \ app : told[x] = Nobody
        /\ sends \in Nat /\ sends' \in Nat
    BY DEF DeliveryInv, BackInv, IInv, TypeOK, Caches
  <2>2. CASE Application
    <3>1. \A x \in Ids : x \notin app' => told'[x] = Nobody
      BY <2>1, <2>2, ApplicationHolds
    <3>2. sends <= sends'
      BY <2>1, <2>2, ApplicationFlies
    <3>3. CASE \A y, b, g : Flies(y, b, g, mem', wire', pending')
                               <=> Flies(y, b, g, mem, wire, pending)
      BY <2>1, <3>1, <3>2, <3>3, NamedKept
    <3>4. ASSUME NEW z \in Ids, NEW body \in Body, NEW hdr \in Request,
                 body.name = sends', sends' = sends + 1,
                 \A y, b, g : Flies(y, b, g, mem', wire', pending')
                    <=> Flies(y, b, g, mem, wire, pending) \/ (y = z /\ b = body /\ g = hdr)
          PROVE  Named(mem', wire', pending', sends')
      <4>1. /\ sends' \in 1 .. sends' /\ sends' \notin 1 .. sends
            /\ \A n \in 1 .. sends : n \in 1 .. sends'
        BY <2>1, <3>4
      <4>2. \A y, b, g : Flies(y, b, g, mem, wire, pending) => b.name # body.name
        BY <2>1, <3>4, <4>1 DEF Named
      <4>. QED
        BY <2>1, <3>4, <4>1, <4>2 DEF Named
    <3>. QED
      BY <2>1, <2>2, <3>1, <3>3, <3>4, ApplicationFlies
  <2>3. CASE Dispatch
    <3>1. sends' = sends
      BY <2>3 DEF Dispatch, bounds
    <3>2. Named(mem', wire', pending', sends')
      BY <2>1, <2>3, <3>1, DispatchFlies, NamedKept
    <3>3. CASE UdpDelivers
      <4>1. /\ app' = app \cup {First.id}
            /\ told' = [told EXCEPT ![First.id] =
                          [name |-> Opened.body.name, from |-> SourceOf(Opened)]]
        BY <3>3 DEF UdpDelivers
      <4>2. told \in [Ids -> [name : 0 .. MaxSends, from : Dests \cup {0}]]
        BY <2>1 DEF IInv, TypeOK
      <4>3. \A x \in Ids : x # First.id => told'[x] = told[x]
        BY <4>1, <4>2
      <4>. QED
        BY <2>1, <3>2, <4>1, <4>3
    <3>4. CASE ~UdpDelivers
      <4>1. told' = told /\ app \subseteq app'
        BY <2>3, <3>4
           DEF Dispatch, Refuse, NotIp, Unhandled, AppHandler, IcmpConsumes, EchoReply,
               UdpMalformed, UdpUnreachable, Nothing
      <4>. QED
        BY <2>1, <3>2, <4>1
    <3>. QED
      BY <3>3, <3>4
  <2>4. CASE UNCHANGED <<mem, wire, pending, app, told, sends>>
    BY <2>1, <2>4
  <2>5. ASSUME NEW h \in Hosts, NEW adr \in Dests, NEW mac \in Hosts,
               Flush(h, adr, mac), UNCHANGED <<app, told, sends>>
        PROVE  Named(mem', wire', pending', sends') /\ \A x \in Ids \ app' : told'[x] = Nobody
    <3>1. Named(mem', wire', pending', sends)
      BY <2>1, <2>5, FlushFlies DEF Named
    <3>. QED
      BY <2>1, <2>5, <3>1
  <2>6. CASE Administration
    BY <2>4, <2>5, <2>6, AdministrationSteps
  <2>7. CASE UNCHANGED vars
    BY <2>4, <2>7 DEF vars
  <2>. QED
    BY <2>2, <2>3, <2>6, <2>7 DEF Next
<1>. QED
  BY <1>1, <1>2, BackInvariant, PTL DEF Spec, DeliveryInv

\* The datagram with payload b and header g, as its service sees it.
Datum(b, g) == [name |-> b.name, src |-> g.src, dst |-> g.dst, port |-> b.port]

FlightAgrees ==
    \A d : d \in InFlight <=> \E y, b, g : Flies(y, b, g, mem, wire, pending) /\ d = Datum(b, g)

LEMMA FlightIsFlies == Heap(mem, wire, pending, app) => FlightAgrees
<1> SUFFICES ASSUME Heap(mem, wire, pending, app) PROVE FlightAgrees
  OBVIOUS
<1>1. ASSUME NEW d, NEW y, NEW b, NEW g, Flies(y, b, g, mem, wire, pending), d = Datum(b, g)
      PROVE  d \in InFlight
  <2>1. d = AsDatagram(mem[y], g)
    BY <1>1 DEF Flies, Datum, AsDatagram
  <2>2. CASE (\E k \in DOMAIN wire : wire[k].id = y) /\ mem[y].hdr = g
    <3>1. y \in OnWire /\ mem[y].body.kind = "datagram"
      BY <1>1, <2>2 DEF OnWire, Flies
    <3>. QED
      BY <2>1, <2>2, <3>1 DEF InFlight
  <2>3. ASSUME NEW h \in Hosts, NEW j \in PSlots,
               pending[h][j] # Empty, pending[h][j].id = y, pending[h][j].hdr = g
        PROVE  d \in InFlight
    <3>1. j \in Queued(h) /\ mem[pending[h][j].id].body.kind = "datagram"
      BY <1>1, <2>3 DEF Queued, Flies
    <3>2. d = AsDatagram(mem[pending[h][j].id], pending[h][j].hdr)
      BY <2>1, <2>3
    <3>. QED
      BY <3>1, <3>2 DEF InFlight
  <2>. QED
    BY <1>1, <2>2, <2>3 DEF Flies, Carried
<1>2. ASSUME NEW d \in InFlight
      PROVE  \E y, b, g : Flies(y, b, g, mem, wire, pending) /\ d = Datum(b, g)
  <2>1. ASSUME NEW y \in OnWire, mem[y].body.kind = "datagram", d = AsDatagram(mem[y], mem[y].hdr)
        PROVE  Flies(y, mem[y].body, mem[y].hdr, mem, wire, pending) /\ d = Datum(mem[y].body, mem[y].hdr)
    <3>1. \E k \in DOMAIN wire : wire[k].id = y
      BY DEF OnWire
    <3>2. y \in Ids
      BY <3>1, HeapRefs
    <3>. QED
      BY <2>1, <3>1, <3>2 DEF Flies, Carried, AsDatagram, Datum
  <2>2. ASSUME NEW h \in Hosts, NEW j \in Queued(h), mem[pending[h][j].id].body.kind = "datagram",
               d = AsDatagram(mem[pending[h][j].id], pending[h][j].hdr)
        PROVE  /\ Flies(pending[h][j].id, mem[pending[h][j].id].body, pending[h][j].hdr, mem, wire, pending)
               /\ d = Datum(mem[pending[h][j].id].body, pending[h][j].hdr)
    <3>1. j \in PSlots /\ pending[h][j] # Empty
      BY DEF Queued
    <3>2. pending[h][j].id \in Ids
      BY <3>1, HeapRefs
    <3>. QED
      BY <2>2, <3>1, <3>2 DEF Flies, Carried, AsDatagram, Datum
  <2>3. \/ \E y \in OnWire : mem[y].body.kind = "datagram" /\ d = AsDatagram(mem[y], mem[y].hdr)
        \/ \E h \in Hosts : \E j \in Queued(h) :
              /\ mem[pending[h][j].id].body.kind = "datagram"
              /\ d = AsDatagram(mem[pending[h][j].id], pending[h][j].hdr)
    BY DEF InFlight
  <2>. QED
    BY <2>1, <2>2, <2>3
<1>. QED
  BY <1>1, <1>2 DEF FlightAgrees

LEMMA FlightIsFliesNext == Heap(mem, wire, pending, app)' => FlightAgrees'
  BY FlightIsFlies, PTL

\* A step by which datagrams go, or are let go.
LEMMA LoseStep ==
    ASSUME Heap(mem, wire, pending, app), Heap(mem, wire, pending, app)',
           \A y, b, g : Flies(y, b, g, mem', wire', pending')
                           => \E x : Flies(x, b, g, mem, wire, pending),
           \A x \in Ids : Held(app', told', x) => Held(app, told, x) /\ told'[x] = told[x],
           sends' >= sends
    PROVE  D!DNext
<1>1. FlightAgrees /\ FlightAgrees'
  BY FlightIsFlies, FlightIsFliesNext
<1>2. InFlight' \subseteq InFlight
  BY <1>1 DEF FlightAgrees
<1>3. app' \subseteq Ids
  BY DEF Heap
<1>4. ({told[i] : i \in app} \ {Nobody})' \subseteq {told[i] : i \in app} \ {Nobody}
  BY <1>3 DEF Held
<1>. QED
  BY <1>2, <1>4 DEF D!DNext, D!Lose

\* Of the datagrams under way, the one at z is new.
Joins(z, body, hdr) ==
    \A y, b, g : Flies(y, b, g, mem', wire', pending')
       <=> Flies(y, b, g, mem, wire, pending) \/ (y = z /\ b = body /\ g = hdr)

\* udp_send puts a datagram under way.
LEMMA PostStep ==
    ASSUME Heap(mem, wire, pending, app), Heap(mem, wire, pending, app)',
           NEW z, NEW body, NEW hdr,
           body.name = sends', sends' = sends + 1, sends \in Nat,
           Joins(z, body, hdr), app' = app, told' = told
    PROVE  D!DNext
<1>1. FlightAgrees /\ FlightAgrees'
  BY FlightIsFlies, FlightIsFliesNext
<1>2. Datum(body, hdr).name = sends'
  BY DEF Datum
<1>3. \A d : d \in InFlight' <=> d \in InFlight \/ d = Datum(body, hdr)
  BY <1>1 DEF FlightAgrees, Joins
<1>4. InFlight' = InFlight \cup {Datum(body, hdr)} /\ Datum(body, hdr) \in InFlight'
  BY <1>3
<1>5. sends' > sends
  OBVIOUS
<1>6. UNCHANGED ({told[i] : i \in app} \ {Nobody})
  OBVIOUS
<1>. QED
  BY <1>2, <1>4, <1>5, <1>6 DEF D!DNext, D!Post

\* udp_receive hands over the datagram that arrived, with the address it was
\* sent from, and takes it from the wire.
LEMMA ReceiveStep ==
    ASSUME DeliveryInv, Heap(mem, wire, pending, app)', Dispatch, UdpDelivers
    PROVE  D!DNext
<1>0. /\ Heap(mem, wire, pending, app) /\ cache \in Caches
      /\ Named(mem, wire, pending, sends)
      /\ told \in [Ids -> [name : 0 .. MaxSends, from : Dests \cup {0}]]
  BY DEF DeliveryInv, BackInv, IInv, TypeOK, Caches
<1>1. Arrives /\ sends' = sends
  BY DEF Dispatch, bounds
<1>2. /\ Raw.body.kind # "arp" /\ Opened.body.kind = "datagram"
      /\ app' = app \cup {First.id}
      /\ told' = [told EXCEPT ![First.id] =
                    [name |-> Opened.body.name, from |-> SourceOf(Opened)]]
  BY DEF UdpDelivers, IsFor, IsDatagram
<1>3. Opened.body = Raw.body /\ Opened.hdr = Raw.hdr /\ IpBehind(Opened)
  BY <1>0, <1>1, <1>2, OpenedKeeps, ArrivalHeap
<1>4. First.id \in Ids /\ First.id \notin app
      /\ \A h \in Hosts, j \in PSlots : pending[h][j] # Empty => pending[h][j].id # First.id
  BY <1>0, <1>1, ArrivalHeap DEF Loose, OffStack
<1>5. Flies(First.id, Raw.body, Raw.hdr, mem, wire, pending)
  <2>1. \E k \in DOMAIN wire : wire[k].id = First.id
    BY <1>0, <1>1, WireParts
  <2>. QED
    BY <1>2, <1>3, <1>4, <2>1 DEF Flies, Carried, Raw
<1>6. \A b, g : Flies(First.id, b, g, mem, wire, pending) => b = Raw.body /\ g = Raw.hdr
  BY <1>4 DEF Flies, Carried, Raw
<1>7. \A y, b, g : Flies(y, b, g, mem', wire', pending')
                      <=> Flies(y, b, g, mem, wire, pending) /\ y # First.id
  BY <1>0, DispatchFlies
<1>8. FlightAgrees /\ FlightAgrees'
  BY <1>0, FlightIsFlies, FlightIsFliesNext
<1>9. PICK d : d = Datum(Raw.body, Raw.hdr)
  OBVIOUS
<1>10. d \in InFlight /\ d.name = Raw.body.name /\ d.src = Raw.hdr.src
  BY <1>5, <1>8, <1>9 DEF FlightAgrees, Datum
<1>11. ASSUME NEW y, NEW b, NEW g, Flies(y, b, g, mem, wire, pending)
       PROVE  y # First.id <=> Datum(b, g) # d
  <2>1. y # First.id => b.name # Raw.body.name
    BY <1>0, <1>5, <1>11 DEF Named
  <2>2. Datum(b, g).name = b.name
    BY DEF Datum
  <2>. QED
    BY <1>6, <1>9, <1>10, <1>11, <2>1, <2>2
<1>12. InFlight' = InFlight \ {d}
  <2>1. \A e : e \in InFlight' <=> e \in InFlight /\ e # d
    BY <1>7, <1>8, <1>11 DEF FlightAgrees
  <2>. QED
    BY <2>1
<1>13. PICK t : t = [name |-> d.name, from |-> d.src]
  OBVIOUS
<1>14. t # Nobody
  <2>1. Raw.body.name \in 1 .. sends
    BY <1>0, <1>5 DEF Named
  <2>2. t.name # 0
    BY <1>10, <1>13, <2>1
  <2>. QED
    BY <2>2 DEF Nobody
<1>15. told'[First.id] = t /\ \A x \in Ids : x # First.id => told'[x] = told[x]
  <2>1. t = [name |-> Opened.body.name, from |-> SourceOf(Opened)]
    BY <1>3, <1>10, <1>13 DEF SourceOf, HeaderRead
  <2>. QED
    BY <1>0, <1>2, <1>4, <2>1
<1>16. \A e : e \in ({told[i] : i \in app} \ {Nobody})'
                 <=> e \in {told[i] : i \in app} \ {Nobody} \/ e = t
  <2>1. app \subseteq Ids
    BY <1>0 DEF Heap
  <2>. QED
    BY <1>2, <1>4, <1>14, <1>15, <2>1
<1>17. ({told[i] : i \in app} \ {Nobody})' = ({told[i] : i \in app} \ {Nobody}) \cup {t}
  BY <1>16
<1>. QED
  BY <1>1, <1>10, <1>12, <1>13, <1>17 DEF D!DNext, D!Receive

\* What the application is given and gives up in the other steps.
LEMMA OtherDispatch ==
    ASSUME DeliveryInv, Heap(mem, wire, pending, app)', Dispatch, ~UdpDelivers
    PROVE  D!DNext
<1>0. /\ Heap(mem, wire, pending, app) /\ cache \in Caches /\ sends \in Nat
      /\ \A x \in Ids \ app : told[x] = Nobody
  BY DEF DeliveryInv, BackInv, IInv, TypeOK, Caches
<1>1. told' = told /\ sends' = sends
  BY DEF Dispatch, Refuse, NotIp, Unhandled, AppHandler, IcmpConsumes, EchoReply,
         UdpMalformed, UdpUnreachable, Nothing, bounds
<1>2. \A x \in Ids : Held(app', told', x) => Held(app, told, x) /\ told'[x] = told[x]
  BY <1>0, <1>1 DEF Held
<1>3. \A y, b, g : Flies(y, b, g, mem', wire', pending')
                      => \E x : Flies(x, b, g, mem, wire, pending)
  BY <1>0, DispatchFlies
<1>. QED
  BY <1>0, <1>1, <1>2, <1>3, LoseStep

\* ImplementsDatagrams: a callback is given only what was sent, once, with the
\* address it was sent from, whatever is queued, flushed, cloned, answered and
\* lost on the way (udp.c, ip.c, arp.c, link.c).
THEOREM DatagramTheorem == Spec => ImplementsDatagrams
<1>1. Init => D!DInit
  <2> SUFFICES ASSUME Init PROVE D!DInit
    OBVIOUS
  <2>1. Heap(mem, wire, pending, app) /\ app = {} /\ sends = 0 /\ \A x \in Ids : mem[x] = Freed
    BY InitHeap DEF Init
  <2>2. FlightAgrees
    BY <2>1, FlightIsFlies
  <2>3. \A y, b, g : ~Flies(y, b, g, mem, wire, pending)
    BY <2>1, CarriedAllocated DEF Flies
  <2>4. InFlight = {}
    BY <2>2, <2>3 DEF FlightAgrees
  <2>. QED
    BY <2>1, <2>4 DEF D!DInit
<1>2. DeliveryInv /\ BackInv' /\ [Next]_vars => [D!DNext]_(D!dvars)
  <2> SUFFICES ASSUME DeliveryInv, BackInv', [Next]_vars PROVE D!DNext
    OBVIOUS
  <2>1. /\ IInv /\ Back(mem, pending, app) /\ \A x \in Ids \ app : told[x] = Nobody
        /\ Heap(mem, wire, pending, app) /\ Heap(mem, wire, pending, app)' /\ sends \in Nat
    BY DEF DeliveryInv, BackInv, IInv, TypeOK
  <2>2. CASE Application
    <3>1. \A x \in Ids : Held(app', told', x) => Held(app, told, x) /\ told'[x] = told[x]
      BY <2>1, <2>2, ApplicationHolds
    <3>2. sends' \in Nat /\ sends <= sends'
      BY <2>1, <2>2, ApplicationFlies
    <3>3. CASE \A y, b, g : Flies(y, b, g, mem', wire', pending')
                               <=> Flies(y, b, g, mem, wire, pending)
      BY <2>1, <3>1, <3>2, <3>3, LoseStep
    <3>4. ASSUME NEW z \in Ids, NEW body \in Body, NEW hdr \in Request,
                 body.kind = "datagram", body.name = sends', sends' = sends + 1,
                 \A y, b, g : Flies(y, b, g, mem', wire', pending')
                    <=> Flies(y, b, g, mem, wire, pending) \/ (y = z /\ b = body /\ g = hdr),
                 app' = app, told' = told
          PROVE  D!DNext
      <4>1. Joins(z, body, hdr)
        BY <3>4 DEF Joins
      <4>. QED
        BY <2>1, <3>4, <4>1, PostStep
    <3>. QED
      BY <2>1, <2>2, <3>3, <3>4, ApplicationFlies
  <2>3. CASE Dispatch
    BY <2>1, <2>3, ReceiveStep, OtherDispatch
  <2>4. CASE UNCHANGED <<mem, wire, pending, app, told, sends>>
    BY <2>1, <2>4, LoseStep
  <2>5. ASSUME NEW h \in Hosts, NEW adr \in Dests, NEW mac \in Hosts,
               Flush(h, adr, mac), UNCHANGED <<app, told, sends>>
        PROVE  D!DNext
    <3>1. \A y, b, g : Flies(y, b, g, mem', wire', pending')
                          => \E x : Flies(x, b, g, mem, wire, pending)
      BY <2>1, <2>5, FlushFlies
    <3>. QED
      BY <2>1, <2>5, <3>1, LoseStep
  <2>6. CASE Administration
    BY <2>4, <2>5, <2>6, AdministrationSteps
  <2>7. CASE UNCHANGED vars
    BY <2>4, <2>7 DEF vars
  <2>. QED
    BY <2>2, <2>3, <2>6, <2>7 DEF Next
<1>. QED
  BY <1>1, <1>2, BackInvariant, DeliveryInvariant, PTL DEF Spec, ImplementsDatagrams, D!DSpec
=============================================================================
