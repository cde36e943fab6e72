-------------------------------- MODULE Tcp --------------------------------
(***************************************************************************)
(* protocols/tcp.c on the hosts of a point-to-point link.  Each host owns  *)
(* a TcpTable; segments, retransmission timers and TIME_WAIT timers are    *)
(* scheduler events, here `net', `timers' and `waits'.  An event's data    *)
(* is a pointer to a slot of the table, so a timer belongs to a slot and   *)
(* survives the connection it was armed for.                               *)
(*                                                                         *)
(* A host has one address, ARP has resolved it, and memory does not run    *)
(* out: a send fails exactly when the link or an interface is down.  The   *)
(* calls that return an error and change nothing are not actions.          *)
(***************************************************************************)
EXTENDS Naturals, Sequences, FiniteSets

CONSTANTS
    Hosts,       \* the protocol owners
    Peer,        \* the other end of a host's link
    MaxConns,    \* TCP_MAX_CONNS
    MSS,         \* TCP_MSS
    SeqSpace,    \* 2^32, the range of sequence numbers
    Listens,     \* bound: <<host, port>> the applications listen on
    Dials,       \* bound: <<host, port, port>> the applications connect
    Closers,     \* bound: hosts that may close an established connection
    Senders,     \* bound: hosts that send data
    Lens,        \* bound: lengths given to tcp_send
    MaxConnects, \* bound: number of connections opened
    MaxSends,    \* bound: number of data segments sent
    MaxFlaps,    \* bound: times the link changes state
    MaxLosses,   \* bound: segments that arrive at a disabled interface
    MaxInNet     \* bound: a timer fires with fewer segments in flight

ASSUME PeerAssumption ==
    /\ Peer \in [Hosts -> Hosts]
    /\ \A h \in Hosts : Peer[h] # h /\ Peer[Peer[h]] = h
ASSUME SizeAssumption ==
    MaxConns \in Nat \ {0} /\ MSS \in Nat \ {0} /\ SeqSpace \in Nat \ {0, 1}
ASSUME InputAssumption ==
    /\ Listens \subseteq Hosts \X (Nat \ {0})
    /\ Dials \subseteq Hosts \X (Nat \ {0}) \X (Nat \ {0})
    /\ Closers \subseteq Hosts /\ Senders \subseteq Hosts /\ Lens \subseteq Nat \ {0}
ASSUME TcpBoundsAssumption ==
    /\ MaxConnects \in Nat /\ MaxSends \in Nat /\ MaxFlaps \in Nat
    /\ MaxLosses \in Nat /\ MaxInNet \in Nat

VARIABLES
    tcbs,    \* TcpTable.tcbs of every host
    count,   \* TcpTable.count of every host
    net,     \* EVT_PACKET_RECEIVE events for a host, in delivery order
    timers,  \* EVT_TCP_RETRANSMIT events whose data is a slot
    waits,   \* EVT_TIMER_EXPIRED events whose data is a slot
    up,      \* the link and both its interfaces are up
    flaps, losses, conns, sends, \* counters for the bounds
    sent,    \* history: payloads tcp_send accepted, per connection and host
    got      \* history: payloads rcv_nxt has passed, and whether recv_handler
             \* was given them

tvars == <<tcbs, count, timers, waits>>
hist  == <<sent, got>>
envs  == <<up, flaps, losses, conns, sends>>
vars  == <<tvars, net, envs, hist>>

Slots == 1 .. MaxConns
Seqs  == 0 .. SeqSpace - 1
Flags == {"SYN", "ACK", "FIN"}
States == {"CLOSED", "LISTEN", "SYN_SENT", "SYN_RECEIVED", "ESTABLISHED",
           "FIN_WAIT_1", "FIN_WAIT_2", "CLOSE_WAIT", "CLOSING", "LAST_ACK",
           "TIME_WAIT"}

\* `pay' names the payload; `inc' is history: the connection the sender's
\* TCB was created for, numbered by tcp_connect.
Segment == [src : Nat, dst : Nat, seq : Seqs, ack : Seqs, flags : SUBSET Flags,
            len : 0 .. MSS, pay : 0 .. MaxSends, inc : 0 .. MaxConnects]

\* A zeroed slot: valid = 0, and state = TCP_CLOSED, which no valid TCB has.
Zeroed == [state |-> "CLOSED", lport |-> 0, rport |-> 0, una |-> 0,
           nxt |-> 0, rcv |-> 0, sendq |-> {}, inc |-> 0]

Tcb == [state : States, lport : Nat, rport : Nat, una : Seqs, nxt : Seqs,
        rcv : Seqs, sendq : SUBSET Segment, inc : 0 .. MaxConnects]

Consumed == [pay : 1 .. MaxSends, given : BOOLEAN]

Init ==
    /\ tcbs = [h \in Hosts |-> [i \in Slots |-> Zeroed]]
    /\ count = [h \in Hosts |-> 0]
    /\ net = [h \in Hosts |-> <<>>]
    /\ timers = [h \in Hosts |-> [i \in Slots |-> 0]]
    /\ waits = [h \in Hosts |-> [i \in Slots |-> 0]]
    /\ up = TRUE
    /\ flaps = 0 /\ losses = 0 /\ conns = 0 /\ sends = 0
    /\ sent = [k \in 1 .. MaxConnects |-> [h \in Hosts |-> <<>>]]
    /\ got = [k \in 1 .. MaxConnects |-> [h \in Hosts |-> <<>>]]

-----------------------------------------------------------------------------
(***************************************************************************)
(* Lookup and the send queue.                                              *)
(***************************************************************************)
Valid(h)    == {i \in Slots : tcbs[h][i].state # "CLOSED"}
First(S, i) == i \in S /\ \A j \in S : i <= j

\* tcp_alloc_tcb: the first slot that is not valid.
AllocTcb(h, i) == First(Slots \ Valid(h), i)

\* Faulty: sees only the connections that are open.
FindEstablished(h, lp, rp) ==
    {i \in Valid(h) : /\ tcbs[h][i].state = "ESTABLISHED"
                      /\ tcbs[h][i].lport = lp /\ tcbs[h][i].rport = rp}

FindExact(h, lp, rp) ==
    {i \in Valid(h) : /\ tcbs[h][i].state # "LISTEN"
                      /\ tcbs[h][i].lport = lp /\ tcbs[h][i].rport = rp}

FindListener(h, lp) ==
    {i \in Valid(h) : tcbs[h][i].state = "LISTEN" /\ tcbs[h][i].lport = lp}

Plus(a, n) == (a + n) % SeqSpace

SeqEnd(s) == Plus(s.seq, IF s.flags \cap {"SYN", "FIN"} # {} THEN 1 ELSE s.len)

\* Faulty: keeps a segment that is exactly covered.
AckedLate(q, ack) == {s \in q : ack <= SeqEnd(s)}

\* tcp_sendq_ack: what is left of the send queue.
StillUnacked(q, ack) == {s \in q : ack < SeqEnd(s)}

Seg(t, flags, len, pay) ==
    [src |-> t.lport, dst |-> t.rport, seq |-> t.nxt, ack |-> t.rcv,
     flags |-> flags, len |-> len, pay |-> pay, inc |-> t.inc]
PureAck(t) == Seg(t, {"ACK"}, 0, 0)

\* A segment sent, tracked in the empty queue and counted in snd_nxt.
Tracked(t, s) == [t EXCEPT !.nxt = SeqEnd(s), !.sendq = @ \cup {s}]

\* The TCB as the receive branches set its acknowledgement fields.
AckedTo(t, ack) ==
    [t EXCEPT !.una = ack, !.sendq = StillUnacked(@, ack)]

Put(h, i, t) == tcbs' = [tcbs EXCEPT ![h][i] = t]
Transmit(h, s) == up /\ net' = [net EXCEPT ![Peer[h]] = Append(@, s)]
ArmTimer(h, i) == timers' = [timers EXCEPT ![h][i] = @ + 1]

\* Faulty: clears the slot and forgets the table's count.
ReleaseUncounted(h, i) == Put(h, i, Zeroed) /\ UNCHANGED count

\* tcp_release_tcb: the queued clones are freed and the slot is zeroed.
ReleaseTcb(h, i) ==
    /\ Put(h, i, Zeroed)
    /\ count' = [count EXCEPT ![h] = IF @ > 0 THEN @ - 1 ELSE @]

-----------------------------------------------------------------------------
(***************************************************************************)
(* Calls of the application, also from within its handlers: the receive    *)
(* branches call a handler last, so its calls are steps of their own.      *)
(***************************************************************************)
Listen(h, p) ==
    /\ FindListener(h, p) = {}
    /\ \E i \in Slots :
          /\ AllocTcb(h, i)
          /\ Put(h, i, [Zeroed EXCEPT !.state = "LISTEN", !.lport = p])
    /\ count' = [count EXCEPT ![h] = @ + 1]
    /\ UNCHANGED <<net, timers, waits, envs, hist>>

\* When the SYN cannot be sent the new TCB is released: no net change.
Connect(h, lp, rp) ==
    /\ conns < MaxConnects
    /\ FindExact(h, lp, rp) = {}
    /\ LET t   == [Zeroed EXCEPT !.state = "SYN_SENT", !.lport = lp,
                                 !.rport = rp, !.inc = conns + 1]
           syn == Seg(t, {"SYN"}, 0, 0)
       IN \E i \in Slots :
             /\ AllocTcb(h, i)
             /\ Transmit(h, syn)
             /\ Put(h, i, Tracked(t, syn))
             /\ ArmTimer(h, i)
    /\ count' = [count EXCEPT ![h] = @ + 1]
    /\ conns' = conns + 1
    /\ UNCHANGED <<waits, up, flaps, losses, sends, hist>>

MaySend(t) == t.state = "ESTABLISHED" /\ t.sendq = {}

\* tcp_send: one segment of at most MSS bytes, the rest is not sent.
Send(h, i, n) ==
    /\ sends < MaxSends
    /\ MaySend(tcbs[h][i])
    /\ LET t == tcbs[h][i]
           s == Seg(t, {"ACK"}, IF n > MSS THEN MSS ELSE n, sends + 1)
       IN /\ Transmit(h, s)
          /\ Put(h, i, Tracked(t, s))
          /\ sent' = [sent EXCEPT ![t.inc][h] = Append(@, sends + 1)]
    /\ ArmTimer(h, i)
    /\ sends' = sends + 1
    /\ UNCHANGED <<count, waits, up, flaps, losses, conns, got>>

MayClose(h, t) ==
    /\ t.sendq = {}
    /\ \/ t.state = "CLOSE_WAIT"
       \/ t.state = "ESTABLISHED" /\ h \in Closers

Close(h, i) ==
    /\ MayClose(h, tcbs[h][i])
    /\ LET t   == tcbs[h][i]
           fin == Seg(t, {"FIN", "ACK"}, 0, 0)
       IN /\ Transmit(h, fin)
          /\ Put(h, i, [Tracked(t, fin) EXCEPT !.state =
                   IF @ = "ESTABLISHED" THEN "FIN_WAIT_1" ELSE "LAST_ACK"])
    /\ ArmTimer(h, i)
    /\ UNCHANGED <<count, waits, envs, hist>>

-----------------------------------------------------------------------------
(***************************************************************************)
(* tcp_receive, one action per branch, for the first segment of net[h].    *)
(* A branch that answers fails, after it has changed the TCB, when the     *)
(* answer cannot be sent.                                                  *)
(***************************************************************************)
Consume(h) == net' = [net EXCEPT ![h] = Tail(@)]

AnswerOrFail(h, s) ==
    net' = IF up THEN [net EXCEPT ![h] = Tail(@), ![Peer[h]] = Append(@, s)]
                 ELSE [net EXCEPT ![h] = Tail(@)]

\* A SYN with no TCB of its own reaches a listener: the child answers with
\* SYN-ACK, tracks it and arms no timer.
SynToListener(h, s) ==
    /\ s.flags = {"SYN"} /\ FindExact(h, s.dst, s.src) = {}
    /\ FindListener(h, s.dst) # {}
    /\ LET t   == [Zeroed EXCEPT !.state = "SYN_RECEIVED", !.lport = s.dst,
                       !.rport = s.src, !.rcv = Plus(s.seq, 1), !.inc = s.inc]
           syn == Seg(t, {"SYN", "ACK"}, 0, 0)
       IN \E i \in Slots :
             /\ AllocTcb(h, i) /\ up
             /\ Put(h, i, Tracked(t, syn))
             /\ AnswerOrFail(h, syn)
             /\ count' = [count EXCEPT ![h] = @ + 1]
    /\ UNCHANGED <<timers, waits, envs, hist>>

\* Freed with nothing done: no TCB, no free slot, or no way to answer a SYN.
Unmatched(h, s) ==
    /\ FindExact(h, s.dst, s.src) = {}
    /\ \/ s.flags # {"SYN"} \/ FindListener(h, s.dst) = {}
       \/ Valid(h) = Slots \/ ~up
    /\ Consume(h)
    /\ UNCHANGED <<tvars, envs, hist>>

\* Faulty: counts a payload that is not delivered.
OpenedPastData(t, s) ==
    [AckedTo(t, s.ack) EXCEPT !.state = "ESTABLISHED", !.rcv = Plus(@, s.len)]

Opened(t, s) == [AckedTo(t, s.ack) EXCEPT !.state = "ESTABLISHED"]

\* Faulty: any acknowledgement opens the connection.
AcceptsAnyAck(t, s) == t.state = "SYN_SENT" /\ "ACK" \in s.flags

\* Faulty: compares the acknowledgement with the wrong end of the range.
AcceptsOldAck(t, s) ==
    t.state = "SYN_SENT" /\ {"SYN", "ACK"} \subseteq s.flags /\ s.ack = t.una

AcceptsSynAck(t, s) ==
    t.state = "SYN_SENT" /\ {"SYN", "ACK"} \subseteq s.flags /\ s.ack = t.nxt

\* The connection is established before the ACK is sent; connect_handler, an
\* application's step here, is called only when it was.
SynAck(h, i, s) ==
    LET t == [Opened(tcbs[h][i], s) EXCEPT !.rcv = Plus(s.seq, 1)]
    IN /\ AcceptsSynAck(tcbs[h][i], s)
       /\ Put(h, i, t)
       /\ AnswerOrFail(h, PureAck(t))
       /\ UNCHANGED <<count, timers, waits, envs, hist>>

AcceptsFinalAck(t, s) ==
    t.state = "SYN_RECEIVED" /\ "ACK" \in s.flags /\ s.ack = t.nxt

\* Any segment with the right ACK opens the passive side; a payload on it is
\* ignored and has to be sent again.
FinalAck(h, i, s) ==
    /\ AcceptsFinalAck(tcbs[h][i], s)
    /\ Put(h, i, Opened(tcbs[h][i], s))
    /\ Consume(h)
    /\ UNCHANGED <<count, timers, waits, envs, hist>>

\* Faulty: takes an acknowledgement older than the last one.
OldAckField(t, s) ==
    IF "ACK" \in s.flags /\ s.ack <= t.nxt THEN AckedTo(t, s.ack) ELSE t

\* Step 1 of the ESTABLISHED branch.
AckField(t, s) ==
    IF "ACK" \in s.flags /\ s.ack > t.una /\ s.ack <= t.nxt
    THEN AckedTo(t, s.ack) ELSE t

\* Faulty: takes a segment that was already received.
InOrderOrOld(t, s) == s.seq <= t.rcv

InOrder(t, s) == s.seq = t.rcv

\* Faulty: expects one number too many.
RcvPast(t, n) == [t EXCEPT !.rcv = Plus(@, n + 1)]

RcvAdvanced(t, n) == [t EXCEPT !.rcv = Plus(@, n)]

\* Step 2, in order: rcv_nxt has moved before the ACK is sent, so when the
\* ACK cannot be sent the payload is freed and will never be delivered.
DataInOrder(h, i, s) ==
    LET t == RcvAdvanced(AckField(tcbs[h][i], s), s.len)
    IN /\ tcbs[h][i].state = "ESTABLISHED" /\ s.len > 0
       /\ InOrder(tcbs[h][i], s)
       /\ Put(h, i, t)
       /\ AnswerOrFail(h, PureAck(t))
       /\ got' = [got EXCEPT ![t.inc][h] =
                     Append(@, [pay |-> s.pay, given |-> up])]
       /\ UNCHANGED <<count, timers, waits, envs, sent>>

\* Faulty: the duplicate is dropped without an ACK.
SilentDuplicate(h, i, s) ==
    /\ tcbs[h][i].state = "ESTABLISHED" /\ s.len > 0
    /\ ~InOrder(tcbs[h][i], s)
    /\ Put(h, i, AckField(tcbs[h][i], s))
    /\ Consume(h)
    /\ UNCHANGED <<count, timers, waits, envs, hist>>

\* Step 2, out of order: a duplicate ACK.
DataOutOfOrder(h, i, s) ==
    LET t == AckField(tcbs[h][i], s)
    IN /\ tcbs[h][i].state = "ESTABLISHED" /\ s.len > 0
       /\ ~InOrder(tcbs[h][i], s)
       /\ Put(h, i, t)
       /\ AnswerOrFail(h, PureAck(t))
       /\ UNCHANGED <<count, timers, waits, envs, hist>>

\* Step 3: a FIN in order.  Without its ACK the state stays ESTABLISHED
\* although rcv_nxt has passed the FIN.
PeerCloses(h, i, s) ==
    LET t == RcvAdvanced(AckField(tcbs[h][i], s), 1)
    IN /\ tcbs[h][i].state = "ESTABLISHED" /\ s.len = 0 /\ "FIN" \in s.flags
       /\ InOrder(tcbs[h][i], s)
       /\ Put(h, i, IF up THEN [t EXCEPT !.state = "CLOSE_WAIT"] ELSE t)
       /\ AnswerOrFail(h, PureAck(t))
       /\ UNCHANGED <<count, timers, waits, envs, hist>>

\* A pure ACK, or a FIN out of order.
AckOnly(h, i, s) ==
    /\ tcbs[h][i].state = "ESTABLISHED" /\ s.len = 0
    /\ "FIN" \notin s.flags \/ ~InOrder(tcbs[h][i], s)
    /\ Put(h, i, AckField(tcbs[h][i], s))
    /\ Consume(h)
    /\ UNCHANGED <<count, timers, waits, envs, hist>>

\* Faulty: LAST_ACK does not look at acknowledgements.
ForgetsLastAck(t, s) ==
    /\ t.state \in {"FIN_WAIT_1", "CLOSING"}
    /\ "ACK" \in s.flags \/ t.state = "CLOSING"
    /\ s.ack > t.una

AcceptsFinAck(t, s) ==
    /\ t.state \in {"FIN_WAIT_1", "CLOSING", "LAST_ACK"}
    /\ "ACK" \in s.flags \/ t.state = "CLOSING"
    /\ s.ack > t.una

FinQueued(t) == \E q \in t.sendq : "FIN" \in q.flags

\* FIN_WAIT_1 and CLOSING on an ACK; a FIN flag of the segment is ignored.
\* No branch enters CLOSING.
OwnFinAcked(h, i, s) ==
    LET t == AckedTo(tcbs[h][i], s.ack)
        closing == t.state = "CLOSING" /\ ~FinQueued(t)
    IN /\ AcceptsFinAck(tcbs[h][i], s) /\ t.state # "LAST_ACK"
       /\ Put(h, i, [t EXCEPT !.state = IF FinQueued(t) THEN @
                        ELSE IF closing THEN "TIME_WAIT" ELSE "FIN_WAIT_2"])
       /\ waits' = [waits EXCEPT ![h][i] = IF closing THEN @ + 1 ELSE @]
       /\ Consume(h)
       /\ UNCHANGED <<count, timers, envs, hist>>

\* LAST_ACK on an ACK: the connection is over.
LastAck(h, i, s) ==
    LET t == AckedTo(tcbs[h][i], s.ack)
    IN /\ AcceptsFinAck(tcbs[h][i], s) /\ t.state = "LAST_ACK"
       /\ IF FinQueued(t) THEN Put(h, i, t) /\ UNCHANGED count
                          ELSE ReleaseTcb(h, i)
       /\ Consume(h)
       /\ UNCHANGED <<timers, waits, envs, hist>>

\* FIN_WAIT_2 on the peer's FIN.
PeerFinLast(h, i, s) ==
    LET t == RcvAdvanced(tcbs[h][i], 1)
    IN /\ tcbs[h][i].state = "FIN_WAIT_2" /\ "FIN" \in s.flags
       /\ InOrder(tcbs[h][i], s)
       /\ Put(h, i, IF up THEN [t EXCEPT !.state = "TIME_WAIT"] ELSE t)
       /\ waits' = [waits EXCEPT ![h][i] = IF up THEN @ + 1 ELSE @]
       /\ AnswerOrFail(h, PureAck(t))
       /\ UNCHANGED <<count, timers, envs, hist>>

\* No branch takes the segment: it is dropped, or consumed silently in
\* FIN_WAIT_2 and TIME_WAIT, and not even acknowledged.
Ignored(h, i, s) ==
    /\ tcbs[h][i].state # "ESTABLISHED"
    /\ ~AcceptsSynAck(tcbs[h][i], s) /\ ~AcceptsFinalAck(tcbs[h][i], s)
    /\ ~AcceptsFinAck(tcbs[h][i], s)
    /\ tcbs[h][i].state = "FIN_WAIT_2" =>
          "FIN" \notin s.flags \/ ~InOrder(tcbs[h][i], s)
    /\ Consume(h)
    /\ UNCHANGED <<tvars, envs, hist>>

Matched(h, i, s) ==
    \/ SynAck(h, i, s)
    \/ FinalAck(h, i, s)
    \/ DataInOrder(h, i, s)
    \/ DataOutOfOrder(h, i, s)
    \/ PeerCloses(h, i, s)
    \/ AckOnly(h, i, s)
    \/ OwnFinAcked(h, i, s)
    \/ LastAck(h, i, s)
    \/ PeerFinLast(h, i, s)
    \/ Ignored(h, i, s)

Receive(h) ==
    /\ net[h] # <<>>
    /\ LET s == Head(net[h])
       IN \/ SynToListener(h, s)
          \/ Unmatched(h, s)
          \/ \E i \in Slots : /\ First(FindExact(h, s.dst, s.src), i)
                              /\ Matched(h, i, s)

-----------------------------------------------------------------------------
(***************************************************************************)
(* Timers and the link.                                                    *)
(***************************************************************************)
Disarm(h, i) == timers' = [timers EXCEPT ![h][i] = @ - 1]

\* tcp_retransmit_handler with a segment to send again: another timer.
Retransmit(h, i) ==
    /\ timers[h][i] > 0
    /\ Len(net[h]) + Len(net[Peer[h]]) < MaxInNet
    /\ \E s \in tcbs[h][i].sendq : Transmit(h, s)
    /\ UNCHANGED <<tvars, envs, hist>>

\* Nothing to send, or no way to send it: the timer is not armed again.
TimerEnds(h, i) ==
    /\ timers[h][i] > 0
    /\ tcbs[h][i].sendq = {} \/ ~up
    /\ Disarm(h, i)
    /\ UNCHANGED <<tcbs, count, waits, net, envs, hist>>

\* tcp_time_wait_handler.  Its event is due two timeouts after TIME_WAIT was
\* entered, later than every retransmission timer armed before that.
TimeWaitExpires(h, i) ==
    /\ waits[h][i] > 0 /\ timers[h][i] = 0
    /\ waits' = [waits EXCEPT ![h][i] = @ - 1]
    /\ IF tcbs[h][i].state = "TIME_WAIT" THEN ReleaseTcb(h, i)
                                         ELSE UNCHANGED <<tcbs, count>>
    /\ UNCHANGED <<timers, net, envs, hist>>

\* link_set_up or interface_set_up, of the link or of either interface.
Flap ==
    /\ flaps < MaxFlaps
    /\ up' = ~up /\ flaps' = flaps + 1
    /\ UNCHANGED <<tvars, net, losses, conns, sends, hist>>

\* ethernet_receive drops the frame: the interface is error-disabled.
Lose(h) ==
    /\ losses < MaxLosses /\ net[h] # <<>>
    /\ Consume(h)
    /\ losses' = losses + 1
    /\ UNCHANGED <<tvars, up, flaps, conns, sends, hist>>

Application ==
    \/ \E l \in Listens : Listen(l[1], l[2])
    \/ \E d \in Dials : Connect(d[1], d[2], d[3])
    \/ \E h \in Hosts, i \in Slots : Close(h, i)
    \/ \E h \in Senders, i \in Slots, n \in Lens : Send(h, i, n)

Next ==
    \/ Application
    \/ Flap
    \/ \E h \in Hosts : Receive(h) \/ Lose(h)
    \/ \E h \in Hosts, i \in Slots :
          Retransmit(h, i) \/ TimerEnds(h, i) \/ TimeWaitExpires(h, i)

Spec == Init /\ [][Next]_vars

-----------------------------------------------------------------------------
(***************************************************************************)
(* Safety.                                                                 *)
(***************************************************************************)

\* Types; a send queue holds at most TCP_MAX_INFLIGHT = 1 segment, and
\* TcpTable.count is the number of valid slots over allocations, failed
\* handshakes and the releases by LAST_ACK and by the TIME_WAIT timer.
TypeOK ==
    /\ tcbs \in [Hosts -> [Slots -> Tcb]]
    /\ \A h \in Hosts, i \in Slots : Cardinality(tcbs[h][i].sendq) <= 1
    /\ count = [h \in Hosts |-> Cardinality(Valid(h))]
    /\ net \in [Hosts -> Seq(Segment)]
    /\ timers \in [Hosts -> [Slots -> Nat]]
    /\ waits \in [Hosts -> [Slots -> 0 .. 1]]
    /\ up \in BOOLEAN
    /\ flaps \in 0 .. MaxFlaps /\ losses \in 0 .. MaxLosses
    /\ conns \in 0 .. MaxConnects /\ sends \in 0 .. MaxSends
    /\ sent \in [1 .. MaxConnects -> [Hosts -> Seq(1 .. MaxSends)]]
    /\ got \in [1 .. MaxConnects -> [Hosts -> Seq(Consumed)]]

\* tcp_find_exact and tcp_find_listener return the first slot that matches:
\* no other slot does, whatever is repeated or reused.
OneTcbPerTuple ==
    \A h \in Hosts : \A i, j \in Valid(h) :
        /\ tcbs[h][i].state = "LISTEN" <=> tcbs[h][j].state = "LISTEN"
        /\ tcbs[h][i].lport = tcbs[h][j].lport
        /\ tcbs[h][i].rport = tcbs[h][j].rport
        => i = j

\* The one queued segment is exactly the unacknowledged range of sequence
\* numbers: a TCB with an empty queue has nothing outstanding.
QueueCoversUnacked ==
    \A h \in Hosts, i \in Slots :
        LET t == tcbs[h][i]
        IN IF t.sendq = {} THEN t.una = t.nxt
           ELSE \A s \in t.sendq : s.seq = t.una /\ SeqEnd(s) = t.nxt

\* What rcv_nxt has passed is the beginning of what tcp_send accepted at the
\* other end, in order and once: recv_handler misses only the payloads that
\* were consumed while their ACK could not be sent.
StreamIntact ==
    \A k \in 1 .. MaxConnects, h \in Hosts :
        /\ Len(got[k][h]) <= Len(sent[k][Peer[h]])
        /\ \A n \in 1 .. Len(got[k][h]) : got[k][h][n].pay = sent[k][Peer[h]][n]

\* A payload that has left its sender's queue was consumed by the peer.
AckedIsConsumed ==
    \A h \in Hosts, i \in Slots :
        LET t == tcbs[h][i]
        IN t.inc # 0 => \A n \in 1 .. Len(sent[t.inc][h]) :
              \/ n <= Len(got[t.inc][Peer[h]])
              \/ \E s \in t.sendq : s.pay = sent[t.inc][h][n]

\* The TCBs of h that belong to connection k.
Of(h, k) == {i \in Valid(h) : tcbs[h][i].inc = k /\ k # 0}

\* Both ends of a connection agree on its numbers: neither expects more than
\* the other has sent, nor takes for acknowledged what the other has not
\* received.
NumbersAgree ==
    \A h \in Hosts : \A i \in Valid(h) : \A j \in Of(Peer[h], tcbs[h][i].inc) :
        /\ tcbs[h][i].una <= tcbs[Peer[h]][j].rcv
        /\ tcbs[Peer[h]][j].rcv <= tcbs[h][i].nxt

\* An established TCB that has seen no FIN is not alone: the peer still has a
\* TCB of the same connection, which has not passed FIN_WAIT_2.
EstablishedHasPeer ==
    \A h \in Hosts : \A i \in Valid(h) :
        tcbs[h][i].state = "ESTABLISHED" =>
            \E j \in Of(Peer[h], tcbs[h][i].inc) :
                tcbs[Peer[h]][j].state \in
                    {"SYN_RECEIVED", "ESTABLISHED", "FIN_WAIT_1", "FIN_WAIT_2"}

\* While a slot holds a connection its sequence numbers only grow, although a
\* retransmitted clone carries the acknowledgement of its first sending.
NumbersNeverRegress ==
    [][\A h \in Hosts, i \in Slots :
          tcbs[h][i].inc # 0 /\ tcbs'[h][i].inc = tcbs[h][i].inc =>
             /\ tcbs[h][i].una <= tcbs'[h][i].una
             /\ tcbs[h][i].nxt <= tcbs'[h][i].nxt
             /\ tcbs[h][i].rcv <= tcbs'[h][i].rcv]_vars

-----------------------------------------------------------------------------
(***************************************************************************)
(* What the documentation says and the code does not do.                   *)
(***************************************************************************)

\* "retransmission timer for queued segments" (17_tcp.md): the SYN-ACK of a
\* child is queued without one, and a failed retransmission ends its chain.
QueuedHasTimer ==
    \A h \in Hosts, i \in Slots : tcbs[h][i].sendq # {} => timers[h][i] > 0

\* "builds a connection and presents bytes as an ordered stream"
\* (17_tcp.md): a payload is missing when its ACK could not be sent.
StreamHasNoHole ==
    \A k \in 1 .. MaxConnects, h \in Hosts :
        \A m, n \in 1 .. Len(got[k][h]) :
            m < n /\ got[k][h][n].given => got[k][h][m].given

-----------------------------------------------------------------------------
(***************************************************************************)
(* Liveness.  The scheduler dispatches every event sooner or later, because *)
(* a retransmission is always later than the events due before it; the link *)
(* stays up and the peer's application closes what it is told is closing.  *)
(***************************************************************************)
Events ==
    /\ \A h \in Hosts : WF_vars(Receive(h))
    /\ \A h \in Hosts, i \in Slots :
          /\ WF_vars(Retransmit(h, i)) /\ WF_vars(TimerEnds(h, i))
          /\ WF_vars(TimeWaitExpires(h, i))

AnswersClose(h, i) == tcbs[h][i].state = "CLOSE_WAIT" /\ Close(h, i)
LiveSpec ==
    Spec /\ Events /\ \A h \in Hosts, i \in Slots : WF_vars(AnswersClose(h, i))

\* A connection to a port somebody listens on is opened, although its first
\* SYN may have come before tcp_listen; a lost SYN-ACK is never sent again.
OpenCompletes ==
    \A h \in Hosts, i \in Slots :
        [](losses = 0) =>
            (   /\ tcbs[h][i].state = "SYN_SENT"
                /\ FindListener(Peer[h], tcbs[h][i].rport) # {}
             ~> tcbs[h][i].state = "ESTABLISHED")

NobodyCloses ==
    \A h \in Hosts, i \in Slots :
        tcbs[h][i].state \in {"CLOSED", "LISTEN", "SYN_SENT", "SYN_RECEIVED", "ESTABLISHED"}

\* Data accepted by tcp_send leaves the queue acknowledged, through the loss
\* of a segment, of its ACK or of the ACK that opens the peer.  While a
\* connection closes it need not: CLOSE_WAIT ignores acknowledgements.
DataIsAcked ==
    \A h \in Hosts, i \in Slots, p \in 1 .. MaxSends :
        []NobodyCloses =>
            ((\E q \in tcbs[h][i].sendq : q.pay = p)
                ~> (\A q \in tcbs[h][i].sendq : q.pay # p))

\* CLOSE_WAIT ignores the acknowledgement of data sent before the peer's FIN
\* came, and tcp_close refuses until it is acknowledged.
Stuck(h, i) == tcbs[h][i].state = "CLOSE_WAIT" /\ tcbs[h][i].sendq # {}

\* A closed connection gives its slot back, on both sides, when no segment is
\* lost (TIME_WAIT does not acknowledge a FIN that is sent again) and no data
\* crosses the FIN.
CloseCompletes ==
    \A h \in Hosts, i \in Slots :
        [](losses = 0 /\ \A g \in Hosts, j \in Slots : ~Stuck(g, j)) =>
            (tcbs[h][i].state \in {"FIN_WAIT_1", "LAST_ACK"}
                ~> tcbs[h][i].state = "CLOSED")
=============================================================================
