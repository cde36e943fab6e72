----------------------------- MODULE TcpProofs -----------------------------
(***************************************************************************)
(* Proofs about Tcp.  Types and the lookup of TCBs hold for all constants. *)
(* What the two ends of a connection know of each other holds while the    *)
(* sequence numbers of a connection do not wrap (NoWrap).                  *)
(***************************************************************************)
EXTENDS Tcp, FiniteSetTheorems, SequenceTheorems, TLAPS

\* A connection opens, sends every payload and closes below the last number.
NoWrap == MSS * MaxSends + 2 < SeqSpace

-----------------------------------------------------------------------------
(***************************************************************************)
(* Types.  A segment on its way belongs to a connection, and a payload has *)
(* a name; a TIME_WAIT timer runs exactly for the slots in TIME_WAIT.      *)
(***************************************************************************)
Named(s)  == s.inc # 0 /\ (s.len > 0 => s.pay # 0)
GoodSeg   == {s \in Segment : Named(s)}
Unowned   == {"CLOSED", "LISTEN"}
GoodTcb   ==
    {t \in Tcb : /\ t.state \notin Unowned => t.inc # 0
                 /\ t.sendq \subseteq GoodSeg
                 /\ \A r, s \in t.sendq : r = s}

From(t, s) == s.src = t.lport /\ s.dst = t.rport
For(t, s)  == s.dst = t.lport /\ s.src = t.rport

TcbsInv == tcbs \in [Hosts -> [Slots -> GoodTcb]]
NetInv  == net \in [Hosts -> Seq(GoodSeg)]
WaitsInv ==
    waits = [h \in Hosts |-> [i \in Slots |->
                IF tcbs[h][i].state = "TIME_WAIT" THEN 1 ELSE 0]]
CountInv == count = [h \in Hosts |-> Cardinality(Valid(h))]
BoundInv ==
    /\ timers \in [Hosts -> [Slots -> Nat]]
    /\ up \in BOOLEAN
    /\ flaps \in 0 .. MaxFlaps /\ losses \in 0 .. MaxLosses
    /\ conns \in 0 .. MaxConnects /\ sends \in 0 .. MaxSends
    /\ sent \in [1 .. MaxConnects -> [Hosts -> Seq(1 .. MaxSends)]]
    /\ got \in [1 .. MaxConnects -> [Hosts -> Seq(Consumed)]]

TypeInv == TcbsInv /\ NetInv /\ WaitsInv /\ CountInv /\ BoundInv

\* The bounds as numbers.
LEMMA Sizes ==
    /\ MaxConns \in Nat /\ MSS \in Nat /\ SeqSpace \in Nat /\ SeqSpace > 1 /\ MSS > 0
    /\ MaxConnects \in Nat /\ MaxSends \in Nat /\ MaxFlaps \in Nat
    /\ MaxLosses \in Nat /\ MaxInNet \in Nat
BY SizeAssumption, TcpBoundsAssumption

\* A sequence number stays one.
LEMMA PlusSeqs == \A a, n \in Nat : Plus(a, n) \in Seqs
BY Sizes DEF Plus, Seqs

LEMMA PlusSmall ==
    \A a, n \in Nat : a + n < SeqSpace => Plus(a, n) = a + n
BY Sizes DEF Plus

LEMMA SlotsFinite ==
    \A S \in SUBSET Slots : IsFiniteSet(S) /\ Cardinality(S) \in Nat
<1>1. IsFiniteSet(Slots)
  BY Sizes, FS_Interval DEF Slots
<1> QED BY <1>1, FS_Subset, FS_CardinalityType

\* tcp_send_segment builds a segment from the TCB.
LEMMA SegFields ==
    ASSUME NEW t \in Tcb, t.inc # 0, NEW f \in SUBSET Flags,
           NEW len \in 0 .. MSS, NEW pay \in 0 .. MaxSends, len > 0 => pay # 0
    PROVE  /\ Seg(t, f, len, pay) \in GoodSeg
           /\ Seg(t, f, len, pay).flags = f
           /\ Seg(t, f, len, pay).len = len /\ Seg(t, f, len, pay).pay = pay
           /\ Seg(t, f, len, pay).seq = t.nxt /\ Seg(t, f, len, pay).ack = t.rcv
           /\ Seg(t, f, len, pay).inc = t.inc
           /\ From(t, Seg(t, f, len, pay))
<1> DEFINE s == Seg(t, f, len, pay)
<1>1. s = [src |-> t.lport, dst |-> t.rport, seq |-> t.nxt, ack |-> t.rcv,
           flags |-> f, len |-> len, pay |-> pay, inc |-> t.inc]
  BY DEF Seg
<1>2. /\ t.lport \in Nat /\ t.rport \in Nat /\ t.nxt \in Seqs /\ t.rcv \in Seqs
      /\ t.inc \in 0 .. MaxConnects
  BY DEF Tcb
<1> HIDE DEF s
<1>3. /\ s.src = t.lport /\ s.dst = t.rport /\ s.seq = t.nxt /\ s.ack = t.rcv
      /\ s.flags = f /\ s.len = len /\ s.pay = pay /\ s.inc = t.inc
  BY <1>1
<1>4. s \in Segment
  BY <1>1, <1>2 DEF Segment
<1> QED BY <1>3, <1>4 DEF s, GoodSeg, Named, From

LEMMA SeqEndType == \A s \in Segment : SeqEnd(s) \in Seqs
<1> SUFFICES ASSUME NEW s \in Segment PROVE SeqEnd(s) \in Seqs
  OBVIOUS
<1>1. s.seq \in Nat /\ s.len \in Nat
  BY Sizes DEF Segment, Seqs
<1> QED BY <1>1, PlusSeqs DEF SeqEnd

LEMMA GoodTcbFields ==
    ASSUME NEW t \in GoodTcb
    PROVE  /\ t \in Tcb /\ t.state \in States /\ t.lport \in Nat /\ t.rport \in Nat
           /\ t.una \in Seqs /\ t.nxt \in Seqs /\ t.rcv \in Seqs
           /\ t.sendq \subseteq GoodSeg /\ t.inc \in 0 .. MaxConnects
           /\ (\A r, s \in t.sendq : r = s) /\ (t.state \notin Unowned => t.inc # 0)
BY DEF GoodTcb, Tcb

LEMMA TrackedFields ==
    ASSUME NEW t \in GoodTcb, t.sendq = {}, NEW s \in GoodSeg
    PROVE  /\ Tracked(t, s) \in GoodTcb
           /\ Tracked(t, s).state = t.state /\ Tracked(t, s).inc = t.inc
           /\ Tracked(t, s).lport = t.lport /\ Tracked(t, s).rport = t.rport
           /\ Tracked(t, s).una = t.una /\ Tracked(t, s).rcv = t.rcv
           /\ Tracked(t, s).nxt = SeqEnd(s) /\ Tracked(t, s).sendq = {s}
<1> DEFINE r == Tracked(t, s)
<1>1. /\ t \in Tcb /\ SeqEnd(s) \in Seqs /\ s \in Segment
      /\ t.sendq \subseteq GoodSeg
  BY SeqEndType, GoodTcbFields DEF GoodSeg
<1>2. r = [t EXCEPT !.nxt = SeqEnd(s), !.sendq = t.sendq \cup {s}]
  BY DEF Tracked
<1>3. /\ r \in Tcb /\ r.state = t.state /\ r.inc = t.inc /\ r.lport = t.lport
      /\ r.rport = t.rport /\ r.una = t.una /\ r.rcv = t.rcv /\ r.nxt = SeqEnd(s)
      /\ r.sendq = {s}
  <2>1. t.sendq \cup {s} \in SUBSET Segment /\ t.sendq \cup {s} = {s}
    BY <1>1 DEF Tcb
  <2> QED BY <1>1, <1>2, <2>1 DEF Tcb
<1>5. r \in GoodTcb
  BY <1>1, <1>3, GoodTcbFields DEF GoodTcb
<1> QED BY <1>3, <1>5

LEMMA AckedToFields ==
    ASSUME NEW t \in GoodTcb, NEW a \in Seqs
    PROVE  /\ AckedTo(t, a) \in GoodTcb
           /\ AckedTo(t, a).state = t.state /\ AckedTo(t, a).inc = t.inc
           /\ AckedTo(t, a).lport = t.lport /\ AckedTo(t, a).rport = t.rport
           /\ AckedTo(t, a).una = a /\ AckedTo(t, a).rcv = t.rcv
           /\ AckedTo(t, a).nxt = t.nxt
           /\ AckedTo(t, a).sendq = {s \in t.sendq : a < SeqEnd(s)}
<1> DEFINE r == AckedTo(t, a)
           q == {s \in t.sendq : a < SeqEnd(s)}
<1>1. t \in Tcb /\ t.sendq \subseteq Segment /\ t.sendq \subseteq GoodSeg
  BY GoodTcbFields DEF GoodSeg
<1>2. r = [t EXCEPT !.una = a, !.sendq = q]
  BY DEF AckedTo, StillUnacked
<1>3. q \subseteq t.sendq
  OBVIOUS
<1> HIDE DEF q
<1>4. /\ r \in Tcb /\ r.state = t.state /\ r.inc = t.inc /\ r.lport = t.lport
      /\ r.rport = t.rport /\ r.una = a /\ r.rcv = t.rcv /\ r.nxt = t.nxt
      /\ r.sendq = q
  BY <1>1, <1>2, <1>3 DEF Tcb
<1>6. r \in GoodTcb
  BY <1>1, <1>3, <1>4, GoodTcbFields DEF GoodTcb
<1> QED BY <1>4, <1>6 DEF q

LEMMA AtMostOne == \A S : (\A r, s \in S : r = s) => Cardinality(S) <= 1
<1> SUFFICES ASSUME NEW S, \A r, s \in S : r = s PROVE Cardinality(S) <= 1
  OBVIOUS
<1>1. CASE S = {}
  BY <1>1, FS_EmptySet
<1>2. CASE S # {}
  <2>1. PICK x : S = {x}
    BY <1>2
  <2> QED BY <2>1, FS_Singleton
<1> QED BY <1>1, <1>2

LEMMA AdvancedFields ==
    ASSUME NEW t \in GoodTcb, NEW n \in Nat
    PROVE  LET r == RcvAdvanced(t, n)
           IN /\ r \in GoodTcb
              /\ r.state = t.state /\ r.inc = t.inc /\ r.lport = t.lport
              /\ r.rport = t.rport /\ r.una = t.una /\ r.nxt = t.nxt
              /\ r.rcv = Plus(t.rcv, n) /\ r.sendq = t.sendq
<1> DEFINE r == RcvAdvanced(t, n)
<1>1. t \in Tcb /\ t.rcv \in Nat
  BY Sizes, GoodTcbFields DEF Seqs
<1>2. Plus(t.rcv, n) \in Seqs
  BY <1>1, PlusSeqs
<1>3. r = [t EXCEPT !.rcv = Plus(t.rcv, n)]
  BY DEF RcvAdvanced
<1>4. /\ r \in Tcb /\ r.state = t.state /\ r.inc = t.inc /\ r.lport = t.lport
      /\ r.rport = t.rport /\ r.una = t.una /\ r.nxt = t.nxt
      /\ r.rcv = Plus(t.rcv, n) /\ r.sendq = t.sendq
  BY <1>1, <1>2, <1>3 DEF Tcb
<1>5. r \in GoodTcb
  BY <1>4, GoodTcbFields DEF GoodTcb
<1> QED BY <1>4, <1>5

LEMMA StateFields ==
    ASSUME NEW t \in GoodTcb, t.inc # 0, NEW x \in States
    PROVE  LET r == [t EXCEPT !.state = x]
           IN /\ r \in GoodTcb
              /\ r.state = x /\ r.inc = t.inc /\ r.lport = t.lport
              /\ r.rport = t.rport /\ r.una = t.una /\ r.nxt = t.nxt
              /\ r.rcv = t.rcv /\ r.sendq = t.sendq
<1> DEFINE r == [t EXCEPT !.state = x]
<1>1. t \in Tcb
  BY GoodTcbFields
<1>2. /\ r \in Tcb /\ r.state = x /\ r.inc = t.inc /\ r.lport = t.lport
      /\ r.rport = t.rport /\ r.una = t.una /\ r.nxt = t.nxt
      /\ r.rcv = t.rcv /\ r.sendq = t.sendq
  BY <1>1 DEF Tcb
<1>3. r \in GoodTcb
  BY <1>2, GoodTcbFields DEF GoodTcb
<1> QED BY <1>2, <1>3

LEMMA RcvFields ==
    ASSUME NEW t \in GoodTcb, NEW x \in Seqs
    PROVE  LET r == [t EXCEPT !.rcv = x]
           IN /\ r \in GoodTcb
              /\ r.state = t.state /\ r.inc = t.inc /\ r.lport = t.lport
              /\ r.rport = t.rport /\ r.una = t.una /\ r.nxt = t.nxt
              /\ r.rcv = x /\ r.sendq = t.sendq
<1> DEFINE r == [t EXCEPT !.rcv = x]
<1>1. t \in Tcb
  BY GoodTcbFields
<1>2. /\ r \in Tcb /\ r.state = t.state /\ r.inc = t.inc /\ r.lport = t.lport
      /\ r.rport = t.rport /\ r.una = t.una /\ r.nxt = t.nxt
      /\ r.rcv = x /\ r.sendq = t.sendq
  BY <1>1 DEF Tcb
<1>3. r \in GoodTcb
  BY <1>2, GoodTcbFields DEF GoodTcb
<1> QED BY <1>2, <1>3

LEMMA ZeroedFields ==
    /\ Zeroed \in GoodTcb /\ Zeroed.state = "CLOSED" /\ Zeroed.inc = 0
    /\ Zeroed.una = 0 /\ Zeroed.nxt = 0 /\ Zeroed.rcv = 0 /\ Zeroed.sendq = {}
<1>1. 0 \in Seqs /\ 0 \in 0 .. MaxConnects
  BY Sizes DEF Seqs
<1> QED BY <1>1 DEF Zeroed, GoodTcb, Tcb, States, Unowned

\* The TCBs that tcp_listen, tcp_connect and a SYN make.
Listener(p) == [Zeroed EXCEPT !.state = "LISTEN", !.lport = p]
Dialled(lp, rp, k) ==
    [Zeroed EXCEPT !.state = "SYN_SENT", !.lport = lp, !.rport = rp, !.inc = k]
Child(s) ==
    [Zeroed EXCEPT !.state = "SYN_RECEIVED", !.lport = s.dst, !.rport = s.src,
                   !.rcv = Plus(s.seq, 1), !.inc = s.inc]

LEMMA ListenerFields ==
    ASSUME NEW p \in Nat
    PROVE  /\ Listener(p) \in GoodTcb /\ Listener(p).state = "LISTEN"
           /\ Listener(p).lport = p /\ Listener(p).rport = 0 /\ Listener(p).una = 0
           /\ Listener(p).nxt = 0 /\ Listener(p).rcv = 0 /\ Listener(p).inc = 0
           /\ Listener(p).sendq = {}
<1>1. 0 \in Seqs /\ 0 \in 0 .. MaxConnects
  BY Sizes DEF Seqs
<1> QED BY <1>1 DEF Listener, Zeroed, GoodTcb, Tcb, States, Unowned

LEMMA DialledFields ==
    ASSUME NEW lp \in Nat, NEW rp \in Nat, NEW k \in 1 .. MaxConnects
    PROVE  /\ Dialled(lp, rp, k) \in GoodTcb /\ Dialled(lp, rp, k).state = "SYN_SENT"
           /\ Dialled(lp, rp, k).lport = lp /\ Dialled(lp, rp, k).rport = rp
           /\ Dialled(lp, rp, k).una = 0 /\ Dialled(lp, rp, k).nxt = 0
           /\ Dialled(lp, rp, k).rcv = 0 /\ Dialled(lp, rp, k).inc = k
           /\ Dialled(lp, rp, k).sendq = {}
<1>1. 0 \in Seqs /\ k # 0 /\ k \in 0 .. MaxConnects
  BY Sizes DEF Seqs
<1> QED BY <1>1 DEF Dialled, Zeroed, GoodTcb, Tcb, States, Unowned

LEMMA ChildFields ==
    ASSUME NEW s \in GoodSeg
    PROVE  /\ Child(s) \in GoodTcb /\ Child(s).state = "SYN_RECEIVED"
           /\ Child(s).lport = s.dst /\ Child(s).rport = s.src /\ Child(s).una = 0
           /\ Child(s).nxt = 0 /\ Child(s).rcv = Plus(s.seq, 1) /\ Child(s).inc = s.inc
           /\ Child(s).sendq = {}
<1>1. /\ s.dst \in Nat /\ s.src \in Nat /\ s.seq \in Seqs /\ s.inc # 0
      /\ s.inc \in 0 .. MaxConnects
  BY DEF GoodSeg, Segment, Named
<1>2. Plus(s.seq, 1) \in Seqs
  <2>1. s.seq \in Nat /\ 1 \in Nat
    BY <1>1, Sizes DEF Seqs
  <2> QED BY <2>1, PlusSeqs
<1>3. Zeroed \in Tcb /\ Zeroed.una = 0 /\ Zeroed.nxt = 0 /\ Zeroed.sendq = {}
  BY ZeroedFields DEF GoodTcb
<1> DEFINE r == Child(s)
           z == [Zeroed EXCEPT !.state = "SYN_RECEIVED", !.lport = s.dst, !.rport = s.src]
<1>4. r = [z EXCEPT !.rcv = Plus(s.seq, 1), !.inc = s.inc]
  BY DEF Child
<1>5. /\ z \in Tcb /\ z.state = "SYN_RECEIVED" /\ z.lport = s.dst /\ z.rport = s.src
      /\ z.una = 0 /\ z.nxt = 0 /\ z.sendq = {}
  BY <1>1, <1>3 DEF Tcb, States
<1> HIDE DEF r, z
<1>6. /\ r \in Tcb /\ r.state = "SYN_RECEIVED" /\ r.lport = s.dst /\ r.rport = s.src
      /\ r.una = 0 /\ r.nxt = 0 /\ r.rcv = Plus(s.seq, 1) /\ r.inc = s.inc /\ r.sendq = {}
  BY <1>1, <1>2, <1>4, <1>5 DEF Tcb
<1> QED BY <1>1, <1>6 DEF r, GoodTcb

\* The effect of the steps on the parts of the invariant.
LEMMA PutTypes ==
    ASSUME TcbsInv, NEW h \in Hosts, NEW i \in Slots, NEW t \in GoodTcb, Put(h, i, t)
    PROVE  /\ TcbsInv'
           /\ \A g \in Hosts, j \in Slots :
                 tcbs'[g][j] = IF g = h /\ j = i THEN t ELSE tcbs[g][j]
<1>1. tcbs' = [tcbs EXCEPT ![h] = [tcbs[h] EXCEPT ![i] = t]]
  BY DEF Put
<1>2. [tcbs[h] EXCEPT ![i] = t] \in [Slots -> GoodTcb]
  BY DEF TcbsInv
<1> QED BY <1>1, <1>2 DEF TcbsInv

LEMMA PutWaits ==
    ASSUME TcbsInv, WaitsInv, NEW h \in Hosts, NEW i \in Slots, NEW t \in GoodTcb,
           Put(h, i, t), UNCHANGED waits,
           t.state = "TIME_WAIT" <=> tcbs[h][i].state = "TIME_WAIT"
    PROVE  WaitsInv'
BY PutTypes DEF WaitsInv

LEMMA PutWaits2 ==
    ASSUME TcbsInv, WaitsInv, NEW h \in Hosts, NEW i \in Slots, NEW t \in GoodTcb,
           Put(h, i, t),
           waits' = [waits EXCEPT ![h][i] = IF t.state = "TIME_WAIT" THEN 1 ELSE 0]
    PROVE  WaitsInv'
<1> DEFINE n == IF t.state = "TIME_WAIT" THEN 1 ELSE 0
<1>1. waits' = [waits EXCEPT ![h] = [waits[h] EXCEPT ![i] = n]]
  OBVIOUS
<1>2. n = IF t.state = "TIME_WAIT" THEN 1 ELSE 0
  OBVIOUS
<1> HIDE DEF n
<1>3. \A g \in Hosts : waits[g] = [j \in Slots |-> IF tcbs[g][j].state = "TIME_WAIT" THEN 1 ELSE 0]
  BY DEF WaitsInv
<1>4. \A g \in Hosts : waits'[g] = [j \in Slots |-> IF tcbs'[g][j].state = "TIME_WAIT" THEN 1 ELSE 0]
  <2> SUFFICES ASSUME NEW g \in Hosts
               PROVE  waits'[g] = [j \in Slots |-> IF tcbs'[g][j].state = "TIME_WAIT" THEN 1 ELSE 0]
    OBVIOUS
  <2>1. CASE g = h
    <3>1. waits'[g] = [waits[h] EXCEPT ![i] = n]
      BY <1>1, <2>1 DEF WaitsInv
    <3>2. \A j \in Slots :
             waits'[g][j] = IF j = i THEN n ELSE IF tcbs[g][j].state = "TIME_WAIT" THEN 1 ELSE 0
      <4>0. waits[h] = [j \in Slots |-> IF tcbs[h][j].state = "TIME_WAIT" THEN 1 ELSE 0]
        BY <1>3
      <4>1. \A j \in Slots : waits[h][j] = IF tcbs[h][j].state = "TIME_WAIT" THEN 1 ELSE 0
        BY <4>0
      <4>2. DOMAIN waits[h] = Slots
        BY <4>0
      <4>3. \A j \in Slots : waits'[g][j] = IF j = i THEN n ELSE waits[h][j]
        BY <3>1, <4>2
      <4> QED BY <2>1, <4>1, <4>3
    <3>3. \A j \in Slots : tcbs'[g][j] = IF j = i THEN t ELSE tcbs[g][j]
      BY <2>1, PutTypes
    <3>4. \A j \in Slots : waits'[g][j] = IF tcbs'[g][j].state = "TIME_WAIT" THEN 1 ELSE 0
      BY <1>2, <3>2, <3>3
    <3>5. waits'[g] = [j \in Slots |-> waits'[g][j]]
      BY <1>3, <2>1, <3>1
    <3> QED BY <3>4, <3>5
  <2>2. CASE g # h
    <3>1. waits'[g] = waits[g]
      BY <1>1, <2>2 DEF WaitsInv
    <3>2. \A j \in Slots : tcbs'[g][j] = tcbs[g][j]
      BY <2>2, PutTypes
    <3>3. waits[g] = [j \in Slots |-> IF tcbs[g][j].state = "TIME_WAIT" THEN 1 ELSE 0]
      BY <1>3
    <3>4. [j \in Slots |-> IF tcbs[g][j].state = "TIME_WAIT" THEN 1 ELSE 0]
             = [j \in Slots |-> IF tcbs'[g][j].state = "TIME_WAIT" THEN 1 ELSE 0]
      BY <3>2
    <3> QED BY <3>1, <3>3, <3>4
  <2> QED BY <2>1, <2>2
<1>5. waits' = [g \in Hosts |-> waits'[g]]
  BY <1>1 DEF WaitsInv
<1> QED BY <1>4, <1>5 DEF WaitsInv

\* Which slots are valid after a change of one.
LEMMA PutValid ==
    ASSUME TcbsInv, NEW h \in Hosts, NEW i \in Slots, NEW t \in GoodTcb, Put(h, i, t)
    PROVE  /\ \A g \in Hosts : g # h => Valid(g)' = Valid(g)
           /\ Valid(h)' = IF t.state = "CLOSED" THEN Valid(h) \ {i} ELSE Valid(h) \cup {i}
<1>1. \A g \in Hosts, j \in Slots :
         tcbs'[g][j] = IF g = h /\ j = i THEN t ELSE tcbs[g][j]
  BY PutTypes
<1> QED BY <1>1 DEF Valid

LEMMA PutCount ==
    ASSUME TcbsInv, CountInv, NEW h \in Hosts, NEW i \in Slots, NEW t \in GoodTcb,
           Put(h, i, t), t.state # "CLOSED",
           \/ tcbs[h][i].state # "CLOSED" /\ UNCHANGED count
           \/ tcbs[h][i].state = "CLOSED" /\ count' = [count EXCEPT ![h] = @ + 1]
    PROVE  CountInv'
<1>1. Valid(h)' = Valid(h) \cup {i} /\ \A g \in Hosts : g # h => Valid(g)' = Valid(g)
  BY PutValid
<1>2. IsFiniteSet(Valid(h)) /\ Cardinality(Valid(h)) \in Nat
  BY SlotsFinite DEF Valid
<1>3. CASE tcbs[h][i].state # "CLOSED" /\ UNCHANGED count
  <2>1. Valid(h)' = Valid(h)
    BY <1>1, <1>3 DEF Valid
  <2> QED BY <1>1, <1>3, <2>1 DEF CountInv
<1>4. CASE tcbs[h][i].state = "CLOSED" /\ count' = [count EXCEPT ![h] = @ + 1]
  <2>1. i \notin Valid(h)
    BY <1>4 DEF Valid
  <2>2. Cardinality(Valid(h)') = Cardinality(Valid(h)) + 1
    BY <1>1, <1>2, <2>1, FS_AddElement
  <2> QED BY <1>1, <1>4, <2>2 DEF CountInv
<1> QED BY <1>3, <1>4

LEMMA ReleaseCount ==
    ASSUME TcbsInv, CountInv, NEW h \in Hosts, NEW i \in Slots,
           ReleaseTcb(h, i), tcbs[h][i].state # "CLOSED"
    PROVE  CountInv'
<1>1. /\ Valid(h)' = Valid(h) \ {i} /\ \A g \in Hosts : g # h => Valid(g)' = Valid(g)
  BY PutValid, ZeroedFields DEF ReleaseTcb
<1>2. IsFiniteSet(Valid(h)) /\ Cardinality(Valid(h)) \in Nat
  BY SlotsFinite DEF Valid
<1>3. i \in Valid(h)
  BY DEF Valid
<1>4. Cardinality(Valid(h)') = Cardinality(Valid(h)) - 1
  BY <1>1, <1>2, <1>3, FS_RemoveElement
<1>5. Cardinality(Valid(h)) > 0
  BY <1>2, <1>3, FS_EmptySet
<1>6. count[h] = Cardinality(Valid(h))
  BY DEF CountInv
<1>7. count' = [count EXCEPT ![h] = count[h] - 1]
  BY <1>2, <1>5, <1>6 DEF ReleaseTcb
<1> QED BY <1>1, <1>4, <1>6, <1>7 DEF CountInv

LEMMA PeerIsHost == \A h \in Hosts : Peer[h] \in Hosts /\ Peer[h] # h /\ Peer[Peer[h]] = h
BY PeerAssumption

\* What is on the way after a segment was taken, sent, or answered.
LEMMA NetSteps ==
    ASSUME NetInv, NEW h \in Hosts, NEW s \in GoodSeg
    PROVE  /\ Transmit(h, s) => NetInv'
           /\ net[h] # <<>> => /\ Head(net[h]) \in GoodSeg
                               /\ Consume(h) => NetInv'
                               /\ AnswerOrFail(h, s) => NetInv'
<1>1. net[h] \in Seq(GoodSeg) /\ net[Peer[h]] \in Seq(GoodSeg) /\ Peer[h] \in Hosts /\ Peer[h] # h
  BY PeerIsHost DEF NetInv
<1>2. Append(net[Peer[h]], s) \in Seq(GoodSeg)
  BY <1>1, AppendProperties
<1>3. net[h] # <<>> => Head(net[h]) \in GoodSeg /\ Tail(net[h]) \in Seq(GoodSeg)
  BY <1>1, HeadTailProperties
<1>4. Transmit(h, s) => NetInv'
  BY <1>1, <1>2 DEF NetInv, Transmit
<1>5. net[h] # <<>> /\ Consume(h) => NetInv'
  BY <1>1, <1>3 DEF NetInv, Consume
<1>6. net[h] # <<>> /\ AnswerOrFail(h, s) => NetInv'
  <2>1. SUFFICES ASSUME net[h] # <<>>, AnswerOrFail(h, s) PROVE NetInv'
    OBVIOUS
  <2>2. CASE up
    <3>1. net' = [net EXCEPT ![h] = Tail(net[h]), ![Peer[h]] = Append(net[Peer[h]], s)]
      BY <1>1, <2>1, <2>2 DEF AnswerOrFail, NetInv
    <3> QED BY <1>1, <1>2, <1>3, <2>1, <3>1 DEF NetInv
  <2>3. CASE ~up
    BY <1>1, <1>3, <2>1, <2>3 DEF NetInv, AnswerOrFail
  <2> QED BY <2>2, <2>3
<1> QED BY <1>3, <1>4, <1>5, <1>6

LEMMA SlotGood ==
    ASSUME TcbsInv, NEW h \in Hosts, NEW i \in Slots
    PROVE  tcbs[h][i] \in GoodTcb
BY DEF TcbsInv

LEMMA ListenTypes ==
    ASSUME TypeInv, NEW h \in Hosts, NEW p \in Nat, Listen(h, p)
    PROVE  TypeInv'
<1> DEFINE t == Listener(p)
<1>1. PICK i \in Slots : AllocTcb(h, i) /\ Put(h, i, t)
  BY DEF Listen, Listener
<1>2. tcbs[h][i].state = "CLOSED" /\ t \in GoodTcb /\ t.state = "LISTEN"
  BY <1>1, ListenerFields DEF AllocTcb, First, Valid
<1> HIDE DEF t
<1>3. TcbsInv'
  BY <1>1, <1>2, PutTypes DEF TypeInv
<1>4. WaitsInv'
  BY <1>1, <1>2, PutWaits DEF TypeInv, Listen
<1>5. CountInv'
  BY <1>1, <1>2, PutCount DEF TypeInv, Listen
<1> QED BY <1>3, <1>4, <1>5 DEF TypeInv, NetInv, BoundInv, Listen, envs, hist

LEMMA ConnectTypes ==
    ASSUME TypeInv, NEW h \in Hosts, NEW lp \in Nat, NEW rp \in Nat, Connect(h, lp, rp)
    PROVE  TypeInv'
<1> DEFINE t   == Dialled(lp, rp, conns + 1)
           syn == Seg(t, {"SYN"}, 0, 0)
<1>1. PICK i \in Slots : /\ AllocTcb(h, i) /\ Transmit(h, syn)
                         /\ Put(h, i, Tracked(t, syn)) /\ ArmTimer(h, i)
  BY DEF Connect, Dialled
<1>2. conns + 1 \in 1 .. MaxConnects
  <2>1. conns \in 0 .. MaxConnects
    BY DEF TypeInv, BoundInv
  <2>2. conns < MaxConnects
    BY DEF Connect
  <2> QED BY <2>1, <2>2, Sizes
<1>3. t \in GoodTcb /\ t.state = "SYN_SENT" /\ t.inc = conns + 1 /\ t.sendq = {}
  BY <1>2, DialledFields
<1> HIDE DEF t
<1>4. syn \in GoodSeg
  <2>1. t.inc # 0 /\ t \in Tcb /\ {"SYN"} \in SUBSET Flags /\ 0 \in 0 .. MSS /\ 0 \in 0 .. MaxSends
    BY <1>2, <1>3, GoodTcbFields, Sizes DEF Flags
  <2> QED BY <2>1, SegFields
<1> HIDE DEF syn
<1>5. /\ Tracked(t, syn) \in GoodTcb /\ Tracked(t, syn).state = "SYN_SENT"
      /\ tcbs[h][i].state = "CLOSED"
  BY <1>1, <1>3, <1>4, TrackedFields DEF AllocTcb, First, Valid
<1>6. TcbsInv'
  BY <1>1, <1>5, PutTypes DEF TypeInv
<1>7. WaitsInv'
  BY <1>1, <1>5, PutWaits DEF TypeInv, Connect
<1>8. CountInv'
  BY <1>1, <1>5, PutCount DEF TypeInv, Connect
<1>9. NetInv'
  BY <1>1, <1>4, NetSteps DEF TypeInv
<1>10. timers' \in [Hosts -> [Slots -> Nat]] /\ conns' \in 0 .. MaxConnects
  BY <1>1, <1>2 DEF TypeInv, BoundInv, Connect, ArmTimer
<1> QED BY <1>6, <1>7, <1>8, <1>9, <1>10 DEF TypeInv, BoundInv, Connect, hist

LEMMA SendTypes ==
    ASSUME TypeInv, NEW h \in Hosts, NEW i \in Slots, NEW n \in Nat, Send(h, i, n)
    PROVE  TypeInv'
<1> DEFINE t == tcbs[h][i]
           len == IF n > MSS THEN MSS ELSE n
           s == Seg(t, {"ACK"}, len, sends + 1)
<1>1. t \in GoodTcb /\ t.state = "ESTABLISHED" /\ t.sendq = {}
  BY SlotGood DEF TypeInv, Send, MaySend
<1>2. Transmit(h, s) /\ Put(h, i, Tracked(t, s)) /\ ArmTimer(h, i)
  BY DEF Send
<1>3. sends + 1 \in 1 .. MaxSends
  <2>1. sends \in 0 .. MaxSends
    BY DEF TypeInv, BoundInv
  <2>2. sends < MaxSends
    BY DEF Send
  <2> QED BY <2>1, <2>2, Sizes
<1>4. t.inc \in 1 .. MaxConnects
  BY <1>1, GoodTcbFields, Sizes DEF Unowned
<1>5. sent' = [sent EXCEPT ![t.inc][h] = Append(@, sends + 1)]
  BY DEF Send
<1> HIDE DEF t
<1>6. s \in GoodSeg
  <2>1. len \in 0 .. MSS
    BY Sizes
  <2>2. t.inc # 0 /\ t \in Tcb /\ {"ACK"} \in SUBSET Flags /\ sends + 1 \in 0 .. MaxSends
        /\ sends + 1 # 0
    BY <1>1, <1>3, <1>4, GoodTcbFields, Sizes DEF Flags
  <2> HIDE DEF len
  <2> QED BY <2>1, <2>2, SegFields
<1> HIDE DEF s
<1>7. Tracked(t, s) \in GoodTcb /\ Tracked(t, s).state = "ESTABLISHED"
  BY <1>1, <1>6, TrackedFields
<1>8. TcbsInv'
  BY <1>2, <1>7, PutTypes DEF TypeInv
<1>9. WaitsInv'
  BY <1>1, <1>2, <1>7, PutWaits DEF TypeInv, Send, t
<1>10. CountInv'
  BY <1>1, <1>2, <1>7, PutCount DEF TypeInv, Send, t
<1>11. NetInv'
  BY <1>2, <1>6, NetSteps DEF TypeInv
<1>12. timers' \in [Hosts -> [Slots -> Nat]]
  BY <1>2 DEF TypeInv, BoundInv, ArmTimer
<1>13. sent' \in [1 .. MaxConnects -> [Hosts -> Seq(1 .. MaxSends)]]
  <2>1. sent[t.inc][h] \in Seq(1 .. MaxSends) /\ sent[t.inc] \in [Hosts -> Seq(1 .. MaxSends)]
    BY <1>4 DEF TypeInv, BoundInv
  <2>2. Append(sent[t.inc][h], sends + 1) \in Seq(1 .. MaxSends)
    BY <1>3, <2>1, AppendProperties
  <2>3. sent' = [sent EXCEPT ![t.inc] = [sent[t.inc] EXCEPT ![h] = Append(sent[t.inc][h], sends + 1)]]
    BY <1>5
  <2> QED BY <1>4, <2>1, <2>2, <2>3 DEF TypeInv, BoundInv
<1>14. sends' \in 0 .. MaxSends
  <2>1. sends' = sends + 1
    BY DEF Send
  <2> QED BY <1>3, <2>1
<1> QED BY <1>8, <1>9, <1>10, <1>11, <1>12, <1>13, <1>14 DEF TypeInv, BoundInv, Send

LEMMA CloseTypes ==
    ASSUME TypeInv, NEW h \in Hosts, NEW i \in Slots, Close(h, i)
    PROVE  TypeInv'
<1> DEFINE t == tcbs[h][i]
           s == Seg(t, {"FIN", "ACK"}, 0, 0)
           x == IF t.state = "ESTABLISHED" THEN "FIN_WAIT_1" ELSE "LAST_ACK"
           r == [Tracked(t, s) EXCEPT !.state = x]
<1>1. t \in GoodTcb /\ t.state \in {"ESTABLISHED", "CLOSE_WAIT"} /\ t.sendq = {}
  BY SlotGood DEF TypeInv, Close, MayClose
<1>2. t.inc # 0
  BY <1>1, GoodTcbFields DEF Unowned
<1>3. s \in GoodSeg
  <2>1. t \in Tcb /\ {"FIN", "ACK"} \in SUBSET Flags /\ 0 \in 0 .. MSS /\ 0 \in 0 .. MaxSends
    BY <1>1, GoodTcbFields, Sizes DEF Flags
  <2> QED BY <1>2, <2>1, SegFields
<1>4. /\ Tracked(t, s) \in GoodTcb /\ Tracked(t, s).state = t.state
      /\ Tracked(t, s).inc # 0
  <2> HIDE DEF t, s
  <2> QED BY <1>1, <1>2, <1>3, TrackedFields
<1>5. Transmit(h, s) /\ Put(h, i, r) /\ ArmTimer(h, i)
  BY <1>4 DEF Close
<1>6. r \in GoodTcb /\ r.state = x
  <2>1. x \in States
    BY DEF States
  <2> HIDE DEF s, x
  <2> QED BY <1>4, <2>1, StateFields
<1>7. r.state # "TIME_WAIT" /\ r.state # "CLOSED"
  BY <1>6
<1> HIDE DEF r, s
<1>8. TcbsInv'
  BY <1>5, <1>6, PutTypes DEF TypeInv
<1>9. WaitsInv'
  BY <1>1, <1>5, <1>6, <1>7, PutWaits DEF TypeInv, Close
<1>10. CountInv'
  BY <1>1, <1>5, <1>6, <1>7, PutCount DEF TypeInv, Close
<1>11. NetInv'
  BY <1>3, <1>5, NetSteps DEF TypeInv
<1>12. timers' \in [Hosts -> [Slots -> Nat]]
  BY <1>5 DEF TypeInv, BoundInv, ArmTimer
<1> QED BY <1>8, <1>9, <1>10, <1>11, <1>12 DEF TypeInv, BoundInv, Close, envs, hist

LEMMA AckFieldFields ==
    ASSUME NEW t \in GoodTcb, NEW s \in GoodSeg
    PROVE  /\ AckField(t, s) \in GoodTcb
           /\ AckField(t, s).state = t.state /\ AckField(t, s).inc = t.inc
           /\ AckField(t, s).lport = t.lport /\ AckField(t, s).rport = t.rport
           /\ AckField(t, s).nxt = t.nxt /\ AckField(t, s).rcv = t.rcv
<1>1. s.ack \in Seqs
  BY DEF GoodSeg, Segment
<1> QED BY <1>1, AckedToFields DEF AckField

LEMMA OpenedFields ==
    ASSUME NEW t \in GoodTcb, t.inc # 0, NEW s \in GoodSeg
    PROVE  /\ Opened(t, s) \in GoodTcb
           /\ Opened(t, s).state = "ESTABLISHED" /\ Opened(t, s).inc = t.inc
           /\ Opened(t, s).lport = t.lport /\ Opened(t, s).rport = t.rport
           /\ Opened(t, s).una = s.ack /\ Opened(t, s).rcv = t.rcv
           /\ Opened(t, s).nxt = t.nxt
           /\ Opened(t, s).sendq = {q \in t.sendq : s.ack < SeqEnd(q)}
<1> DEFINE r == AckedTo(t, s.ack)
<1>1. s.ack \in Seqs
  BY DEF GoodSeg, Segment
<1>2. /\ r \in GoodTcb /\ r.inc = t.inc /\ r.lport = t.lport /\ r.rport = t.rport
      /\ r.una = s.ack /\ r.rcv = t.rcv /\ r.nxt = t.nxt
      /\ r.sendq = {q \in t.sendq : s.ack < SeqEnd(q)}
  BY <1>1, AckedToFields
<1>3. Opened(t, s) = [r EXCEPT !.state = "ESTABLISHED"] /\ "ESTABLISHED" \in States
  BY DEF Opened, States
<1> HIDE DEF r
<1> QED BY <1>2, <1>3, StateFields

LEMMA PureAckFields ==
    ASSUME NEW t \in GoodTcb, t.inc # 0
    PROVE  /\ PureAck(t) \in GoodSeg
           /\ PureAck(t).flags = {"ACK"} /\ PureAck(t).len = 0
           /\ PureAck(t).seq = t.nxt /\ PureAck(t).ack = t.rcv
           /\ PureAck(t).inc = t.inc /\ From(t, PureAck(t))
<1>1. t \in Tcb /\ {"ACK"} \in SUBSET Flags /\ 0 \in 0 .. MSS /\ 0 \in 0 .. MaxSends
  BY GoodTcbFields, Sizes DEF Flags
<1> QED BY <1>1, SegFields DEF PureAck

\* A branch of tcp_receive on TCB i, with or without an answer.
LEMMA BranchTypes ==
    ASSUME TypeInv, NEW h \in Hosts, NEW i \in Slots, net[h] # <<>>,
           NEW r \in GoodTcb, Put(h, i, r),
           tcbs[h][i].state # "CLOSED", r.state # "CLOSED",
           NEW a \in GoodTcb, a.inc # 0,
           Consume(h) \/ AnswerOrFail(h, PureAck(a)),
           \/ UNCHANGED waits /\ (r.state = "TIME_WAIT" <=> tcbs[h][i].state = "TIME_WAIT")
           \/ /\ waits' = [waits EXCEPT ![h][i] = @ + 1]
              /\ r.state = "TIME_WAIT" /\ tcbs[h][i].state # "TIME_WAIT",
           UNCHANGED <<count, timers, envs, sent>>,
           got' \in [1 .. MaxConnects -> [Hosts -> Seq(Consumed)]]
    PROVE  TypeInv'
<1>1. TcbsInv'
  BY PutTypes DEF TypeInv
<1>2. NetInv'
  BY NetSteps, PureAckFields DEF TypeInv
<1>3. CountInv'
  BY PutCount DEF TypeInv
<1>4. WaitsInv'
  <2>1. CASE UNCHANGED waits /\ (r.state = "TIME_WAIT" <=> tcbs[h][i].state = "TIME_WAIT")
    BY <2>1, PutWaits DEF TypeInv
  <2>2. CASE /\ waits' = [waits EXCEPT ![h][i] = @ + 1]
             /\ r.state = "TIME_WAIT" /\ tcbs[h][i].state # "TIME_WAIT"
    <3>1. waits[h][i] = 0
      BY <2>2 DEF TypeInv, WaitsInv
    <3>2. waits' = [waits EXCEPT ![h][i] = IF r.state = "TIME_WAIT" THEN 1 ELSE 0]
      BY <2>2, <3>1
    <3> QED BY <2>2, <3>2, PutWaits2 DEF TypeInv
  <2> QED BY <2>1, <2>2
<1> QED BY <1>1, <1>2, <1>3, <1>4 DEF TypeInv, BoundInv, envs

LEMMA MatchedTypes ==
    ASSUME TypeInv, NEW h \in Hosts, NEW i \in Slots, net[h] # <<>>,
           tcbs[h][i].state \notin Unowned,
           NEW s \in GoodSeg, Matched(h, i, s)
    PROVE  TypeInv'
<1> DEFINE t == tcbs[h][i]
<1>1. t \in GoodTcb /\ t.inc # 0 /\ t.state # "CLOSED" /\ t.inc \in 1 .. MaxConnects
  BY SlotGood, GoodTcbFields, Sizes DEF TypeInv, Unowned
<1>2. s.seq \in Nat /\ s.len \in Nat /\ s.ack \in Seqs /\ 1 \in Nat
  BY Sizes DEF GoodSeg, Segment, Seqs
<1>3. got \in [1 .. MaxConnects -> [Hosts -> Seq(Consumed)]]
  BY DEF TypeInv, BoundInv
<1>4. CASE SynAck(h, i, s)
  <2> DEFINE o == Opened(t, s)
             r == [o EXCEPT !.rcv = Plus(s.seq, 1)]
  <2>1. o \in GoodTcb /\ o.state = "ESTABLISHED" /\ o.inc # 0
    BY <1>1, OpenedFields
  <2>2. Plus(s.seq, 1) \in Seqs
    BY <1>2, PlusSeqs
  <2>3. /\ Put(h, i, r) /\ AnswerOrFail(h, PureAck(r)) /\ UNCHANGED <<count, timers, waits, envs, hist>>
        /\ t.state = "SYN_SENT"
    BY <1>4 DEF SynAck, AcceptsSynAck
  <2> HIDE DEF o
  <2>4. r \in GoodTcb /\ r.state = "ESTABLISHED" /\ r.inc # 0
    BY <2>1, <2>2, RcvFields
  <2> HIDE DEF r
  <2> QED BY <1>1, <1>3, <2>3, <2>4, BranchTypes DEF hist
<1>5. CASE FinalAck(h, i, s)
  <2> DEFINE r == Opened(t, s)
  <2>1. r \in GoodTcb /\ r.state = "ESTABLISHED" /\ r.inc # 0
    BY <1>1, OpenedFields
  <2>2. /\ Put(h, i, r) /\ Consume(h) /\ UNCHANGED <<count, timers, waits, envs, hist>>
        /\ t.state = "SYN_RECEIVED"
    BY <1>5 DEF FinalAck, AcceptsFinalAck
  <2> HIDE DEF r
  <2> QED BY <1>1, <1>3, <2>1, <2>2, BranchTypes DEF hist
<1> DEFINE f == AckField(t, s)
<1>6. f \in GoodTcb /\ f.state = t.state /\ f.inc = t.inc
  BY <1>1, AckFieldFields
<1>7. CASE DataInOrder(h, i, s)
  <2> DEFINE r == RcvAdvanced(f, s.len)
  <2>1. r \in GoodTcb /\ r.state = t.state /\ r.inc = t.inc
    <3> HIDE DEF f
    <3> QED BY <1>2, <1>6, AdvancedFields
  <2>2. /\ Put(h, i, r) /\ AnswerOrFail(h, PureAck(r))
        /\ got' = [got EXCEPT ![r.inc][h] = Append(@, [pay |-> s.pay, given |-> up])]
        /\ UNCHANGED <<count, timers, waits, envs, sent>>
        /\ t.state = "ESTABLISHED" /\ s.len > 0
    BY <1>7 DEF DataInOrder
  <2> HIDE DEF r
  <2>3. got' \in [1 .. MaxConnects -> [Hosts -> Seq(Consumed)]]
    <3> DEFINE c == [pay |-> s.pay, given |-> up]
    <3>1. c \in Consumed
      <4>1. s.pay \in 1 .. MaxSends /\ up \in BOOLEAN
        BY <2>2, Sizes DEF GoodSeg, Named, Segment, TypeInv, BoundInv
      <4> QED BY <4>1 DEF Consumed
    <3>2. got[t.inc] \in [Hosts -> Seq(Consumed)] /\ got[t.inc][h] \in Seq(Consumed)
      BY <1>1, <1>3
    <3>3. got' = [got EXCEPT ![t.inc] = [got[t.inc] EXCEPT ![h] = Append(got[t.inc][h], c)]]
      BY <2>1, <2>2
    <3> HIDE DEF c
    <3>4. Append(got[t.inc][h], c) \in Seq(Consumed)
      BY <3>1, <3>2, AppendProperties
    <3> QED BY <1>1, <1>3, <3>2, <3>3, <3>4
  <2> QED BY <1>1, <2>1, <2>2, <2>3, BranchTypes
<1>8. CASE DataOutOfOrder(h, i, s)
  <2>1. /\ Put(h, i, f) /\ AnswerOrFail(h, PureAck(f))
        /\ UNCHANGED <<count, timers, waits, envs, hist>> /\ t.state = "ESTABLISHED"
    BY <1>8 DEF DataOutOfOrder
  <2> HIDE DEF f
  <2> QED BY <1>1, <1>3, <1>6, <2>1, BranchTypes DEF hist
<1>9. CASE PeerCloses(h, i, s)
  <2> DEFINE a == RcvAdvanced(f, 1)
             r == IF up THEN [a EXCEPT !.state = "CLOSE_WAIT"] ELSE a
  <2>1. a \in GoodTcb /\ a.state = t.state /\ a.inc = t.inc
    <3> HIDE DEF f
    <3> QED BY <1>2, <1>6, AdvancedFields
  <2>2. /\ Put(h, i, r) /\ AnswerOrFail(h, PureAck(a))
        /\ UNCHANGED <<count, timers, waits, envs, hist>> /\ t.state = "ESTABLISHED"
    BY <1>9 DEF PeerCloses
  <2> HIDE DEF a
  <2>3. r \in GoodTcb /\ r.state \in {"ESTABLISHED", "CLOSE_WAIT"}
    <3>1. "CLOSE_WAIT" \in States
      BY DEF States
    <3> QED BY <1>1, <2>1, <2>2, <3>1, StateFields
  <2> HIDE DEF r
  <2> QED BY <1>1, <1>3, <2>1, <2>2, <2>3, BranchTypes DEF hist
<1>10. CASE AckOnly(h, i, s)
  <2>1. /\ Put(h, i, f) /\ Consume(h)
        /\ UNCHANGED <<count, timers, waits, envs, hist>> /\ t.state = "ESTABLISHED"
    BY <1>10 DEF AckOnly
  <2> HIDE DEF f
  <2> QED BY <1>1, <1>3, <1>6, <2>1, BranchTypes DEF hist
<1> DEFINE k == AckedTo(t, s.ack)
<1>11. k \in GoodTcb /\ k.state = t.state /\ k.inc = t.inc
  BY <1>1, <1>2, AckedToFields
<1>12. CASE OwnFinAcked(h, i, s)
  <2> DEFINE closing == k.state = "CLOSING" /\ ~FinQueued(k)
             x == IF FinQueued(k) THEN k.state
                  ELSE IF closing THEN "TIME_WAIT" ELSE "FIN_WAIT_2"
             r == [k EXCEPT !.state = x]
  <2>1. /\ Put(h, i, r) /\ Consume(h) /\ UNCHANGED <<count, timers, envs, hist>>
        /\ waits' = [waits EXCEPT ![h][i] = IF closing THEN @ + 1 ELSE @]
        /\ t.state \in {"FIN_WAIT_1", "CLOSING"}
    BY <1>11, <1>12 DEF OwnFinAcked, AcceptsFinAck
  <2>2. /\ x \in States /\ (x = "TIME_WAIT" <=> closing) /\ x # "CLOSED"
    BY <1>11, <2>1 DEF States
  <2> HIDE DEF k
  <2>3. r \in GoodTcb /\ r.state = x
    <3> HIDE DEF x
    <3> QED BY <1>1, <1>11, <2>2, StateFields
  <2>4. waits' = IF closing THEN [waits EXCEPT ![h][i] = @ + 1] ELSE waits
    BY <2>1 DEF TypeInv, WaitsInv
  <2> HIDE DEF r, x, closing
  <2> QED BY <1>1, <1>3, <2>1, <2>2, <2>3, <2>4, BranchTypes DEF hist
<1>13. CASE LastAck(h, i, s)
  <2>1. /\ IF FinQueued(k) THEN Put(h, i, k) /\ UNCHANGED count ELSE ReleaseTcb(h, i)
        /\ Consume(h) /\ UNCHANGED <<timers, waits, envs, hist>> /\ t.state = "LAST_ACK"
    BY <1>11, <1>13 DEF LastAck
  <2> HIDE DEF k
  <2>2. CASE FinQueued(k)
    BY <1>1, <1>3, <1>11, <2>1, <2>2, BranchTypes DEF hist
  <2>3. CASE ~FinQueued(k)
    <3>1. Put(h, i, Zeroed) /\ ReleaseTcb(h, i)
      BY <2>1, <2>3 DEF ReleaseTcb
    <3>2. TcbsInv' /\ WaitsInv'
      BY <2>1, <3>1, PutTypes, PutWaits, ZeroedFields DEF TypeInv
    <3>3. CountInv'
      BY <1>1, <3>1, ReleaseCount DEF TypeInv
    <3>4. NetInv'
      BY <2>1, NetSteps DEF TypeInv
    <3> QED BY <2>1, <3>2, <3>3, <3>4 DEF TypeInv, BoundInv, envs, hist
  <2> QED BY <2>2, <2>3
<1>14. CASE PeerFinLast(h, i, s)
  <2> DEFINE a == RcvAdvanced(t, 1)
             r == IF up THEN [a EXCEPT !.state = "TIME_WAIT"] ELSE a
  <2>1. a \in GoodTcb /\ a.state = t.state /\ a.inc = t.inc
    BY <1>1, <1>2, AdvancedFields
  <2>2. /\ Put(h, i, r) /\ AnswerOrFail(h, PureAck(a))
        /\ UNCHANGED <<count, timers, envs, hist>> /\ t.state = "FIN_WAIT_2"
        /\ waits' = [waits EXCEPT ![h][i] = IF up THEN @ + 1 ELSE @]
    BY <1>14 DEF PeerFinLast
  <2> HIDE DEF a
  <2>3. r \in GoodTcb /\ r.state = IF up THEN "TIME_WAIT" ELSE "FIN_WAIT_2"
    <3>1. "TIME_WAIT" \in States
      BY DEF States
    <3> QED BY <1>1, <2>1, <2>2, <3>1, StateFields
  <2>4. waits' = IF up THEN [waits EXCEPT ![h][i] = @ + 1] ELSE waits
    BY <2>2 DEF TypeInv, WaitsInv
  <2> HIDE DEF r
  <2> QED BY <1>1, <1>3, <2>1, <2>2, <2>3, <2>4, BranchTypes DEF hist
<1>15. CASE Ignored(h, i, s)
  <2>1. NetInv'
    BY <1>15, NetSteps DEF TypeInv, Ignored
  <2> QED BY <1>15, <2>1 DEF Ignored, TypeInv, TcbsInv, WaitsInv, CountInv, BoundInv, Valid,
             tvars, envs, hist
<1> QED BY <1>4, <1>5, <1>7, <1>8, <1>9, <1>10, <1>12, <1>13, <1>14, <1>15 DEF Matched

LEMMA ReceiveTypes ==
    ASSUME TypeInv, NEW h \in Hosts, Receive(h)
    PROVE  TypeInv'
<1> DEFINE s == Head(net[h])
<1>1. net[h] # <<>> /\ s \in GoodSeg
  <2>1. net[h] # <<>> /\ net[h] \in Seq(GoodSeg)
    BY DEF Receive, TypeInv, NetInv
  <2> QED BY <2>1, HeadTailProperties
<1>2. \/ SynToListener(h, s) \/ Unmatched(h, s)
      \/ \E i \in Slots : First(FindExact(h, s.dst, s.src), i) /\ Matched(h, i, s)
  BY DEF Receive
<1> HIDE DEF s
<1>3. CASE SynToListener(h, s)
  <2> DEFINE t   == Child(s)
             syn == Seg(t, {"SYN", "ACK"}, 0, 0)
  <2>1. PICK i \in Slots : /\ AllocTcb(h, i) /\ Put(h, i, Tracked(t, syn))
                           /\ AnswerOrFail(h, syn)
    BY <1>3 DEF SynToListener, Child
  <2>2. t \in GoodTcb /\ t.state = "SYN_RECEIVED" /\ t.sendq = {} /\ t.inc # 0
    BY <1>1, ChildFields DEF GoodSeg, Named
  <2>3. syn \in GoodSeg
    <3> HIDE DEF t
    <3>1. t \in Tcb /\ {"SYN", "ACK"} \in SUBSET Flags /\ 0 \in 0 .. MSS /\ 0 \in 0 .. MaxSends
      BY <2>2, GoodTcbFields, Sizes DEF Flags
    <3> QED BY <2>2, <3>1, SegFields
  <2> HIDE DEF t, syn
  <2>4. /\ Tracked(t, syn) \in GoodTcb /\ Tracked(t, syn).state = "SYN_RECEIVED"
        /\ tcbs[h][i].state = "CLOSED"
    BY <2>1, <2>2, <2>3, TrackedFields DEF AllocTcb, First, Valid
  <2>5. TcbsInv' /\ WaitsInv'
    BY <1>3, <2>1, <2>4, PutTypes, PutWaits DEF TypeInv, SynToListener
  <2>6. CountInv'
    BY <1>3, <2>1, <2>4, PutCount DEF TypeInv, SynToListener
  <2>7. NetInv'
    BY <1>1, <2>1, <2>3, NetSteps DEF TypeInv
  <2> QED BY <1>3, <2>5, <2>6, <2>7 DEF TypeInv, BoundInv, SynToListener, envs, hist
<1>4. CASE Unmatched(h, s)
  <2>1. NetInv'
    BY <1>1, <1>4, NetSteps DEF TypeInv, Unmatched
  <2> QED BY <1>4, <2>1 DEF Unmatched, TypeInv, TcbsInv, WaitsInv, CountInv, BoundInv, Valid,
             tvars, envs, hist
<1>5. CASE \E i \in Slots : First(FindExact(h, s.dst, s.src), i) /\ Matched(h, i, s)
  <2>1. PICK i \in Slots : First(FindExact(h, s.dst, s.src), i) /\ Matched(h, i, s)
    BY <1>5
  <2>2. tcbs[h][i].state \notin Unowned
    BY <2>1 DEF First, FindExact, Valid, Unowned
  <2> QED BY <1>1, <2>1, <2>2, MatchedTypes
<1> QED BY <1>2, <1>3, <1>4, <1>5

LEMMA TimerTypes ==
    ASSUME TypeInv, NEW h \in Hosts, NEW i \in Slots,
           Retransmit(h, i) \/ TimerEnds(h, i) \/ TimeWaitExpires(h, i)
    PROVE  TypeInv'
<1>1. tcbs[h][i] \in GoodTcb
  BY SlotGood DEF TypeInv
<1>2. CASE Retransmit(h, i)
  <2>1. PICK s \in tcbs[h][i].sendq : Transmit(h, s)
    BY <1>2 DEF Retransmit
  <2>2. s \in GoodSeg
    BY <1>1, <2>1, GoodTcbFields
  <2>3. NetInv'
    BY <2>1, <2>2, NetSteps DEF TypeInv
  <2> QED BY <1>2, <2>3 DEF Retransmit, TypeInv, TcbsInv, WaitsInv, CountInv, BoundInv, Valid,
             tvars, envs, hist
<1>3. CASE TimerEnds(h, i)
  <2>1. timers' = [timers EXCEPT ![h] = [timers[h] EXCEPT ![i] = timers[h][i] - 1]]
    BY <1>3 DEF TimerEnds, Disarm
  <2>2. timers[h] \in [Slots -> Nat] /\ timers[h][i] \in Nat /\ timers[h][i] > 0
    BY <1>3 DEF TypeInv, BoundInv, TimerEnds
  <2>3. timers' \in [Hosts -> [Slots -> Nat]]
    BY <2>1, <2>2 DEF TypeInv, BoundInv
  <2> QED BY <1>3, <2>3 DEF TimerEnds, TypeInv, TcbsInv, NetInv, WaitsInv, CountInv, BoundInv, Valid,
             envs, hist
<1>4. CASE TimeWaitExpires(h, i)
  <2>1. waits[h][i] = 1 /\ tcbs[h][i].state = "TIME_WAIT"
    BY <1>4 DEF TimeWaitExpires, TypeInv, WaitsInv
  <2>2. ReleaseTcb(h, i) /\ Put(h, i, Zeroed)
    BY <1>4, <2>1 DEF TimeWaitExpires, ReleaseTcb
  <2>3. waits' = [waits EXCEPT ![h][i] = IF Zeroed.state = "TIME_WAIT" THEN 1 ELSE 0]
    BY <1>4, <2>1, ZeroedFields DEF TimeWaitExpires
  <2>4. TcbsInv' /\ WaitsInv'
    BY <2>2, <2>3, PutTypes, PutWaits2, ZeroedFields DEF TypeInv
  <2>5. CountInv'
    BY <2>1, <2>2, ReleaseCount DEF TypeInv
  <2> QED BY <1>4, <2>4, <2>5 DEF TimeWaitExpires, TypeInv, NetInv, BoundInv, envs, hist
<1> QED BY <1>2, <1>3, <1>4

LEMMA LinkTypes ==
    ASSUME TypeInv, Flap \/ (\E h \in Hosts : Lose(h))
    PROVE  TypeInv'
<1>1. CASE Flap
  <2>1. flaps' \in 0 .. MaxFlaps /\ up' \in BOOLEAN
    BY <1>1, Sizes DEF Flap, TypeInv, BoundInv
  <2> QED BY <1>1, <2>1 DEF Flap, TypeInv, TcbsInv, NetInv, WaitsInv, CountInv, BoundInv, Valid,
             tvars, hist
<1>2. CASE \E h \in Hosts : Lose(h)
  <2>1. PICK h \in Hosts : Lose(h)
    BY <1>2
  <2>2. losses' \in 0 .. MaxLosses
    BY <2>1, Sizes DEF Lose, TypeInv, BoundInv
  <2>3. net[h] \in Seq(GoodSeg) /\ net[h] # <<>>
    BY <2>1 DEF Lose, TypeInv, NetInv
  <2>4. NetInv'
    <3>1. Tail(net[h]) \in Seq(GoodSeg)
      BY <2>3, HeadTailProperties
    <3> QED BY <2>1, <3>1 DEF Lose, Consume, TypeInv, NetInv
  <2> QED BY <2>1, <2>2, <2>4 DEF Lose, TypeInv, TcbsInv, WaitsInv, CountInv, BoundInv, Valid,
             tvars, hist
<1> QED BY <1>1, <1>2

\* What the bounds let the applications call.
LEMMA Inputs ==
    /\ \A l \in Listens : l[1] \in Hosts /\ l[2] \in Nat
    /\ \A d \in Dials : d[1] \in Hosts /\ d[2] \in Nat /\ d[3] \in Nat
    /\ \A h \in Senders : h \in Hosts
    /\ \A n \in Lens : n \in Nat /\ n > 0
BY InputAssumption

LEMMA TypeInit == Init => TypeInv
<1> SUFFICES ASSUME Init PROVE TypeInv
  OBVIOUS
<1>1. TcbsInv
  BY ZeroedFields DEF Init, TcbsInv
<1>2. NetInv /\ WaitsInv
  <2>1. <<>> \in Seq(GoodSeg)
    BY EmptySeq
  <2> QED BY <2>1, ZeroedFields DEF Init, NetInv, WaitsInv
<1>3. CountInv
  <2>1. \A h \in Hosts : Valid(h) = {}
    BY ZeroedFields DEF Init, Valid
  <2> QED BY <2>1, FS_EmptySet DEF Init, CountInv
<1>4. BoundInv
  BY Sizes DEF Init, BoundInv
<1> QED BY <1>1, <1>2, <1>3, <1>4 DEF TypeInv

LEMMA TypeStep == TypeInv /\ [Next]_vars => TypeInv'
<1> SUFFICES ASSUME TypeInv, [Next]_vars PROVE TypeInv'
  OBVIOUS
<1>1. CASE Application
  BY <1>1, Inputs, ListenTypes, ConnectTypes, CloseTypes, SendTypes DEF Application
<1>2. CASE \E h \in Hosts : Receive(h)
  BY <1>2, ReceiveTypes
<1>3. CASE Flap \/ \E h \in Hosts : Lose(h)
  BY <1>3, LinkTypes
<1>4. CASE \E h \in Hosts, i \in Slots :
              Retransmit(h, i) \/ TimerEnds(h, i) \/ TimeWaitExpires(h, i)
  BY <1>4, TimerTypes
<1>5. CASE UNCHANGED vars
  BY <1>5 DEF vars, tvars, envs, hist, TypeInv, TcbsInv, NetInv, WaitsInv, CountInv, BoundInv, Valid
<1> QED BY <1>1, <1>2, <1>3, <1>4, <1>5 DEF Next

LEMMA TypeInvariant == Spec => []TypeInv
BY TypeInit, TypeStep, PTL DEF Spec

LEMMA TypesOK == TypeInv => TypeOK
<1> SUFFICES ASSUME TypeInv PROVE TypeOK
  OBVIOUS
<1>1. GoodTcb \subseteq Tcb /\ GoodSeg \subseteq Segment
  BY DEF GoodTcb, GoodSeg
<1>2. tcbs \in [Hosts -> [Slots -> Tcb]]
  BY <1>1 DEF TypeInv, TcbsInv
<1>3. \A h \in Hosts, i \in Slots : Cardinality(tcbs[h][i].sendq) <= 1
  BY SlotGood, GoodTcbFields, AtMostOne DEF TypeInv
<1>4. net \in [Hosts -> Seq(Segment)]
  BY <1>1, SeqMonotonic DEF TypeInv, NetInv
<1>5. waits \in [Hosts -> [Slots -> 0 .. 1]]
  BY DEF TypeInv, WaitsInv
<1> QED BY <1>2, <1>3, <1>4, <1>5 DEF TypeOK, TypeInv, CountInv, BoundInv

\* Every variable keeps its type, a send queue never holds two segments, and
\* TcpTable.count (tcp.c:9, 25) is the number of valid slots.
THEOREM TypeCorrect == Spec => []TypeOK
BY TypeInvariant, TypesOK, PTL

-----------------------------------------------------------------------------
(***************************************************************************)
(* Lookup: no two TCBs of a table answer to the same ports.                *)
(***************************************************************************)
Answers(r, t) ==
    /\ r.state = "LISTEN" <=> t.state = "LISTEN"
    /\ r.lport = t.lport /\ r.rport = t.rport

LEMMA PutTuple ==
    ASSUME TcbsInv, OneTcbPerTuple, NEW h \in Hosts, NEW i \in Slots, NEW r \in GoodTcb,
           Put(h, i, r),
           \/ r.state = "CLOSED"
           \/ tcbs[h][i].state # "CLOSED" /\ Answers(r, tcbs[h][i])
           \/ \A j \in Valid(h) : ~Answers(r, tcbs[h][j])
    PROVE  OneTcbPerTuple'
<1> SUFFICES ASSUME NEW g \in Hosts, NEW j \in Valid(g)', NEW k \in Valid(g)',
                    Answers(tcbs'[g][j], tcbs'[g][k])
             PROVE  j = k
  BY DEF OneTcbPerTuple, Answers
<1>1. \A x \in Slots : tcbs'[g][x] = IF g = h /\ x = i THEN r ELSE tcbs[g][x]
  BY PutTypes
<1>2. /\ j \in Slots /\ k \in Slots /\ tcbs'[g][j].state # "CLOSED"
      /\ tcbs'[g][k].state # "CLOSED"
  BY DEF Valid
<1>3. \A x, y \in Valid(g) : Answers(tcbs[g][x], tcbs[g][y]) => x = y
  BY DEF OneTcbPerTuple, Answers
<1>4. CASE g # h \/ (j # i /\ k # i)
  BY <1>1, <1>2, <1>3, <1>4 DEF Valid
<1>5. CASE g = h /\ j = i /\ k # i
  <2>1. k \in Valid(h) /\ Answers(r, tcbs[h][k]) /\ r.state # "CLOSED"
    BY <1>1, <1>2, <1>5 DEF Valid
  <2>2. tcbs[h][i].state # "CLOSED" /\ Answers(r, tcbs[h][i])
    BY <2>1
  <2>3. i \in Valid(h) /\ Answers(tcbs[h][i], tcbs[h][k])
    BY <2>1, <2>2 DEF Valid, Answers
  <2> QED BY <1>3, <1>5, <2>1, <2>3
<1>6. CASE g = h /\ j # i /\ k = i
  <2>1. j \in Valid(h) /\ Answers(r, tcbs[h][j]) /\ r.state # "CLOSED"
    BY <1>1, <1>2, <1>6 DEF Valid, Answers
  <2>2. tcbs[h][i].state # "CLOSED" /\ Answers(r, tcbs[h][i])
    BY <2>1
  <2>3. i \in Valid(h) /\ Answers(tcbs[h][i], tcbs[h][j])
    BY <2>1, <2>2 DEF Valid, Answers
  <2> QED BY <1>3, <1>6, <2>1, <2>3
<1> QED BY <1>4, <1>5, <1>6

LEMMA MatchedTuple ==
    ASSUME TypeInv, OneTcbPerTuple, NEW h \in Hosts, NEW i \in Slots,
           tcbs[h][i].state \notin Unowned,
           NEW s \in GoodSeg, Matched(h, i, s)
    PROVE  OneTcbPerTuple'
<1> DEFINE t == tcbs[h][i]
           f == AckField(t, s)
           k == AckedTo(t, s.ack)
           Same(r) == r \in GoodTcb /\ Answers(r, t)
<1>1. t \in GoodTcb /\ t.inc # 0 /\ t.state # "CLOSED" /\ t.state # "LISTEN" /\ TcbsInv
  BY SlotGood, GoodTcbFields DEF TypeInv, Unowned
<1>2. s.seq \in Nat /\ s.len \in Nat /\ s.ack \in Seqs /\ 1 \in Nat
  BY Sizes DEF GoodSeg, Segment, Seqs
<1>3. \A r \in GoodTcb : Put(h, i, r) /\ (r.state = "CLOSED" \/ Same(r)) => OneTcbPerTuple'
  <2> HIDE DEF t, f, k
  <2> QED BY <1>1, PutTuple DEF t
<1>4. ASSUME NEW r \in GoodTcb, Same(r), r.inc # 0, NEW x \in States, x # "LISTEN"
      PROVE  [r EXCEPT !.state = x] \in GoodTcb /\ Same([r EXCEPT !.state = x])
  <2> HIDE DEF t
  <2> QED BY <1>1, <1>4, StateFields DEF Answers
<1>5. ASSUME NEW r \in GoodTcb, Same(r), NEW n \in Nat
      PROVE  RcvAdvanced(r, n) \in GoodTcb /\ Same(RcvAdvanced(r, n))
  <2> HIDE DEF t
  <2> QED BY <1>5, AdvancedFields DEF Answers
<1>6. /\ f \in GoodTcb /\ Same(f) /\ f.inc # 0
      /\ k \in GoodTcb /\ Same(k) /\ k.inc # 0 /\ k.state = t.state
  <2> HIDE DEF t
  <2> QED BY <1>1, <1>2, AckFieldFields, AckedToFields DEF Answers
<1>7. /\ Opened(t, s) \in GoodTcb /\ Same(Opened(t, s))
  <2> HIDE DEF t
  <2> QED BY <1>1, OpenedFields DEF Answers
<1>8. "CLOSE_WAIT" \in States /\ "TIME_WAIT" \in States /\ "FIN_WAIT_2" \in States
  BY DEF States
<1>9. CASE SynAck(h, i, s)
  <2> DEFINE o == Opened(t, s)
             r == [o EXCEPT !.rcv = Plus(s.seq, 1)]
  <2>1. Put(h, i, r)
    BY <1>9 DEF SynAck
  <2>2. Plus(s.seq, 1) \in Seqs
    BY <1>2, PlusSeqs
  <2> HIDE DEF o, t
  <2>3. r \in GoodTcb /\ Same(r)
    BY <1>7, <2>2, RcvFields DEF Answers, o
  <2> QED BY <1>3, <2>1, <2>3
<1>10. CASE FinalAck(h, i, s)
  BY <1>3, <1>7, <1>10 DEF FinalAck
<1>11. CASE DataInOrder(h, i, s)
  <2>1. Put(h, i, RcvAdvanced(f, s.len))
    BY <1>11 DEF DataInOrder
  <2> HIDE DEF f
  <2> QED BY <1>2, <1>3, <1>5, <1>6, <2>1
<1>12. CASE DataOutOfOrder(h, i, s)
  BY <1>3, <1>6, <1>12 DEF DataOutOfOrder
<1>13. CASE PeerCloses(h, i, s)
  <2> DEFINE a == RcvAdvanced(f, 1)
  <2>1. Put(h, i, IF up THEN [a EXCEPT !.state = "CLOSE_WAIT"] ELSE a)
    BY <1>13 DEF PeerCloses
  <2>2. a \in GoodTcb /\ Same(a) /\ a.inc # 0
    <3> HIDE DEF f
    <3> QED BY <1>2, <1>5, <1>6, AdvancedFields
  <2> HIDE DEF a
  <2> QED BY <1>3, <1>4, <1>8, <2>1, <2>2
<1>14. CASE AckOnly(h, i, s)
  BY <1>3, <1>6, <1>14 DEF AckOnly
<1>15. CASE OwnFinAcked(h, i, s)
  <2> DEFINE closing == k.state = "CLOSING" /\ ~FinQueued(k)
             x == IF FinQueued(k) THEN k.state
                  ELSE IF closing THEN "TIME_WAIT" ELSE "FIN_WAIT_2"
  <2>1. Put(h, i, [k EXCEPT !.state = x])
    BY <1>15 DEF OwnFinAcked
  <2>2. x \in States /\ x # "LISTEN"
    BY <1>1, <1>6, <1>8, GoodTcbFields
  <2> HIDE DEF k, x
  <2> QED BY <1>3, <1>4, <1>6, <2>1, <2>2
<1>16. CASE LastAck(h, i, s)
  <2>1. Put(h, i, k) \/ Put(h, i, Zeroed)
    BY <1>16 DEF LastAck, ReleaseTcb
  <2> HIDE DEF k
  <2> QED BY <1>3, <1>6, <2>1, ZeroedFields
<1>17. CASE PeerFinLast(h, i, s)
  <2> DEFINE a == RcvAdvanced(t, 1)
  <2>1. Put(h, i, IF up THEN [a EXCEPT !.state = "TIME_WAIT"] ELSE a)
    BY <1>17 DEF PeerFinLast
  <2>2. a \in GoodTcb /\ Same(a) /\ a.inc # 0
    BY <1>1, <1>2, AdvancedFields DEF Answers
  <2> HIDE DEF a
  <2> QED BY <1>3, <1>4, <1>8, <2>1, <2>2
<1>18. CASE Ignored(h, i, s)
  BY <1>18 DEF Ignored, tvars, OneTcbPerTuple, Valid
<1> QED BY <1>9, <1>10, <1>11, <1>12, <1>13, <1>14, <1>15, <1>16, <1>17, <1>18 DEF Matched

LEMMA OneTcbStep == TypeInv /\ OneTcbPerTuple /\ [Next]_vars => OneTcbPerTuple'
<1> SUFFICES ASSUME TypeInv, OneTcbPerTuple, [Next]_vars PROVE OneTcbPerTuple'
  OBVIOUS
<1>1. TcbsInv
  BY DEF TypeInv
<1>2. ASSUME UNCHANGED tcbs PROVE OneTcbPerTuple'
  BY <1>2 DEF OneTcbPerTuple, Valid
<1>3. ASSUME NEW l \in Listens, Listen(l[1], l[2]) PROVE OneTcbPerTuple'
  <2>1. PICK i \in Slots : Put(l[1], i, Listener(l[2]))
    BY <1>3 DEF Listen, Listener
  <2>2. l[1] \in Hosts /\ l[2] \in Nat
    BY Inputs
  <2>3. Listener(l[2]) \in GoodTcb /\ Listener(l[2]).state = "LISTEN" /\ Listener(l[2]).lport = l[2]
    BY <2>2, ListenerFields
  <2>4. \A j \in Valid(l[1]) : ~Answers(Listener(l[2]), tcbs[l[1]][j])
    BY <1>3, <2>3 DEF Listen, FindListener, Answers
  <2> QED BY <1>1, <2>1, <2>2, <2>3, <2>4, PutTuple
<1>4. ASSUME NEW d \in Dials, Connect(d[1], d[2], d[3]) PROVE OneTcbPerTuple'
  <2> DEFINE t   == Dialled(d[2], d[3], conns + 1)
             syn == Seg(t, {"SYN"}, 0, 0)
             h   == d[1]
  <2>1. PICK i \in Slots : Put(h, i, Tracked(t, syn))
    BY <1>4 DEF Connect, Dialled
  <2>2. h \in Hosts /\ d[2] \in Nat /\ d[3] \in Nat /\ conns + 1 \in 1 .. MaxConnects
    <3>1. d[1] \in Hosts /\ d[2] \in Nat /\ d[3] \in Nat
      BY Inputs
    <3>2. conns \in 0 .. MaxConnects
      BY DEF TypeInv, BoundInv
    <3>3. conns < MaxConnects
      BY <1>4 DEF Connect
    <3> QED BY <3>1, <3>2, <3>3, Sizes
  <2>3. /\ t \in GoodTcb /\ t.state = "SYN_SENT" /\ t.lport = d[2] /\ t.rport = d[3]
        /\ t.inc # 0 /\ t.sendq = {}
    BY <2>2, DialledFields
  <2> HIDE DEF t
  <2>4. syn \in GoodSeg
    <3>1. t \in Tcb /\ {"SYN"} \in SUBSET Flags /\ 0 \in 0 .. MSS /\ 0 \in 0 .. MaxSends
      BY <2>3, GoodTcbFields, Sizes DEF Flags
    <3> QED BY <2>3, <3>1, SegFields
  <2> HIDE DEF syn
  <2>5. /\ Tracked(t, syn) \in GoodTcb /\ Tracked(t, syn).state = "SYN_SENT"
        /\ Tracked(t, syn).lport = d[2] /\ Tracked(t, syn).rport = d[3]
    BY <2>3, <2>4, TrackedFields
  <2>6. FindExact(h, d[2], d[3]) = {}
    BY <1>4 DEF Connect
  <2> HIDE DEF h
  <2>7. \A j \in Valid(h) : ~Answers(Tracked(t, syn), tcbs[h][j])
    BY <2>5, <2>6 DEF FindExact, Answers
  <2> QED BY <1>1, <2>1, <2>2, <2>5, <2>7, PutTuple
<1>5. ASSUME NEW h \in Hosts, NEW i \in Slots, Close(h, i) PROVE OneTcbPerTuple'
  <2> DEFINE t == tcbs[h][i]
             s == Seg(t, {"FIN", "ACK"}, 0, 0)
             x == IF t.state = "ESTABLISHED" THEN "FIN_WAIT_1" ELSE "LAST_ACK"
  <2>1. t \in GoodTcb /\ t.state \in {"ESTABLISHED", "CLOSE_WAIT"} /\ t.sendq = {} /\ t.inc # 0
    BY <1>1, <1>5, SlotGood, GoodTcbFields DEF Close, MayClose, Unowned
  <2>2. s \in GoodSeg
    <3> HIDE DEF t
    <3>1. t \in Tcb /\ {"FIN", "ACK"} \in SUBSET Flags /\ 0 \in 0 .. MSS /\ 0 \in 0 .. MaxSends
      BY <2>1, GoodTcbFields, Sizes DEF Flags
    <3> QED BY <2>1, <3>1, SegFields
  <2>3. /\ Tracked(t, s) \in GoodTcb /\ Tracked(t, s).state = t.state /\ Tracked(t, s).inc # 0
        /\ Tracked(t, s).lport = t.lport /\ Tracked(t, s).rport = t.rport
    <3> HIDE DEF t, s
    <3> QED BY <2>1, <2>2, TrackedFields
  <2>4. Put(h, i, [Tracked(t, s) EXCEPT !.state = x])
    BY <1>5, <2>3 DEF Close
  <2>5. x \in States /\ x # "LISTEN"
    BY DEF States
  <2> DEFINE r == [Tracked(t, s) EXCEPT !.state = x]
  <2>6. r \in GoodTcb /\ r.state = x /\ r.lport = t.lport /\ r.rport = t.rport
    <3> HIDE DEF t, s, x
    <3> QED BY <2>3, <2>5, StateFields
  <2>7. tcbs[h][i].state # "CLOSED" /\ Answers(r, tcbs[h][i])
    BY <2>1, <2>5, <2>6 DEF Answers
  <2> HIDE DEF r
  <2> QED BY <1>1, <2>4, <2>6, <2>7, PutTuple DEF r
<1>6. ASSUME NEW h \in Senders, NEW i \in Slots, NEW n \in Lens, Send(h, i, n)
      PROVE  OneTcbPerTuple'
  <2> DEFINE t == tcbs[h][i]
             s == Seg(t, {"ACK"}, IF n > MSS THEN MSS ELSE n, sends + 1)
  <2>1. h \in Hosts /\ n \in Nat /\ n > 0
    BY Inputs
  <2>2. /\ t \in GoodTcb /\ t.state = "ESTABLISHED" /\ t.sendq = {} /\ t.inc # 0
    BY <1>1, <1>6, <2>1, SlotGood, GoodTcbFields DEF Send, MaySend, Unowned
  <2>3. s \in GoodSeg
    <3> HIDE DEF t
    <3>1. /\ t \in Tcb /\ {"ACK"} \in SUBSET Flags
          /\ (IF n > MSS THEN MSS ELSE n) \in 0 .. MSS
          /\ sends + 1 \in 0 .. MaxSends /\ sends + 1 # 0
      <4>1. t \in Tcb /\ {"ACK"} \in SUBSET Flags
        BY <2>2, GoodTcbFields DEF Flags
      <4>2. sends \in 0 .. MaxSends
        BY DEF TypeInv, BoundInv
      <4>3. sends < MaxSends
        BY <1>6 DEF Send
      <4>4. (IF n > MSS THEN MSS ELSE n) \in 0 .. MSS
        BY <2>1, Sizes
      <4> QED BY <4>1, <4>2, <4>3, <4>4, Sizes
    <3> QED BY <2>2, <3>1, SegFields
  <2>4. Put(h, i, Tracked(t, s))
    BY <1>6 DEF Send
  <2>5. Tracked(t, s) \in GoodTcb /\ Answers(Tracked(t, s), t)
    <3> HIDE DEF t, s
    <3> QED BY <2>2, <2>3, TrackedFields DEF Answers
  <2> HIDE DEF s
  <2> QED BY <1>1, <2>1, <2>2, <2>4, <2>5, PutTuple
<1>7. ASSUME NEW h \in Hosts, Receive(h) PROVE OneTcbPerTuple'
  <2> DEFINE s == Head(net[h])
  <2>1. s \in GoodSeg
    <3>1. net[h] # <<>> /\ net[h] \in Seq(GoodSeg)
      BY <1>7 DEF Receive, TypeInv, NetInv
    <3> QED BY <3>1, HeadTailProperties
  <2>2. \/ SynToListener(h, s) \/ Unmatched(h, s)
        \/ \E i \in Slots : First(FindExact(h, s.dst, s.src), i) /\ Matched(h, i, s)
    BY <1>7 DEF Receive
  <2> HIDE DEF s
  <2>3. CASE SynToListener(h, s)
    <3> DEFINE t   == Child(s)
               syn == Seg(t, {"SYN", "ACK"}, 0, 0)
    <3>1. PICK i \in Slots : Put(h, i, Tracked(t, syn))
      BY <2>3 DEF SynToListener, Child
    <3>2. /\ t \in GoodTcb /\ t.state = "SYN_RECEIVED" /\ t.sendq = {} /\ t.inc # 0
          /\ t.lport = s.dst /\ t.rport = s.src
      BY <2>1, ChildFields DEF GoodSeg, Named
    <3> HIDE DEF t
    <3>3. syn \in GoodSeg
      <4>1. t \in Tcb /\ {"SYN", "ACK"} \in SUBSET Flags /\ 0 \in 0 .. MSS /\ 0 \in 0 .. MaxSends
        BY <3>2, GoodTcbFields, Sizes DEF Flags
      <4> QED BY <3>2, <4>1, SegFields
    <3> HIDE DEF syn
    <3>4. /\ Tracked(t, syn) \in GoodTcb /\ Tracked(t, syn).state = "SYN_RECEIVED"
          /\ Tracked(t, syn).lport = s.dst /\ Tracked(t, syn).rport = s.src
      BY <3>2, <3>3, TrackedFields
    <3>5. \A j \in Valid(h) : ~Answers(Tracked(t, syn), tcbs[h][j])
      BY <2>3, <3>4 DEF SynToListener, FindExact, Answers
    <3> QED BY <1>1, <3>1, <3>4, <3>5, PutTuple
  <2>4. CASE Unmatched(h, s)
    BY <1>2, <2>4 DEF Unmatched, tvars
  <2>5. CASE \E i \in Slots : First(FindExact(h, s.dst, s.src), i) /\ Matched(h, i, s)
    <3>1. PICK i \in Slots : First(FindExact(h, s.dst, s.src), i) /\ Matched(h, i, s)
      BY <2>5
    <3>2. tcbs[h][i].state \notin Unowned
      BY <3>1 DEF First, FindExact, Valid, Unowned
    <3> QED BY <2>1, <3>1, <3>2, MatchedTuple
  <2> QED BY <2>2, <2>3, <2>4, <2>5
<1>8. ASSUME NEW h \in Hosts, NEW i \in Slots, TimeWaitExpires(h, i) PROVE OneTcbPerTuple'
  <2>1. UNCHANGED tcbs \/ Put(h, i, Zeroed)
    BY <1>8 DEF TimeWaitExpires, ReleaseTcb
  <2> QED BY <1>1, <1>2, <2>1, PutTuple, ZeroedFields
<1>9. CASE Application
  BY <1>3, <1>4, <1>5, <1>6, <1>9 DEF Application
<1>10. CASE \/ Flap \/ UNCHANGED vars \/ \E h \in Hosts : Lose(h)
            \/ \E h \in Hosts, i \in Slots : Retransmit(h, i) \/ TimerEnds(h, i)
  BY <1>2, <1>10 DEF Flap, Lose, Retransmit, TimerEnds, vars, tvars
<1> QED BY <1>7, <1>8, <1>9, <1>10 DEF Next

\* tcp_find_exact and tcp_find_listener (tcp.c:128, 151) have one TCB to
\* find, whatever is repeated, reused or released.
THEOREM LookupTheorem == Spec => []OneTcbPerTuple
<1>1. Init => OneTcbPerTuple
  BY ZeroedFields DEF Init, OneTcbPerTuple, Valid
<1> QED BY <1>1, OneTcbStep, TypeInvariant, PTL DEF Spec

-----------------------------------------------------------------------------
(***************************************************************************)
(* The inductive invariant of a link, seen from one end: T and Q are the   *)
(* tables of the two hosts, N the segments on the way to T, M those on the *)
(* way to Q.                                                               *)
(***************************************************************************)
Conns(T)   == {i \in Slots : T[i].state \notin {"CLOSED", "LISTEN"}}
In(N)      == {N[n] : n \in 1 .. Len(N)}
Size(s)    == IF s.flags \cap {"SYN", "FIN"} # {} THEN 1 ELSE s.len
Mirror(t, q) == t.lport = q.rport /\ t.rport = q.lport

\* What a segment looks like.
SegShape(s) ==
    /\ s.inc # 0 /\ s.seq + Size(s) < SeqSpace
    /\ \/ s.flags = {"SYN"} /\ s.seq = 0 /\ s.len = 0 /\ s.ack = 0
       \/ s.flags = {"SYN", "ACK"} /\ s.seq = 0 /\ s.len = 0 /\ s.ack = 1
       \/ s.flags = {"FIN", "ACK"} /\ s.len = 0
       \/ s.flags = {"ACK"} /\ (s.len > 0 => s.pay # 0)

\* What a queued segment has to do with its TCB.
Queued(t, s) ==
    /\ SegShape(s) /\ s.inc = t.inc /\ From(t, s)
    /\ s.seq = t.una /\ s.seq + Size(s) = t.nxt /\ s.ack <= t.rcv
    /\ t.state = "SYN_SENT" => s.flags = {"SYN"}
    /\ t.state = "SYN_RECEIVED" => s.flags = {"SYN", "ACK"}
    /\ t.state \in {"ESTABLISHED", "CLOSE_WAIT"} => s.flags = {"ACK"} /\ s.len > 0
    /\ t.state \in {"FIN_WAIT_1", "LAST_ACK"} => s.flags = {"FIN", "ACK"}

\* What a TCB looks like after n data segments.
TcbShape(t, n) ==
    /\ t.state \notin {"CLOSED", "LISTEN"} => t.inc # 0
    /\ t.state \in {"CLOSED", "LISTEN"} =>
          t.inc = 0 /\ t.una = 0 /\ t.nxt = 0 /\ t.rcv = 0 /\ t.sendq = {}
    /\ t.state # "CLOSING"
    /\ t.state = "SYN_SENT" => t.una = 0 /\ t.nxt = 1 /\ t.rcv = 0
    /\ t.state = "SYN_RECEIVED" => t.una = 0 /\ t.nxt = 1 /\ t.rcv = 1
    /\ t.state \notin {"CLOSED", "LISTEN", "SYN_SENT", "SYN_RECEIVED"} =>
          t.una >= 1 /\ t.rcv >= 1
    /\ t.una <= t.nxt /\ t.nxt <= MSS * n + 2
    /\ t.state \in {"ESTABLISHED", "CLOSE_WAIT"} => t.nxt <= MSS * n + 1
    /\ \A s \in t.sendq : Queued(t, s)
    /\ \A r, s \in t.sendq : r = s
    /\ t.sendq = {} => t.una = t.nxt
    /\ t.state \in {"SYN_SENT", "SYN_RECEIVED", "FIN_WAIT_1", "LAST_ACK"} => t.sendq # {}
    /\ t.state \in {"FIN_WAIT_2", "TIME_WAIT"} => t.sendq = {}

Shapes(T, N, n, c) ==
    /\ \A i \in Slots : TcbShape(T[i], n) /\ T[i].inc <= c
    /\ \A s \in In(N) : SegShape(s) /\ s.inc <= c

Distinct(T) ==
    \A i, j \in Conns(T) :
        \/ T[i].inc = T[j].inc
        \/ T[i].lport = T[j].lport /\ T[i].rport = T[j].rport
        => i = j

\* One connection, one pair of ports, at both ends and on the way.
Addressed(T, Q, N) ==
    /\ \A i \in Conns(T), s \in In(N) : s.inc = T[i].inc => For(T[i], s)
    /\ \A j \in Conns(Q), s \in In(N) : s.inc = Q[j].inc => From(Q[j], s)
    /\ \A i \in Conns(T), j \in Conns(Q) : T[i].inc = Q[j].inc => Mirror(T[i], Q[j])

\* What Q's TCBs have sent so far.
Opening(Q, N) ==
    \A j \in Conns(Q), s \in In(N) :
        s.inc = Q[j].inc =>
            /\ Q[j].state = "SYN_SENT" => s.flags = {"SYN"}
            /\ Q[j].state = "SYN_RECEIVED" => s.flags = {"SYN", "ACK"}
            /\ s.ack <= Q[j].rcv

\* The SYNs of a connection come before everything else of it.
SynsFirst(N) ==
    \A a, b \in 1 .. Len(N) :
        a < b /\ N[a].inc = N[b].inc /\ "SYN" \in N[b].flags => "SYN" \in N[a].flags

\* After the first segment of a connection nothing older comes.
NewestLast(Q, N) ==
    \A j \in Conns(Q), a, b \in 1 .. Len(N) :
        a < b /\ From(Q[j], N[a]) /\ From(Q[j], N[b]) /\ N[a].inc = Q[j].inc
            => N[b].inc = Q[j].inc

\* A segment for a TCB that is past SYN_SENT is of its connection or a SYN.
Current(T, N) ==
    \A i \in Conns(T), s \in In(N) :
        T[i].state # "SYN_SENT" /\ For(T[i], s) => s.inc = T[i].inc \/ s.flags = {"SYN"}

SameConnection(T, Q) ==
    \A i \in Conns(T), j \in Conns(Q) :
        T[i].state # "SYN_SENT" /\ Q[j].state # "SYN_SENT" /\ Mirror(T[i], Q[j])
            => T[i].inc = Q[j].inc

Has(T, k, S) == \E i \in Conns(T) : T[i].inc = k /\ T[i].state \in S

\* What a SYN and a SYN-ACK on the way say of both ends.
SynsLive(T, Q, N) ==
    /\ \A s \in In(N) : s.flags = {"SYN"} =>
          Has(Q, s.inc, {"SYN_SENT"}) \/ Has(T, s.inc, {"SYN_RECEIVED"})
    /\ \A s \in In(N) : s.flags = {"SYN", "ACK"} =>
          Has(T, s.inc, {"SYN_SENT", "ESTABLISHED", "FIN_WAIT_1"})

\* What the state of one end says of the other.
Partner(T, Q, N) ==
    \A i \in Conns(T) :
        /\ T[i].state = "SYN_SENT" =>
              /\ \A j \in Conns(Q) : Q[j].inc = T[i].inc => Q[j].state = "SYN_RECEIVED"
              /\ \A s \in In(N) : s.inc = T[i].inc => Has(Q, s.inc, {"SYN_RECEIVED"})
        /\ T[i].state = "SYN_RECEIVED" =>
              Has(Q, T[i].inc, {"SYN_SENT", "ESTABLISHED", "FIN_WAIT_1"})
        /\ T[i].state = "ESTABLISHED" =>
              Has(Q, T[i].inc, {"SYN_RECEIVED", "ESTABLISHED", "FIN_WAIT_1", "FIN_WAIT_2"})

\* What Q has received is the beginning or the end of what T has sent.
Numbers(T, Q, N) ==
    /\ \A i \in Conns(T), j \in Conns(Q) :
          T[i].inc = Q[j].inc =>
             /\ Q[j].rcv = T[i].una \/ Q[j].rcv = T[i].nxt
             /\ \A s \in Q[j].sendq : s.ack <= T[i].una \/ s.ack = T[i].nxt
    /\ \A i \in Conns(T), s \in In(N) :
          s.inc = T[i].inc => s.ack <= T[i].una \/ s.ack = T[i].nxt

\* A segment with contents is old, or is the one that is queued.
Contents(T, Q, N) ==
    \A i \in Conns(T), s \in In(N) :
        s.inc = T[i].inc /\ Size(s) > 0 =>
            \/ s.seq + Size(s) <= T[i].rcv
            \/ \E j \in Conns(Q) : Q[j].inc = s.inc /\ s \in Q[j].sendq

Way(T, Q, N) ==
    /\ Distinct(T) /\ Addressed(T, Q, N) /\ Opening(Q, N) /\ SynsFirst(N)
    /\ NewestLast(Q, N) /\ Current(T, N) /\ SameConnection(T, Q)
    /\ SynsLive(T, Q, N) /\ Partner(T, Q, N) /\ Numbers(T, Q, N) /\ Contents(T, Q, N)

By(f, h) == [k \in 1 .. MaxConnects |-> f[k][h]]

\* A table before and after a change of one slot.
Changed(T, U, i, r) == \A j \in Slots : U[j] = IF j = i THEN r ELSE T[j]
Tables == [Slots -> GoodTcb]

LEMMA InTail ==
    ASSUME NEW N \in Seq(GoodSeg), N # <<>>
    PROVE  /\ Tail(N) \in Seq(GoodSeg) /\ Len(Tail(N)) = Len(N) - 1
           /\ Len(N) \in Nat /\ Len(N) > 0 /\ Head(N) = N[1] /\ N[1] \in In(N)
           /\ \A a \in 1 .. Len(Tail(N)) : Tail(N)[a] = N[a + 1]
           /\ In(Tail(N)) \subseteq In(N)
<1>1. /\ Tail(N) \in Seq(GoodSeg) /\ Len(Tail(N)) = Len(N) - 1 /\ Head(N) = N[1]
      /\ \A a \in 1 .. Len(Tail(N)) : Tail(N)[a] = N[a + 1]
      /\ Len(N) \in Nat /\ Len(N) > 0
  BY HeadTailProperties, LenProperties, EmptySeq
<1> QED BY <1>1 DEF In

LEMMA InAppend ==
    ASSUME NEW N \in Seq(GoodSeg), NEW x \in GoodSeg
    PROVE  /\ Append(N, x) \in Seq(GoodSeg)
           /\ Len(Append(N, x)) = Len(N) + 1 /\ Len(N) \in Nat
           /\ \A a \in 1 .. Len(N) : Append(N, x)[a] = N[a]
           /\ Append(N, x)[Len(N) + 1] = x
           /\ In(Append(N, x)) = In(N) \cup {x}
<1>1. /\ Append(N, x) \in Seq(GoodSeg) /\ Len(Append(N, x)) = Len(N) + 1
      /\ \A a \in 1 .. Len(N) : Append(N, x)[a] = N[a]
      /\ Append(N, x)[Len(N) + 1] = x /\ Len(N) \in Nat
  BY AppendProperties, LenProperties
<1> QED BY <1>1 DEF In

LEMMA InType ==
    ASSUME NEW N \in Seq(GoodSeg)
    PROVE  /\ Len(N) \in Nat
           /\ \A a \in 1 .. Len(N) : N[a] \in In(N)
           /\ \A s \in In(N) : s \in GoodSeg
BY LenProperties, ElementOfSeq DEF In

LEMMA SegNats ==
    ASSUME NEW s \in GoodSeg
    PROVE  /\ s.seq \in Nat /\ s.ack \in Nat /\ s.len \in Nat /\ Size(s) \in Nat
           /\ s.inc \in Nat /\ s.flags \in SUBSET Flags
BY Sizes DEF GoodSeg, Segment, Seqs, Size

LEMMA TcbNats ==
    ASSUME NEW t \in GoodTcb
    PROVE  t.una \in Nat /\ t.nxt \in Nat /\ t.rcv \in Nat /\ t.inc \in Nat
BY GoodTcbFields, Sizes DEF Seqs

\* A segment taken from the way.
LEMMA DropWay ==
    ASSUME NEW T \in Tables, NEW Q \in Tables, NEW N \in Seq(GoodSeg), N # <<>>,
           Way(T, Q, N)
    PROVE  Way(T, Q, Tail(N))
<1> DEFINE P == Tail(N)
<1>1. /\ \A s \in In(P) : s \in In(N)
      /\ \A a \in 1 .. Len(P) : a + 1 \in 1 .. Len(N) /\ P[a] = N[a + 1]
      /\ Len(P) \in Nat
  BY InTail, LenProperties
<1> HIDE DEF P
<1>2. Distinct(T) /\ SameConnection(T, Q)
  BY DEF Way
<1>3. Addressed(T, Q, P)
  BY <1>1 DEF Way, Addressed
<1>4. Opening(Q, P)
  BY <1>1 DEF Way, Opening
<1>5. SynsFirst(P)
  <2> SUFFICES ASSUME NEW a \in 1 .. Len(P), NEW b \in 1 .. Len(P),
                      a < b, P[a].inc = P[b].inc, "SYN" \in P[b].flags
               PROVE  "SYN" \in P[a].flags
    BY DEF SynsFirst
  <2>1. a + 1 < b + 1 /\ a + 1 \in 1 .. Len(N) /\ b + 1 \in 1 .. Len(N)
    BY <1>1
  <2> QED BY <1>1, <2>1 DEF Way, SynsFirst
<1>6. NewestLast(Q, P)
  <2> SUFFICES ASSUME NEW j \in Conns(Q), NEW a \in 1 .. Len(P), NEW b \in 1 .. Len(P),
                      a < b, From(Q[j], P[a]), From(Q[j], P[b]), P[a].inc = Q[j].inc
               PROVE  P[b].inc = Q[j].inc
    BY DEF NewestLast
  <2>1. a + 1 < b + 1 /\ a + 1 \in 1 .. Len(N) /\ b + 1 \in 1 .. Len(N)
    BY <1>1
  <2>2. From(Q[j], N[a + 1]) /\ From(Q[j], N[b + 1]) /\ N[a + 1].inc = Q[j].inc
    BY <1>1
  <2>3. N[b + 1].inc = Q[j].inc
    BY <2>1, <2>2 DEF Way, NewestLast
  <2> QED BY <1>1, <2>3
<1>7. Current(T, P) /\ SynsLive(T, Q, P) /\ Partner(T, Q, P)
  BY <1>1 DEF Way, Current, SynsLive, Partner
<1>8. Numbers(T, Q, P)
  BY <1>1 DEF Way, Numbers
<1>9. Contents(T, Q, P)
  BY <1>1 DEF Way, Contents
<1> QED BY <1>2, <1>3, <1>4, <1>5, <1>6, <1>7, <1>8, <1>9 DEF Way, P

\* A TCB that keeps its connection and does not go back.
Grown(t, r) ==
    /\ t.state \notin Unowned /\ r.state \notin Unowned
    /\ r.lport = t.lport /\ r.rport = t.rport /\ r.inc = t.inc
    /\ t.rcv <= r.rcv
    /\ r.state \in {"SYN_SENT", "SYN_RECEIVED"} => r.state = t.state

LEMMA GrownSlots ==
    ASSUME NEW T \in Tables, NEW U \in Tables, NEW i \in Slots, NEW r,
           Changed(T, U, i, r), Grown(T[i], r)
    PROVE  /\ Conns(U) = Conns(T) /\ i \in Conns(T) /\ U[i] = r
           /\ \A j \in Slots : j # i => U[j] = T[j]
           /\ \A j \in Conns(T) : /\ U[j].lport = T[j].lport /\ U[j].rport = T[j].rport
                                  /\ U[j].inc = T[j].inc
<1>1. \A j \in Slots : U[j] = IF j = i THEN r ELSE T[j]
  BY DEF Changed
<1>2. U[i] = r /\ \A j \in Slots : j # i => U[j] = T[j]
  BY <1>1
<1>3. Conns(U) = Conns(T) /\ i \in Conns(T)
  BY <1>2 DEF Conns, Grown, Unowned
<1>4. \A j \in Conns(T) : /\ U[j].lport = T[j].lport /\ U[j].rport = T[j].rport
                          /\ U[j].inc = T[j].inc
  BY <1>2 DEF Conns, Grown
<1> QED BY <1>2, <1>3, <1>4

\* What does not depend on the numbers or the state of a TCB.
LEMMA GrownKeeps ==
    ASSUME NEW T \in Tables, NEW U \in Tables, NEW Q \in Tables, NEW i \in Slots, NEW r,
           NEW N \in Seq(GoodSeg), NEW M \in Seq(GoodSeg),
           Changed(T, U, i, r), Grown(T[i], r), Way(T, Q, N), Way(Q, T, M)
    PROVE  /\ Distinct(U) /\ Addressed(U, Q, N) /\ Addressed(Q, U, M) /\ Opening(U, M)
           /\ NewestLast(U, M) /\ Contents(U, Q, N)
           /\ T[i].state # "SYN_SENT" =>
                 Current(U, N) /\ SameConnection(U, Q) /\ SameConnection(Q, U)
<1>1. /\ Conns(U) = Conns(T) /\ i \in Conns(T) /\ U[i] = r
      /\ \A j \in Slots : j # i => U[j] = T[j]
      /\ \A j \in Conns(T) : /\ U[j].lport = T[j].lport /\ U[j].rport = T[j].rport
                             /\ U[j].inc = T[j].inc
  BY GrownSlots
<1>2. \A j \in Conns(T) : /\ U[j].state = "SYN_SENT" => T[j].state = "SYN_SENT"
                          /\ U[j].state = "SYN_RECEIVED" => T[j].state = "SYN_RECEIVED"
                          /\ T[i].state # "SYN_SENT" /\ T[j].state = "SYN_SENT"
                                => U[j].state = "SYN_SENT"
  BY <1>1 DEF Conns, Grown
<1>3. \A j \in Slots : T[j].rcv \in Nat /\ U[j].rcv \in Nat /\ T[j].rcv <= U[j].rcv
  <2> SUFFICES ASSUME NEW j \in Slots PROVE T[j].rcv \in Nat /\ U[j].rcv \in Nat /\ T[j].rcv <= U[j].rcv
    OBVIOUS
  <2>1. T[j] \in GoodTcb /\ U[j] \in GoodTcb
    BY DEF Tables
  <2>2. T[j].rcv \in Nat /\ U[j].rcv \in Nat
    BY <2>1, TcbNats
  <2> QED BY <1>1, <2>2 DEF Grown
<1>4. Distinct(U)
  BY <1>1 DEF Way, Distinct
<1>5. Addressed(U, Q, N) /\ Addressed(Q, U, M)
  BY <1>1 DEF Way, Addressed, For, From, Mirror
<1>6. Opening(U, M)
  <2> SUFFICES ASSUME NEW j \in Conns(U), NEW s \in In(M), s.inc = U[j].inc
               PROVE  /\ U[j].state = "SYN_SENT" => s.flags = {"SYN"}
                      /\ U[j].state = "SYN_RECEIVED" => s.flags = {"SYN", "ACK"}
                      /\ s.ack <= U[j].rcv
    BY DEF Opening
  <2>1. j \in Conns(T) /\ j \in Slots /\ s.inc = T[j].inc
    BY <1>1 DEF Conns
  <2>2. /\ T[j].state = "SYN_SENT" => s.flags = {"SYN"}
        /\ T[j].state = "SYN_RECEIVED" => s.flags = {"SYN", "ACK"}
        /\ s.ack <= T[j].rcv
    BY <2>1 DEF Way, Opening
  <2>3. s.ack \in Nat
    BY InType, SegNats
  <2>4. s.ack <= U[j].rcv
    BY <1>3, <2>1, <2>2, <2>3
  <2> QED BY <1>2, <2>1, <2>2, <2>4
<1>7. NewestLast(U, M)
  BY <1>1 DEF Way, NewestLast, From
<1>8. Contents(U, Q, N)
  <2> SUFFICES ASSUME NEW j \in Conns(U), NEW s \in In(N), s.inc = U[j].inc, Size(s) > 0,
                      ~ (s.seq + Size(s) <= U[j].rcv)
               PROVE  \E l \in Conns(Q) : Q[l].inc = s.inc /\ s \in Q[l].sendq
    BY DEF Contents
  <2>1. j \in Conns(T) /\ j \in Slots /\ s.inc = T[j].inc
    BY <1>1 DEF Conns
  <2>2. s.seq \in Nat /\ Size(s) \in Nat
    BY InType, SegNats
  <2>3. ~ (s.seq + Size(s) <= T[j].rcv)
    BY <1>3, <2>1, <2>2
  <2> QED BY <2>1, <2>3 DEF Way, Contents
<1>9. ASSUME T[i].state # "SYN_SENT"
      PROVE  Current(U, N) /\ SameConnection(U, Q) /\ SameConnection(Q, U)
  BY <1>1, <1>2, <1>9 DEF Way, Current, SameConnection, For, Mirror
<1> QED BY <1>4, <1>5, <1>6, <1>7, <1>8, <1>9

\* The table T without a TCB of connection k in one of the states of S.
Without(T, k, S) == \A j \in Conns(T) : T[j].inc = k => T[j].state \notin S
Sent(N, k, f)    == \E s \in In(N) : s.inc = k /\ s.flags = f

\* A change of state, and what each step has to show of the other end.
LEMMA StateKeeps ==
    ASSUME NEW T \in Tables, NEW U \in Tables, NEW Q \in Tables, NEW i \in Slots, NEW r,
           NEW N \in Seq(GoodSeg), NEW M \in Seq(GoodSeg),
           Changed(T, U, i, r), Grown(T[i], r), Way(T, Q, N), Way(Q, T, M),
           r.state # "SYN_SENT" /\ T[i].state = "SYN_SENT" => Has(Q, r.inc, {"SYN_RECEIVED"}),
           r.state # "SYN_RECEIVED" /\ T[i].state = "SYN_RECEIVED" =>
              ~ Sent(N, r.inc, {"SYN"}) /\ Without(Q, r.inc, {"SYN_SENT"}),
           (/\ r.state \notin {"SYN_SENT", "ESTABLISHED", "FIN_WAIT_1"}
            /\ T[i].state \in {"SYN_SENT", "ESTABLISHED", "FIN_WAIT_1"}) =>
              ~ Sent(N, r.inc, {"SYN", "ACK"}) /\ Without(Q, r.inc, {"SYN_RECEIVED"}),
           (/\ r.state \notin {"SYN_RECEIVED", "ESTABLISHED", "FIN_WAIT_1", "FIN_WAIT_2"}
            /\ T[i].state \in {"SYN_RECEIVED", "ESTABLISHED", "FIN_WAIT_1", "FIN_WAIT_2"}) =>
              Without(Q, r.inc, {"ESTABLISHED"}),
           r.state = "ESTABLISHED" /\ T[i].state # "ESTABLISHED" =>
              Has(Q, r.inc, {"SYN_RECEIVED", "ESTABLISHED", "FIN_WAIT_1", "FIN_WAIT_2"})
    PROVE  SynsLive(U, Q, N) /\ SynsLive(Q, U, M) /\ Partner(U, Q, N) /\ Partner(Q, U, M)
<1>1. /\ Conns(U) = Conns(T) /\ i \in Conns(T) /\ U[i] = r
      /\ \A j \in Slots : j # i => U[j] = T[j]
      /\ \A j \in Conns(T) : U[j].inc = T[j].inc
  BY GrownSlots
<1>2. /\ r.inc = T[i].inc
      /\ r.state \in {"SYN_SENT", "SYN_RECEIVED"} => r.state = T[i].state
  BY DEF Grown
<1>3. \A k, S : Has(T, k, S) => Has(U, k, S) \/ (k = r.inc /\ T[i].state \in S /\ r.state \notin S)
  BY <1>1 DEF Has, Conns
<1>4. SynsLive(U, Q, N)
  <2>1. ASSUME NEW s \in In(N), s.flags = {"SYN"}
        PROVE  Has(Q, s.inc, {"SYN_SENT"}) \/ Has(U, s.inc, {"SYN_RECEIVED"})
    BY <1>3, <2>1 DEF Way, SynsLive, Sent
  <2>2. ASSUME NEW s \in In(N), s.flags = {"SYN", "ACK"}
        PROVE  Has(U, s.inc, {"SYN_SENT", "ESTABLISHED", "FIN_WAIT_1"})
    BY <1>3, <2>2 DEF Way, SynsLive, Sent
  <2> QED BY <2>1, <2>2 DEF SynsLive
<1>5. SynsLive(Q, U, M)
  <2>1. ASSUME NEW s \in In(M), s.flags = {"SYN"}
        PROVE  Has(U, s.inc, {"SYN_SENT"}) \/ Has(Q, s.inc, {"SYN_RECEIVED"})
    BY <1>3, <2>1 DEF Way, SynsLive
  <2> QED BY <2>1 DEF Way, SynsLive
<1>6. Partner(U, Q, N)
  <2> SUFFICES ASSUME NEW j \in Conns(U)
               PROVE  /\ U[j].state = "SYN_SENT" =>
                            /\ \A l \in Conns(Q) : Q[l].inc = U[j].inc => Q[l].state = "SYN_RECEIVED"
                            /\ \A s \in In(N) : s.inc = U[j].inc => Has(Q, s.inc, {"SYN_RECEIVED"})
                      /\ U[j].state = "SYN_RECEIVED" =>
                            Has(Q, U[j].inc, {"SYN_SENT", "ESTABLISHED", "FIN_WAIT_1"})
                      /\ U[j].state = "ESTABLISHED" =>
                            Has(Q, U[j].inc, {"SYN_RECEIVED", "ESTABLISHED", "FIN_WAIT_1", "FIN_WAIT_2"})
    BY DEF Partner
  <2>1. CASE j # i
    BY <1>1, <2>1 DEF Way, Partner, Conns
  <2>2. CASE j = i
    BY <1>1, <1>2, <2>2 DEF Way, Partner, Conns
  <2> QED BY <2>1, <2>2
<1>7. Partner(Q, U, M)
  <2> SUFFICES ASSUME NEW j \in Conns(Q)
               PROVE  /\ Q[j].state = "SYN_SENT" =>
                            /\ \A l \in Conns(U) : U[l].inc = Q[j].inc => U[l].state = "SYN_RECEIVED"
                            /\ \A s \in In(M) : s.inc = Q[j].inc => Has(U, s.inc, {"SYN_RECEIVED"})
                      /\ Q[j].state = "SYN_RECEIVED" =>
                            Has(U, Q[j].inc, {"SYN_SENT", "ESTABLISHED", "FIN_WAIT_1"})
                      /\ Q[j].state = "ESTABLISHED" =>
                            Has(U, Q[j].inc, {"SYN_RECEIVED", "ESTABLISHED", "FIN_WAIT_1", "FIN_WAIT_2"})
    BY DEF Partner
  <2>1. ASSUME Q[j].state = "SYN_SENT", NEW l \in Conns(U), U[l].inc = Q[j].inc
        PROVE  U[l].state = "SYN_RECEIVED"
    <3>1. T[l].inc = Q[j].inc /\ T[l].state = "SYN_RECEIVED" /\ l \in Slots
      BY <1>1, <2>1 DEF Way, Partner, Conns
    <3>2. CASE l # i
      BY <1>1, <3>1, <3>2
    <3>3. CASE l = i
      <4>1. ~ Without(Q, r.inc, {"SYN_SENT"})
        BY <1>2, <2>1, <3>1, <3>3 DEF Without
      <4> QED BY <1>1, <3>1, <3>3, <4>1
    <3> QED BY <3>2, <3>3
  <2>2. ASSUME Q[j].state = "SYN_SENT", NEW s \in In(M), s.inc = Q[j].inc
        PROVE  Has(U, s.inc, {"SYN_RECEIVED"})
    <3>1. Has(T, s.inc, {"SYN_RECEIVED"})
      BY <2>2 DEF Way, Partner
    <3>2. Without(Q, r.inc, {"SYN_SENT"}) => s.inc # r.inc
      BY <2>2 DEF Without
    <3> QED BY <1>3, <3>1, <3>2
  <2>3. Q[j].state = "SYN_RECEIVED" => Has(U, Q[j].inc, {"SYN_SENT", "ESTABLISHED", "FIN_WAIT_1"})
    BY <1>3 DEF Way, Partner, Without
  <2>4. Q[j].state = "ESTABLISHED" =>
           Has(U, Q[j].inc, {"SYN_RECEIVED", "ESTABLISHED", "FIN_WAIT_1", "FIN_WAIT_2"})
    BY <1>3 DEF Way, Partner, Without
  <2> QED BY <2>1, <2>2, <2>3, <2>4
<1> QED BY <1>4, <1>5, <1>6, <1>7

\* The numbers of a queued segment.
Covers(t) == \A s \in t.sendq : s.seq + Size(s) = t.nxt

LEMMA AllReceived ==
    ASSUME NEW T \in Tables, NEW Q \in Tables, NEW N \in Seq(GoodSeg), Way(T, Q, N),
           NEW i \in Conns(T), NEW j \in Conns(Q), T[i].inc = Q[j].inc,
           NEW s \in In(N), s.inc = T[i].inc, s.ack = T[i].nxt, T[i].una <= T[i].nxt
    PROVE  Q[j].rcv = T[i].nxt
<1>1. s.ack <= Q[j].rcv
  BY DEF Way, Opening
<1>2. Q[j].rcv = T[i].una \/ Q[j].rcv = T[i].nxt
  BY DEF Way, Numbers
<1>3. /\ T[i].una \in Nat /\ T[i].nxt \in Nat /\ Q[j].rcv \in Nat
  <2>1. T[i] \in GoodTcb /\ Q[j] \in GoodTcb
    BY DEF Tables, Conns
  <2> QED BY <2>1, TcbNats
<1> QED BY <1>1, <1>2, <1>3

\* Everything sent is acknowledged.
LEMMA AckNumbers ==
    ASSUME NEW T \in Tables, NEW U \in Tables, NEW Q \in Tables, NEW i \in Slots, NEW r,
           NEW N \in Seq(GoodSeg), NEW M \in Seq(GoodSeg),
           Changed(T, U, i, r), Grown(T[i], r), Way(T, Q, N), Way(Q, T, M),
           NEW s \in In(N), s.inc = T[i].inc, s.ack = T[i].nxt,
           T[i].una <= T[i].nxt, Covers(T[i]),
           r.una = T[i].nxt, r.nxt = T[i].nxt, r.rcv = T[i].rcv, r.sendq = {}
    PROVE  Numbers(U, Q, N) /\ Numbers(Q, U, M) /\ Contents(Q, U, M)
<1>1. /\ Conns(U) = Conns(T) /\ i \in Conns(T) /\ U[i] = r
      /\ \A j \in Slots : j # i => U[j] = T[j]
      /\ \A j \in Conns(T) : U[j].inc = T[j].inc
  BY GrownSlots
<1>2. \A j \in Conns(Q) : T[i].inc = Q[j].inc => Q[j].rcv = T[i].nxt
  BY <1>1, AllReceived
<1>3. T[i].una \in Nat /\ T[i].nxt \in Nat
  BY TcbNats DEF Tables
<1>4. Numbers(U, Q, N)
  <2>1. ASSUME NEW l \in Conns(U), NEW j \in Conns(Q), U[l].inc = Q[j].inc
        PROVE  /\ Q[j].rcv = U[l].una \/ Q[j].rcv = U[l].nxt
               /\ \A q \in Q[j].sendq : q.ack <= U[l].una \/ q.ack = U[l].nxt
    <3>1. /\ l \in Conns(T) /\ l \in Slots /\ T[l].inc = Q[j].inc
          /\ Q[j].rcv = T[l].una \/ Q[j].rcv = T[l].nxt
          /\ \A q \in Q[j].sendq : q.ack <= T[l].una \/ q.ack = T[l].nxt
      BY <1>1, <2>1 DEF Way, Numbers, Conns
    <3>2. \A q \in Q[j].sendq : q.ack \in Nat
      <4>1. Q[j].sendq \subseteq GoodSeg
        BY GoodTcbFields DEF Tables, Conns
      <4> QED BY <4>1, SegNats
    <3>3. CASE l # i
      BY <1>1, <3>1, <3>3
    <3>4. CASE l = i
      BY <1>1, <1>2, <1>3, <3>1, <3>2, <3>4
    <3> QED BY <3>3, <3>4
  <2>2. ASSUME NEW l \in Conns(U), NEW q \in In(N), q.inc = U[l].inc
        PROVE  q.ack <= U[l].una \/ q.ack = U[l].nxt
    <3>1. /\ l \in Conns(T) /\ l \in Slots
          /\ q.ack <= T[l].una \/ q.ack = T[l].nxt
      BY <1>1, <2>2 DEF Way, Numbers, Conns
    <3>2. q.ack \in Nat
      BY InType, SegNats
    <3>3. CASE l # i
      BY <1>1, <3>1, <3>3
    <3>4. CASE l = i
      BY <1>1, <1>3, <3>1, <3>2, <3>4
    <3> QED BY <3>3, <3>4
  <2> QED BY <2>1, <2>2 DEF Numbers
<1>5. Numbers(Q, U, M)
  <2>1. \A l \in Conns(U) : U[l].rcv = T[l].rcv /\ U[l].sendq \subseteq T[l].sendq
    BY <1>1 DEF Conns
  <2> QED BY <1>1, <2>1 DEF Way, Numbers
<1>6. Contents(Q, U, M)
  <2> SUFFICES ASSUME NEW j \in Conns(Q), NEW q \in In(M), q.inc = Q[j].inc, Size(q) > 0,
                      ~ (q.seq + Size(q) <= Q[j].rcv)
               PROVE  \E l \in Conns(U) : U[l].inc = q.inc /\ q \in U[l].sendq
    BY DEF Contents
  <2>1. PICK l \in Conns(T) : T[l].inc = q.inc /\ q \in T[l].sendq
    BY DEF Way, Contents
  <2>2. l # i
    <3>1. SUFFICES ASSUME l = i PROVE FALSE
      OBVIOUS
    <3>2. q.seq + Size(q) = T[i].nxt
      BY <2>1, <3>1 DEF Covers
    <3>3. Q[j].rcv = T[i].nxt
      BY <1>2, <2>1, <3>1
    <3> QED BY <1>3, <3>2, <3>3
  <2> QED BY <1>1, <2>1, <2>2 DEF Conns
<1> QED BY <1>4, <1>5, <1>6

\* The contents of a segment are taken.
LEMMA TakeNumbers ==
    ASSUME NEW T \in Tables, NEW U \in Tables, NEW Q \in Tables, NEW i \in Slots, NEW r,
           NEW N \in Seq(GoodSeg), NEW M \in Seq(GoodSeg),
           Changed(T, U, i, r), Grown(T[i], r), Way(T, Q, N), Way(Q, T, M),
           NEW s \in In(N), s.inc = T[i].inc, s.seq = T[i].rcv, Size(s) > 0,
           \A j \in Conns(Q) : Covers(Q[j]),
           r.una = T[i].una, r.nxt = T[i].nxt, r.rcv = s.seq + Size(s), r.sendq = T[i].sendq
    PROVE  /\ Numbers(U, Q, N) /\ Numbers(Q, U, M) /\ Contents(Q, U, M)
           /\ \E j \in Conns(Q) : Q[j].inc = s.inc /\ s \in Q[j].sendq
<1>1. /\ Conns(U) = Conns(T) /\ i \in Conns(T) /\ U[i] = r
      /\ \A j \in Slots : j # i => U[j] = T[j]
      /\ \A j \in Conns(T) : U[j].inc = T[j].inc
  BY GrownSlots
<1>2. s.seq \in Nat /\ Size(s) \in Nat
  BY InType, SegNats
<1>3. PICK j \in Conns(Q) : Q[j].inc = s.inc /\ s \in Q[j].sendq
  <2>1. ~ (s.seq + Size(s) <= T[i].rcv)
    BY <1>2
  <2> QED BY <1>1, <2>1 DEF Way, Contents
<1>4. r.rcv = Q[j].nxt
  BY <1>3 DEF Covers
<1>5. \A l \in Conns(Q) : Q[l].inc = T[i].inc => l = j
  BY <1>3 DEF Way, Distinct
<1>6. \A l \in Conns(T) : U[l].una = T[l].una /\ U[l].nxt = T[l].nxt /\ U[l].sendq = T[l].sendq
  BY <1>1 DEF Conns
<1>7. Numbers(U, Q, N)
  BY <1>1, <1>6 DEF Way, Numbers
<1>8. Numbers(Q, U, M)
  <2>1. ASSUME NEW m \in Conns(Q), NEW l \in Conns(U), Q[m].inc = U[l].inc
        PROVE  /\ U[l].rcv = Q[m].una \/ U[l].rcv = Q[m].nxt
               /\ \A q \in U[l].sendq : q.ack <= Q[m].una \/ q.ack = Q[m].nxt
    <3>1. /\ l \in Conns(T) /\ l \in Slots /\ Q[m].inc = T[l].inc
          /\ T[l].rcv = Q[m].una \/ T[l].rcv = Q[m].nxt
          /\ \A q \in T[l].sendq : q.ack <= Q[m].una \/ q.ack = Q[m].nxt
      BY <1>1, <2>1 DEF Way, Numbers, Conns
    <3>2. l = i => m = j
      BY <1>5, <3>1
    <3> QED BY <1>1, <1>4, <1>6, <3>1, <3>2
  <2> QED BY <2>1 DEF Way, Numbers
<1>9. Contents(Q, U, M)
  BY <1>1, <1>6 DEF Way, Contents
<1> QED BY <1>3, <1>7, <1>8, <1>9

\* A segment is queued.
LEMMA PostNumbers ==
    ASSUME NEW T \in Tables, NEW U \in Tables, NEW Q \in Tables, NEW i \in Slots, NEW r,
           NEW N \in Seq(GoodSeg), NEW M \in Seq(GoodSeg), NEW x \in GoodSeg,
           Changed(T, U, i, r), Grown(T[i], r), Way(T, Q, N), Way(Q, T, M),
           T[i].sendq = {}, T[i].una = T[i].nxt, x.ack = T[i].rcv,
           r.una = T[i].una, r.rcv = T[i].rcv, r.sendq = {x}
    PROVE  Numbers(U, Q, N) /\ Numbers(Q, U, M) /\ Contents(Q, U, M)
<1>1. /\ Conns(U) = Conns(T) /\ i \in Conns(T) /\ U[i] = r
      /\ \A j \in Slots : j # i => U[j] = T[j]
      /\ \A j \in Conns(T) : U[j].inc = T[j].inc
  BY GrownSlots
<1>2. T[i].una \in Nat /\ T[i].nxt \in Nat
  BY TcbNats DEF Tables
<1>3. Numbers(U, Q, N)
  <2>1. ASSUME NEW l \in Conns(U), NEW j \in Conns(Q), U[l].inc = Q[j].inc
        PROVE  /\ Q[j].rcv = U[l].una \/ Q[j].rcv = U[l].nxt
               /\ \A q \in Q[j].sendq : q.ack <= U[l].una \/ q.ack = U[l].nxt
    <3>1. /\ l \in Conns(T) /\ l \in Slots
          /\ Q[j].rcv = T[l].una \/ Q[j].rcv = T[l].nxt
          /\ \A q \in Q[j].sendq : q.ack <= T[l].una \/ q.ack = T[l].nxt
      BY <1>1, <2>1 DEF Way, Numbers, Conns
    <3>2. CASE l # i
      BY <1>1, <3>1, <3>2
    <3>3. CASE l = i
      BY <1>1, <1>2, <3>1, <3>3
    <3> QED BY <3>2, <3>3
  <2>2. ASSUME NEW l \in Conns(U), NEW q \in In(N), q.inc = U[l].inc
        PROVE  q.ack <= U[l].una \/ q.ack = U[l].nxt
    <3>1. /\ l \in Conns(T) /\ l \in Slots
          /\ q.ack <= T[l].una \/ q.ack = T[l].nxt
      BY <1>1, <2>2 DEF Way, Numbers, Conns
    <3>2. CASE l # i
      BY <1>1, <3>1, <3>2
    <3>3. CASE l = i
      BY <1>1, <1>2, <3>1, <3>3
    <3> QED BY <3>2, <3>3
  <2> QED BY <2>1, <2>2 DEF Numbers
<1>4. Numbers(Q, U, M)
  <2>1. ASSUME NEW m \in Conns(Q), NEW l \in Conns(U), Q[m].inc = U[l].inc
        PROVE  /\ U[l].rcv = Q[m].una \/ U[l].rcv = Q[m].nxt
               /\ \A q \in U[l].sendq : q.ack <= Q[m].una \/ q.ack = Q[m].nxt
    <3>1. /\ l \in Conns(T) /\ l \in Slots
          /\ T[l].rcv = Q[m].una \/ T[l].rcv = Q[m].nxt
          /\ \A q \in T[l].sendq : q.ack <= Q[m].una \/ q.ack = Q[m].nxt
      BY <1>1, <2>1 DEF Way, Numbers, Conns
    <3>2. Q[m].una \in Nat /\ Q[m].nxt \in Nat
      BY TcbNats DEF Tables, Conns
    <3> QED BY <1>1, <3>1, <3>2
  <2> QED BY <2>1 DEF Way, Numbers
<1>5. Contents(Q, U, M)
  BY <1>1 DEF Way, Contents, Conns
<1> QED BY <1>3, <1>4, <1>5

Tidy(T) == \A j \in Slots : \A q \in T[j].sendq : Queued(T[j], q)

LEMMA TidyCovers ==
    ASSUME NEW T, Tidy(T)
    PROVE  \A j \in Slots : Covers(T[j])
BY DEF Tidy, Covers, Queued

\* No SYN of a connection comes after a segment that is none.
LEMMA SynsOver ==
    ASSUME NEW Q \in Tables, NEW N \in Seq(GoodSeg), N # <<>>, "SYN" \notin N[1].flags,
           SynsFirst(N), Opening(Q, N)
    PROVE  /\ \A f : "SYN" \in f => ~ Sent(N, N[1].inc, f)
           /\ Without(Q, N[1].inc, {"SYN_SENT"}) /\ Without(Q, N[1].inc, {"SYN_RECEIVED"})
<1>1. N[1] \in In(N) /\ Len(N) \in Nat /\ Len(N) > 0
  BY InTail
<1>2. ASSUME NEW q \in In(N), q.inc = N[1].inc PROVE "SYN" \notin q.flags
  <2>1. PICK b \in 1 .. Len(N) : q = N[b]
    BY DEF In
  <2>2. CASE b = 1
    BY <2>1, <2>2
  <2>3. CASE b # 1
    <3>1. 1 \in 1 .. Len(N) /\ 1 < b
      BY <1>1, <2>3
    <3> QED BY <1>2, <2>1, <3>1 DEF SynsFirst
  <2> QED BY <2>2, <2>3
<1>3. Without(Q, N[1].inc, {"SYN_SENT"}) /\ Without(Q, N[1].inc, {"SYN_RECEIVED"})
  BY <1>1 DEF Opening, Without
<1> QED BY <1>2, <1>3 DEF Sent

\* A segment that acknowledges everything: the queue is empty, a passive open
\* is complete, or a FIN is acknowledged.
LEMMA AckWay ==
    ASSUME NEW T \in Tables, NEW U \in Tables, NEW Q \in Tables, NEW i \in Slots, NEW r,
           NEW N \in Seq(GoodSeg), NEW M \in Seq(GoodSeg), N # <<>>,
           Changed(T, U, i, r), Grown(T[i], r), Way(T, Q, N), Way(Q, T, M),
           N[1].inc = T[i].inc, N[1].ack = T[i].nxt,
           T[i].una <= T[i].nxt, Covers(T[i]),
           r.una = T[i].nxt, r.nxt = T[i].nxt, r.rcv = T[i].rcv, r.sendq = {},
           \/ r.state = T[i].state
           \/ /\ "SYN" \notin N[1].flags
              /\ \/ T[i].state = "SYN_RECEIVED" /\ r.state = "ESTABLISHED"
                 \/ T[i].state = "FIN_WAIT_1" /\ r.state = "FIN_WAIT_2"
    PROVE  Way(U, Q, N) /\ Way(Q, U, M)
<1>1. N[1] \in In(N) /\ i \in Conns(T) /\ r.inc = T[i].inc
  BY InTail, GrownSlots DEF Grown
<1>2. Numbers(U, Q, N) /\ Numbers(Q, U, M) /\ Contents(Q, U, M)
  BY <1>1, AckNumbers
<1>3. /\ Distinct(U) /\ Addressed(U, Q, N) /\ Addressed(Q, U, M) /\ Opening(U, M)
      /\ NewestLast(U, M) /\ Contents(U, Q, N)
      /\ T[i].state # "SYN_SENT" =>
            Current(U, N) /\ SameConnection(U, Q) /\ SameConnection(Q, U)
  BY GrownKeeps
<1>4. Current(U, N) /\ SameConnection(U, Q) /\ SameConnection(Q, U)
  <2>1. CASE T[i].state # "SYN_SENT"
    BY <1>3, <2>1
  <2>2. CASE T[i].state = "SYN_SENT"
    <3>1. r.state = T[i].state
      BY <2>2
    <3>2. /\ Conns(U) = Conns(T) /\ U[i] = r
          /\ \A j \in Slots : j # i => U[j] = T[j]
          /\ \A j \in Conns(T) : /\ U[j].lport = T[j].lport /\ U[j].rport = T[j].rport
                                 /\ U[j].inc = T[j].inc
      BY GrownSlots
    <3>3. \A j \in Conns(T) : U[j].state = T[j].state
      BY <3>1, <3>2 DEF Conns
    <3> QED BY <3>2, <3>3 DEF Way, Current, SameConnection, For, Mirror
  <2> QED BY <2>1, <2>2
<1>5. SynsLive(U, Q, N) /\ SynsLive(Q, U, M) /\ Partner(U, Q, N) /\ Partner(Q, U, M)
  <2>1. CASE r.state = T[i].state
    BY <2>1, StateKeeps
  <2>2. CASE "SYN" \notin N[1].flags /\ T[i].state = "SYN_RECEIVED" /\ r.state = "ESTABLISHED"
    <3>1. ~ Sent(N, r.inc, {"SYN"}) /\ Without(Q, r.inc, {"SYN_SENT"})
      BY <1>1, <2>2, SynsOver DEF Way
    <3>2. Has(Q, r.inc, {"SYN_SENT", "ESTABLISHED", "FIN_WAIT_1"})
      BY <1>1, <2>2 DEF Way, Partner
    <3>3. Has(Q, r.inc, {"SYN_RECEIVED", "ESTABLISHED", "FIN_WAIT_1", "FIN_WAIT_2"})
      BY <3>1, <3>2 DEF Has, Without
    <3> QED BY <2>2, <3>1, <3>3, StateKeeps
  <2>3. CASE "SYN" \notin N[1].flags /\ T[i].state = "FIN_WAIT_1" /\ r.state = "FIN_WAIT_2"
    <3>1. ~ Sent(N, r.inc, {"SYN", "ACK"}) /\ Without(Q, r.inc, {"SYN_RECEIVED"})
      BY <1>1, <2>3, SynsOver DEF Way
    <3> QED BY <2>3, <3>1, StateKeeps
  <2> QED BY <2>1, <2>2, <2>3
<1> QED BY <1>2, <1>3, <1>4, <1>5 DEF Way

\* The next segment with contents: data, or a FIN after which the peer's
\* sending side is closed.
LEMMA TakeWay ==
    ASSUME NEW T \in Tables, NEW U \in Tables, NEW Q \in Tables, NEW i \in Slots, NEW r,
           NEW N \in Seq(GoodSeg), NEW M \in Seq(GoodSeg), N # <<>>,
           Changed(T, U, i, r), Grown(T[i], r), Way(T, Q, N), Way(Q, T, M), Tidy(Q),
           N[1].inc = T[i].inc, N[1].seq = T[i].rcv, Size(N[1]) > 0,
           "SYN" \notin N[1].flags, T[i].state # "SYN_SENT",
           r.una = T[i].una, r.nxt = T[i].nxt, r.rcv = N[1].seq + Size(N[1]),
           r.sendq = T[i].sendq,
           \/ r.state = T[i].state
           \/ /\ "FIN" \in N[1].flags
              /\ \/ T[i].state = "ESTABLISHED" /\ r.state = "CLOSE_WAIT"
                 \/ T[i].state = "FIN_WAIT_2" /\ r.state = "TIME_WAIT"
    PROVE  Way(U, Q, N) /\ Way(Q, U, M)
<1>1. N[1] \in In(N) /\ i \in Conns(T) /\ r.inc = T[i].inc
  BY InTail, GrownSlots DEF Grown
<1>2. /\ Numbers(U, Q, N) /\ Numbers(Q, U, M) /\ Contents(Q, U, M)
      /\ \E j \in Conns(Q) : Q[j].inc = N[1].inc /\ N[1] \in Q[j].sendq
  <2>1. \A j \in Conns(Q) : Covers(Q[j])
    BY TidyCovers DEF Conns
  <2> QED BY <1>1, <2>1, TakeNumbers
<1>3. /\ Distinct(U) /\ Addressed(U, Q, N) /\ Addressed(Q, U, M) /\ Opening(U, M)
      /\ NewestLast(U, M) /\ Contents(U, Q, N)
      /\ Current(U, N) /\ SameConnection(U, Q) /\ SameConnection(Q, U)
  BY GrownKeeps
<1>4. SynsLive(U, Q, N) /\ SynsLive(Q, U, M) /\ Partner(U, Q, N) /\ Partner(Q, U, M)
  <2>1. CASE r.state = T[i].state
    BY <2>1, StateKeeps
  <2>2. CASE r.state # T[i].state
    <3>1. ~ Sent(N, r.inc, {"SYN", "ACK"}) /\ Without(Q, r.inc, {"SYN_RECEIVED"})
      BY <1>1, SynsOver DEF Way
    <3>2. Without(Q, r.inc, {"ESTABLISHED"})
      <4>1. PICK j \in Conns(Q) : Q[j].inc = N[1].inc /\ N[1] \in Q[j].sendq
        BY <1>2
      <4>2. j \in Slots /\ Queued(Q[j], N[1]) /\ "FIN" \in N[1].flags
        BY <2>2, <4>1 DEF Tidy, Conns
      <4>3. Q[j].state # "ESTABLISHED"
        BY <4>2 DEF Queued
      <4>4. \A l \in Conns(Q) : Q[l].inc = r.inc => l = j
        BY <1>1, <4>1 DEF Way, Distinct
      <4> QED BY <4>3, <4>4 DEF Without
    <3> QED BY <2>2, <3>1, <3>2, StateKeeps
  <2> QED BY <2>1, <2>2
<1> QED BY <1>2, <1>3, <1>4 DEF Way

\* An active open whose SYN is acknowledged takes the SYN-ACK.
LEMMA OpenWay ==
    ASSUME NEW T \in Tables, NEW U \in Tables, NEW Q \in Tables, NEW i \in Slots, NEW r,
           NEW N \in Seq(GoodSeg), NEW M \in Seq(GoodSeg), N # <<>>,
           Changed(T, U, i, r), Grown(T[i], r), Way(T, Q, N), Way(Q, T, M), Tidy(Q),
           N[1].inc = T[i].inc, N[1].seq = T[i].rcv, Size(N[1]) > 0,
           r.una = T[i].una, r.nxt = T[i].nxt, r.rcv = N[1].seq + Size(N[1]),
           r.sendq = T[i].sendq, T[i].state = "SYN_SENT", r.state = "ESTABLISHED"
    PROVE  Way(U, Q, N) /\ Way(Q, U, M)
<1>1. N[1] \in In(N) /\ i \in Conns(T) /\ r.inc = T[i].inc /\ Len(N) \in Nat /\ Len(N) > 0
  BY InTail, GrownSlots DEF Grown
<1>2. Numbers(U, Q, N) /\ Numbers(Q, U, M) /\ Contents(Q, U, M)
  <2>1. \A j \in Conns(Q) : Covers(Q[j])
    BY TidyCovers DEF Conns
  <2> QED BY <1>1, <2>1, TakeNumbers
<1>3. /\ Distinct(U) /\ Addressed(U, Q, N) /\ Addressed(Q, U, M) /\ Opening(U, M)
      /\ NewestLast(U, M) /\ Contents(U, Q, N)
  BY GrownKeeps
<1>4. PICK j \in Conns(Q) : Q[j].inc = T[i].inc /\ Q[j].state = "SYN_RECEIVED"
  BY <1>1 DEF Way, Partner, Has
<1>5. SynsLive(U, Q, N) /\ SynsLive(Q, U, M) /\ Partner(U, Q, N) /\ Partner(Q, U, M)
  <2>1. Has(Q, r.inc, {"SYN_RECEIVED"})
    BY <1>1, <1>4 DEF Has
  <2>2. Has(Q, r.inc, {"SYN_RECEIVED", "ESTABLISHED", "FIN_WAIT_1", "FIN_WAIT_2"})
    BY <1>1, <1>4 DEF Has
  <2> QED BY <2>1, <2>2, StateKeeps
<1>6. /\ Conns(U) = Conns(T) /\ U[i] = r
      /\ \A l \in Slots : l # i => U[l] = T[l]
      /\ \A l \in Conns(T) : /\ U[l].lport = T[l].lport /\ U[l].rport = T[l].rport
                             /\ U[l].inc = T[l].inc
  BY GrownSlots
<1>7. Mirror(T[i], Q[j])
  BY <1>1, <1>4 DEF Way, Addressed
<1>8. Current(U, N)
  <2> SUFFICES ASSUME NEW l \in Conns(U), NEW q \in In(N), U[l].state # "SYN_SENT", For(U[l], q)
               PROVE  q.inc = U[l].inc \/ q.flags = {"SYN"}
    BY DEF Current
  <2>1. l \in Conns(T) /\ l \in Slots /\ For(T[l], q)
    BY <1>6 DEF Conns, For
  <2>2. CASE l # i
    BY <1>6, <2>1, <2>2 DEF Way, Current
  <2>3. CASE l = i
    <3>1. From(Q[j], q)
      BY <1>7, <2>1, <2>3 DEF Mirror, For, From
    <3>2. From(Q[j], N[1])
      BY <1>1, <1>4 DEF Way, Addressed
    <3>3. PICK b \in 1 .. Len(N) : q = N[b]
      BY DEF In
    <3>4. CASE b = 1
      BY <1>6, <2>1, <2>3, <3>3, <3>4
    <3>5. CASE b # 1
      <4>1. 1 \in 1 .. Len(N) /\ 1 < b
        BY <1>1, <3>5
      <4>2. N[b].inc = Q[j].inc
        BY <1>4, <3>1, <3>2, <3>3, <4>1 DEF Way, NewestLast
      <4> QED BY <1>4, <1>6, <2>1, <2>3, <3>3, <4>2
    <3> QED BY <3>4, <3>5
  <2> QED BY <2>2, <2>3
<1>9. \A l \in Conns(Q) : Mirror(T[i], Q[l]) => l = j
  BY <1>7 DEF Way, Distinct, Mirror
<1>10. SameConnection(U, Q)
  <2> SUFFICES ASSUME NEW l \in Conns(U), NEW m \in Conns(Q), U[l].state # "SYN_SENT",
                      Q[m].state # "SYN_SENT", Mirror(U[l], Q[m])
               PROVE  U[l].inc = Q[m].inc
    BY DEF SameConnection
  <2>1. l \in Conns(T) /\ l \in Slots /\ Mirror(T[l], Q[m])
    BY <1>6 DEF Conns, Mirror
  <2>2. CASE l # i
    BY <1>6, <2>1, <2>2 DEF Way, SameConnection
  <2>3. CASE l = i
    BY <1>4, <1>6, <1>9, <2>1, <2>3
  <2> QED BY <2>2, <2>3
<1>11. SameConnection(Q, U)
  <2>1. \A l \in Conns(U), m \in Conns(Q) : Mirror(Q[m], U[l]) => Mirror(U[l], Q[m])
    BY DEF Mirror
  <2> QED BY <1>10, <2>1 DEF SameConnection
<1> QED BY <1>2, <1>3, <1>5, <1>8, <1>10, <1>11 DEF Way

\* A segment is sent for the first time and queued.
LEMMA PostWay ==
    ASSUME NEW T \in Tables, NEW U \in Tables, NEW Q \in Tables, NEW i \in Slots, NEW r,
           NEW N \in Seq(GoodSeg), NEW M \in Seq(GoodSeg), NEW x \in GoodSeg,
           Changed(T, U, i, r), Grown(T[i], r), Way(T, Q, N), Way(Q, T, M),
           T[i].sendq = {}, T[i].una = T[i].nxt, x.ack = T[i].rcv,
           r.una = T[i].una, r.rcv = T[i].rcv, r.sendq = {x},
           \/ T[i].state = "ESTABLISHED" /\ r.state \in {"ESTABLISHED", "FIN_WAIT_1"}
           \/ T[i].state = "CLOSE_WAIT" /\ r.state = "LAST_ACK"
    PROVE  Way(U, Q, N) /\ Way(Q, U, M)
<1>1. Numbers(U, Q, N) /\ Numbers(Q, U, M) /\ Contents(Q, U, M)
  BY PostNumbers
<1>2. /\ Distinct(U) /\ Addressed(U, Q, N) /\ Addressed(Q, U, M) /\ Opening(U, M)
      /\ NewestLast(U, M) /\ Contents(U, Q, N)
      /\ Current(U, N) /\ SameConnection(U, Q) /\ SameConnection(Q, U)
  BY GrownKeeps
<1>3. SynsLive(U, Q, N) /\ SynsLive(Q, U, M) /\ Partner(U, Q, N) /\ Partner(Q, U, M)
  BY StateKeeps
<1> QED BY <1>1, <1>2, <1>3 DEF Way

\* A slot that holds no connection changes.
LEMMA ListenWay ==
    ASSUME NEW T \in Tables, NEW U \in Tables, NEW Q \in Tables, NEW i \in Slots, NEW r,
           NEW N, NEW M, Changed(T, U, i, r), Way(T, Q, N), Way(Q, T, M),
           T[i].state \in Unowned, r.state \in Unowned
    PROVE  Way(U, Q, N) /\ Way(Q, U, M)
<1>1. Conns(U) = Conns(T) /\ \A j \in Conns(T) : U[j] = T[j]
  BY DEF Conns, Changed, Unowned
<1>2. \A k, S : Has(U, k, S) <=> Has(T, k, S)
  BY <1>1 DEF Has
<1>3. Distinct(U) /\ SameConnection(U, Q) /\ Addressed(U, Q, N) /\ Current(U, N)
  BY <1>1 DEF Way, Distinct, SameConnection, Addressed, Current
<1>4. SynsLive(U, Q, N) /\ Partner(U, Q, N) /\ Numbers(U, Q, N) /\ Contents(U, Q, N)
  BY <1>1, <1>2 DEF Way, SynsLive, Partner, Numbers, Contents
<1>5. Addressed(Q, U, M) /\ Opening(U, M) /\ NewestLast(U, M) /\ SameConnection(Q, U)
  BY <1>1 DEF Way, Addressed, Opening, NewestLast, SameConnection
<1>6. SynsLive(Q, U, M) /\ Partner(Q, U, M) /\ Numbers(Q, U, M) /\ Contents(Q, U, M)
  BY <1>1, <1>2 DEF Way, SynsLive, Partner, Numbers, Contents
<1> QED BY <1>3, <1>4, <1>5, <1>6 DEF Way

\* A connection that is over is forgotten.
LEMMA ReleaseWay ==
    ASSUME NEW T \in Tables, NEW U \in Tables, NEW Q \in Tables, NEW i \in Slots, NEW r,
           NEW N, NEW M, Changed(T, U, i, r), Way(T, Q, N), Way(Q, T, M),
           T[i].state \in {"TIME_WAIT", "LAST_ACK"}, T[i].sendq = {}, r.state \in Unowned
    PROVE  Way(U, Q, N) /\ Way(Q, U, M)
<1>1. Conns(U) = Conns(T) \ {i} /\ \A j \in Conns(U) : U[j] = T[j]
  BY DEF Conns, Changed, Unowned
<1>2. \A k, S : Has(T, k, S) /\ S \cap {"TIME_WAIT", "LAST_ACK"} = {} => Has(U, k, S)
  BY <1>1 DEF Has
<1>3. Distinct(U) /\ SameConnection(U, Q) /\ Addressed(U, Q, N) /\ Current(U, N)
  BY <1>1 DEF Way, Distinct, SameConnection, Addressed, Current
<1>4. SynsLive(U, Q, N) /\ Partner(U, Q, N) /\ Numbers(U, Q, N) /\ Contents(U, Q, N)
  BY <1>1, <1>2 DEF Way, SynsLive, Partner, Numbers, Contents
<1>5. Addressed(Q, U, M) /\ Opening(U, M) /\ NewestLast(U, M) /\ SameConnection(Q, U)
  BY <1>1 DEF Way, Addressed, Opening, NewestLast, SameConnection
<1>6. SynsLive(Q, U, M) /\ Partner(Q, U, M)
  BY <1>1, <1>2 DEF Way, SynsLive, Partner
<1>7. Numbers(Q, U, M) /\ Contents(Q, U, M)
  BY <1>1 DEF Way, Numbers, Contents
<1> QED BY <1>3, <1>4, <1>5, <1>6, <1>7 DEF Way

\* What a new TCB looks like in its table.
LEMMA NewSlots ==
    ASSUME NEW T \in Tables, NEW U \in Tables, NEW i \in Slots, NEW r,
           Changed(T, U, i, r), T[i].state \in Unowned, r.state \notin Unowned
    PROVE  /\ Conns(U) = Conns(T) \cup {i} /\ i \notin Conns(T) /\ U[i] = r
           /\ \A j \in Conns(T) : U[j] = T[j]
           /\ \A k, S : Has(T, k, S) => Has(U, k, S)
<1>1. /\ Conns(U) = Conns(T) \cup {i} /\ i \notin Conns(T) /\ U[i] = r
      /\ \A j \in Conns(T) : U[j] = T[j]
  BY DEF Conns, Changed, Unowned
<1>2. \A k, S : Has(T, k, S) => Has(U, k, S)
  BY <1>1 DEF Has
<1> QED BY <1>1, <1>2

Fresh(T, Q, N, M, k) ==
    /\ \A j \in Conns(T) : T[j].inc # k
    /\ \A j \in Conns(Q) : Q[j].inc # k
    /\ \A s \in In(N) \cup In(M) : s.inc # k

\* No TCB of T has the ports of r.
Free(T, r) == \A j \in Conns(T) : ~ (T[j].lport = r.lport /\ T[j].rport = r.rport)

LEMMA ConnectWay ==
    ASSUME NEW T \in Tables, NEW U \in Tables, NEW Q \in Tables, NEW i \in Slots, NEW r,
           NEW N \in Seq(GoodSeg), NEW M \in Seq(GoodSeg),
           Changed(T, U, i, r), Way(T, Q, N), Way(Q, T, M), T[i].state \in Unowned,
           r.state = "SYN_SENT", Free(T, r), Fresh(T, Q, N, M, r.inc)
    PROVE  Way(U, Q, N) /\ Way(Q, U, M)
<1>1. /\ Conns(U) = Conns(T) \cup {i} /\ i \notin Conns(T) /\ U[i] = r
      /\ \A j \in Conns(T) : U[j] = T[j]
      /\ \A k, S : Has(T, k, S) => Has(U, k, S)
  BY NewSlots DEF Unowned
<1>2. Distinct(U)
  BY <1>1 DEF Way, Distinct, Free, Fresh
<1>3. Addressed(U, Q, N) /\ Addressed(Q, U, M)
  BY <1>1 DEF Way, Addressed, Fresh
<1>4. Opening(U, M)
  BY <1>1 DEF Way, Opening, Fresh
<1>5. NewestLast(U, M)
  <2>1. \A a \in 1 .. Len(M) : M[a] \in In(M)
    BY DEF In
  <2>2. \A a \in 1 .. Len(M) : M[a].inc # r.inc
    BY <2>1 DEF Fresh
  <2> QED BY <1>1, <2>2 DEF Way, NewestLast
<1>6. Current(U, N) /\ SameConnection(U, Q) /\ SameConnection(Q, U)
  BY <1>1 DEF Way, Current, SameConnection
<1>7. SynsLive(U, Q, N) /\ SynsLive(Q, U, M)
  BY <1>1 DEF Way, SynsLive
<1>8. Partner(U, Q, N)
  BY <1>1 DEF Way, Partner, Fresh
<1>9. Partner(Q, U, M)
  BY <1>1 DEF Way, Partner, Fresh
<1>10. Numbers(U, Q, N) /\ Numbers(Q, U, M)
  BY <1>1 DEF Way, Numbers, Fresh
<1>11. Contents(U, Q, N) /\ Contents(Q, U, M)
  BY <1>1 DEF Way, Contents, Fresh
<1> QED BY <1>2, <1>3, <1>4, <1>5, <1>6, <1>7, <1>8, <1>9, <1>10, <1>11 DEF Way

\* A SYN reaches a listener.
LEMMA AcceptWay ==
    ASSUME NEW T \in Tables, NEW U \in Tables, NEW Q \in Tables, NEW i \in Slots, NEW r,
           NEW N \in Seq(GoodSeg), NEW M \in Seq(GoodSeg), N # <<>>,
           Changed(T, U, i, r), Way(T, Q, N), Way(Q, T, M), T[i].state \in Unowned,
           N[1].flags = {"SYN"}, For(r, N[1]), Free(T, r), r.inc = N[1].inc,
           r.state = "SYN_RECEIVED", r.una = 0, r.rcv = 1,
           \A s \in r.sendq : s.ack = 1,
           \A s \in In(N) : s.flags = {"SYN"} => s.seq = 0 /\ Size(s) = 1 /\ s.ack = 0,
           \A j \in Conns(Q) : Q[j].state = "SYN_SENT" =>
              /\ Q[j].nxt = 1 /\ Q[j].rcv = 0
              /\ \A s \in Q[j].sendq : s.ack = 0
    PROVE  Way(U, Q, N) /\ Way(Q, U, M)
<1> DEFINE k == N[1].inc
<1>1. /\ Conns(U) = Conns(T) \cup {i} /\ i \notin Conns(T) /\ U[i] = r
      /\ \A j \in Conns(T) : U[j] = T[j]
      /\ \A c, S : Has(T, c, S) => Has(U, c, S)
  BY NewSlots DEF Unowned
<1>2. N[1] \in In(N) /\ Len(N) \in Nat /\ Len(N) > 0
  BY InTail
<1>3. \A j \in Conns(T) : T[j].inc # k
  <2>1. ASSUME NEW j \in Conns(T), T[j].inc = k PROVE FALSE
    <3>1. For(T[j], N[1])
      BY <1>2, <2>1 DEF Way, Addressed
    <3> QED BY <3>1 DEF For, Free
  <2> QED BY <2>1
<1>4. PICK j \in Conns(Q) : Q[j].inc = k /\ Q[j].state = "SYN_SENT"
  <2>1. ~ Has(T, k, {"SYN_RECEIVED"})
    BY <1>3 DEF Has
  <2>2. Has(Q, k, {"SYN_SENT"})
    BY <1>2, <2>1 DEF Way, SynsLive
  <2> QED BY <2>2 DEF Has
<1>5. /\ \A l \in Conns(Q) : Q[l].inc = k => l = j
      /\ From(Q[j], N[1]) /\ Mirror(r, Q[j])
  BY <1>2, <1>4 DEF Way, Distinct, Addressed, For, From, Mirror
<1>6. \A s \in In(M) : s.inc # k
  <2>1. ASSUME NEW s \in In(M), s.inc = k PROVE FALSE
    <3>1. Has(T, k, {"SYN_RECEIVED"})
      BY <1>4, <2>1 DEF Way, Partner
    <3> QED BY <1>3, <3>1 DEF Has
  <2> QED BY <2>1
<1>7. \A s \in In(N) : s.inc = k => /\ s.flags = {"SYN"} /\ From(Q[j], s)
                                    /\ s.seq = 0 /\ Size(s) = 1 /\ s.ack = 0
  BY <1>4 DEF Way, Opening, Addressed
<1> HIDE DEF k
<1>8. r.inc = k
  BY DEF k
<1>9. Distinct(U)
  BY <1>1, <1>3, <1>8 DEF Way, Distinct, Free
<1>10. Addressed(U, Q, N)
  <2>1. \A s \in In(N) : s.inc = k => For(r, s)
    BY <1>5, <1>7 DEF For, From, Mirror
  <2>2. \A l \in Conns(Q) : Q[l].inc = k => Mirror(r, Q[l])
    BY <1>5
  <2> QED BY <1>1, <1>8, <2>1, <2>2 DEF Way, Addressed
<1>11. Addressed(Q, U, M)
  <2>1. \A l \in Conns(Q) : Q[l].inc = k => Mirror(Q[l], r)
    BY <1>5 DEF Mirror
  <2> QED BY <1>1, <1>6, <1>8, <2>1 DEF Way, Addressed
<1>12. Opening(U, M)
  BY <1>1, <1>6, <1>8 DEF Way, Opening
<1>13. NewestLast(U, M)
  <2>1. \A a \in 1 .. Len(M) : M[a] \in In(M)
    BY DEF In
  <2>2. \A a \in 1 .. Len(M) : M[a].inc # k
    BY <1>6, <2>1
  <2> QED BY <1>1, <1>8, <2>2 DEF Way, NewestLast
<1>14. Current(U, N)
  <2>1. ASSUME NEW s \in In(N), For(r, s) PROVE s.inc = k \/ s.flags = {"SYN"}
    <3>1. From(Q[j], s)
      BY <1>5, <2>1 DEF Mirror, For, From
    <3>2. PICK b \in 1 .. Len(N) : s = N[b]
      BY DEF In
    <3>3. CASE b = 1
      BY <3>2, <3>3 DEF k
    <3>4. CASE b # 1
      <4>1. 1 \in 1 .. Len(N) /\ 1 < b
        BY <1>2, <3>4
      <4>2. N[b].inc = Q[j].inc
        BY <1>4, <1>5, <3>1, <3>2, <4>1 DEF Way, NewestLast, k
      <4> QED BY <1>4, <3>2, <4>2
    <3> QED BY <3>3, <3>4
  <2> QED BY <1>1, <1>8, <2>1 DEF Way, Current
<1>15. SameConnection(U, Q) /\ SameConnection(Q, U)
  <2>1. \A l \in Conns(Q) : Mirror(r, Q[l]) \/ Mirror(Q[l], r) => Q[l].state = "SYN_SENT"
    BY <1>4, <1>5 DEF Way, Distinct, Mirror
  <2> QED BY <1>1, <2>1 DEF Way, SameConnection
<1>16. SynsLive(U, Q, N) /\ SynsLive(Q, U, M)
  BY <1>1 DEF Way, SynsLive
<1>17. Partner(U, Q, N)
  <2>1. Has(Q, k, {"SYN_SENT", "ESTABLISHED", "FIN_WAIT_1"})
    BY <1>4 DEF Has
  <2> QED BY <1>1, <1>8, <2>1 DEF Way, Partner
<1>18. Partner(Q, U, M)
  BY <1>1 DEF Way, Partner
<1>19. Numbers(U, Q, N)
  <2>1. /\ Q[j].rcv = r.una
        /\ \A s \in Q[j].sendq : s.ack <= r.una
        /\ \A s \in In(N) : s.inc = k => s.ack <= r.una
    BY <1>4, <1>7
  <2> QED BY <1>1, <1>5, <1>8, <2>1 DEF Way, Numbers
<1>20. Numbers(Q, U, M)
  <2>1. r.rcv = Q[j].nxt /\ \A s \in r.sendq : s.ack = Q[j].nxt
    BY <1>4
  <2>2. \A l \in Conns(Q) : Q[l].inc = k => r.rcv = Q[l].nxt /\ \A s \in r.sendq : s.ack = Q[l].nxt
    BY <1>5, <2>1
  <2> QED BY <1>1, <1>8, <2>2 DEF Way, Numbers
<1>21. Contents(U, Q, N)
  <2>1. \A s \in In(N) : s.inc = k => s.seq + Size(s) <= r.rcv
    BY <1>7
  <2> QED BY <1>1, <1>8, <2>1 DEF Way, Contents
<1>22. Contents(Q, U, M)
  BY <1>1 DEF Way, Contents
<1> QED
  BY <1>9, <1>10, <1>11, <1>12, <1>13, <1>14, <1>15, <1>16, <1>17, <1>18, <1>19,
     <1>20, <1>21, <1>22 DEF Way

\* What a TCB may send, first or again.
Sendable(t, x) ==
    /\ SegShape(x) /\ x.inc = t.inc /\ From(t, x) /\ x.ack <= t.rcv
    /\ t.state = "SYN_SENT" => x.flags = {"SYN"}
    /\ t.state = "SYN_RECEIVED" => x.flags = {"SYN", "ACK"}
    /\ t.state \notin {"SYN_SENT", "SYN_RECEIVED"} => "SYN" \notin x.flags
    /\ x \in t.sendq \/ (Size(x) = 0 /\ x.ack = t.rcv)

LEMMA AppendWay ==
    ASSUME NEW T \in Tables, NEW Q \in Tables, NEW i \in Conns(T),
           NEW N \in Seq(GoodSeg), NEW M \in Seq(GoodSeg), NEW x \in GoodSeg,
           Way(T, Q, N), Way(Q, T, M), Sendable(T[i], x)
    PROVE  Way(Q, T, Append(M, x))
<1> DEFINE P == Append(M, x)
           t == T[i]
<1>1. /\ Len(P) = Len(M) + 1 /\ Len(M) \in Nat
      /\ \A a \in 1 .. Len(M) : P[a] = M[a] /\ M[a] \in In(M)
      /\ P[Len(M) + 1] = x
      /\ In(P) = In(M) \cup {x}
  BY InAppend DEF In
<1>2. \A a \in 1 .. Len(P) : a \in 1 .. Len(M) \/ a = Len(M) + 1
  BY <1>1
<1> HIDE DEF P
<1>3. x.inc = t.inc /\ From(t, x)
  BY DEF Sendable
<1>4. \A l \in Conns(T) : T[l].inc = t.inc \/ From(T[l], x) => l = i
  BY <1>3 DEF Way, Distinct, From
<1>5. Addressed(Q, T, P)
  <2>1. \A j \in Conns(Q) : x.inc = Q[j].inc => For(Q[j], x)
    <3>1. \A j \in Conns(Q) : x.inc = Q[j].inc => Mirror(t, Q[j])
      BY <1>3 DEF Way, Addressed
    <3> QED BY <1>3, <3>1 DEF Mirror, For, From
  <2>2. \A l \in Conns(T) : x.inc = T[l].inc => From(T[l], x)
    BY <1>3, <1>4
  <2> QED BY <1>1, <2>1, <2>2 DEF Way, Addressed
<1>6. Opening(T, P)
  <2>1. \A l \in Conns(T) : x.inc = T[l].inc =>
            /\ T[l].state = "SYN_SENT" => x.flags = {"SYN"}
            /\ T[l].state = "SYN_RECEIVED" => x.flags = {"SYN", "ACK"}
            /\ x.ack <= T[l].rcv
    BY <1>3, <1>4 DEF Sendable
  <2> QED BY <1>1, <2>1 DEF Way, Opening
<1>7. SynsFirst(P)
  <2> SUFFICES ASSUME NEW a \in 1 .. Len(P), NEW b \in 1 .. Len(P),
                      a < b, P[a].inc = P[b].inc, "SYN" \in P[b].flags
               PROVE  "SYN" \in P[a].flags
    BY DEF SynsFirst
  <2>1. a \in 1 .. Len(M)
    BY <1>1
  <2>2. CASE b \in 1 .. Len(M)
    BY <1>1, <2>1, <2>2 DEF Way, SynsFirst
  <2>3. CASE b = Len(M) + 1
    <3>1. P[b] = x /\ P[a] \in In(M) /\ P[a].inc = t.inc
      BY <1>1, <1>3, <2>1, <2>3
    <3>2. t.state \in {"SYN_SENT", "SYN_RECEIVED"}
      BY <3>1 DEF Sendable
    <3>3. P[a].flags = {"SYN"} \/ P[a].flags = {"SYN", "ACK"}
      BY <3>1, <3>2 DEF Way, Opening
    <3> QED BY <3>3
  <2> QED BY <1>2, <2>2, <2>3
<1>8. NewestLast(T, P)
  <2> SUFFICES ASSUME NEW l \in Conns(T), NEW a \in 1 .. Len(P), NEW b \in 1 .. Len(P),
                      a < b, From(T[l], P[a]), From(T[l], P[b]), P[a].inc = T[l].inc
               PROVE  P[b].inc = T[l].inc
    BY DEF NewestLast
  <2>1. a \in 1 .. Len(M)
    BY <1>1
  <2>2. CASE b \in 1 .. Len(M)
    BY <1>1, <2>1, <2>2 DEF Way, NewestLast
  <2>3. CASE b = Len(M) + 1
    BY <1>1, <1>3, <1>4, <2>3
  <2> QED BY <1>2, <2>2, <2>3
<1>9. Current(Q, P)
  <2>1. ASSUME NEW j \in Conns(Q), Q[j].state # "SYN_SENT", For(Q[j], x)
        PROVE  x.inc = Q[j].inc \/ x.flags = {"SYN"}
    <3>1. Mirror(t, Q[j])
      BY <1>3, <2>1 DEF Mirror, For, From
    <3>2. CASE t.state = "SYN_SENT"
      BY <3>2 DEF Sendable
    <3>3. CASE t.state # "SYN_SENT"
      BY <1>3, <2>1, <3>1, <3>3 DEF Way, SameConnection
    <3> QED BY <3>2, <3>3
  <2> QED BY <1>1, <2>1 DEF Way, Current
<1>10. SynsLive(Q, T, P)
  <2>1. x.flags = {"SYN"} => Has(T, x.inc, {"SYN_SENT"})
    <3>1. x.flags = {"SYN"} => t.state = "SYN_SENT"
      BY DEF Sendable
    <3> QED BY <1>3, <3>1 DEF Has
  <2>2. x.flags = {"SYN", "ACK"} => Has(Q, x.inc, {"SYN_SENT", "ESTABLISHED", "FIN_WAIT_1"})
    <3>1. x.flags = {"SYN", "ACK"} => t.state = "SYN_RECEIVED"
      BY DEF Sendable
    <3> QED BY <1>3, <3>1 DEF Way, Partner
  <2> QED BY <1>1, <2>1, <2>2 DEF Way, SynsLive
<1>11. Partner(Q, T, P)
  <2>1. \A j \in Conns(Q) : Q[j].state = "SYN_SENT" /\ x.inc = Q[j].inc => Has(T, x.inc, {"SYN_RECEIVED"})
    <3>1. \A j \in Conns(Q) : Q[j].state = "SYN_SENT" /\ x.inc = Q[j].inc => t.state = "SYN_RECEIVED"
      BY <1>3 DEF Way, Partner
    <3> QED BY <1>3, <3>1 DEF Has
  <2> QED BY <1>1, <2>1 DEF Way, Partner
<1>12. Numbers(Q, T, P)
  <2>1. \A j \in Conns(Q) : x.inc = Q[j].inc => x.ack <= Q[j].una \/ x.ack = Q[j].nxt
    <3> SUFFICES ASSUME NEW j \in Conns(Q), x.inc = Q[j].inc
                 PROVE  x.ack <= Q[j].una \/ x.ack = Q[j].nxt
      OBVIOUS
    <3>1. /\ t.rcv = Q[j].una \/ t.rcv = Q[j].nxt
          /\ \A s \in t.sendq : s.ack <= Q[j].una \/ s.ack = Q[j].nxt
      BY <1>3 DEF Way, Numbers
    <3>2. CASE x \in t.sendq
      BY <3>1, <3>2
    <3>3. CASE x.ack = t.rcv
      <4>1. Q[j].una \in Nat
        BY TcbNats DEF Tables, Conns
      <4> QED BY <3>1, <3>3, <4>1
    <3> QED BY <3>2, <3>3 DEF Sendable
  <2> QED BY <1>1, <2>1 DEF Way, Numbers
<1>13. Contents(Q, T, P)
  <2>1. Size(x) > 0 => x \in t.sendq
    BY DEF Sendable
  <2> QED BY <1>1, <1>3, <2>1 DEF Way, Contents
<1> QED BY <1>5, <1>6, <1>7, <1>8, <1>9, <1>10, <1>11, <1>12, <1>13 DEF Way, P

LEMMA Bounds ==
    ASSUME NoWrap, NEW n \in 0 .. MaxSends
    PROVE  /\ MSS * n \in Nat /\ MSS * n + 2 < SeqSpace
           /\ MSS * (n + 1) = MSS * n + MSS
<1>1. MSS \in Nat /\ SeqSpace \in Nat /\ MaxSends \in Nat /\ n \in Nat
  BY Sizes
<1>2. PICK d \in Nat : MaxSends = n + d
  <2>1. MaxSends - n \in Nat /\ MaxSends = n + (MaxSends - n)
    BY <1>1
  <2> QED BY <2>1
<1>3. MSS * n \in Nat /\ MSS * d \in Nat
  BY <1>1, <1>2
<1>4. MSS * MaxSends = MSS * n + MSS * d
  BY <1>1, <1>2
<1>5. MSS * (n + 1) = MSS * n + MSS
  BY <1>1
<1> QED BY <1>1, <1>3, <1>4, <1>5 DEF NoWrap

LEMMA SegEnd ==
    ASSUME NEW s \in GoodSeg, SegShape(s)
    PROVE  SeqEnd(s) = s.seq + Size(s)
<1>1. s.seq \in Nat /\ Size(s) \in Nat
  BY SegNats
<1>2. SeqEnd(s) = Plus(s.seq, Size(s))
  BY DEF SeqEnd, Size
<1> QED BY <1>1, <1>2, PlusSmall DEF SegShape

LEMMA ShapeGrows ==
    ASSUME NoWrap, NEW n \in 0 .. MaxSends, n + 1 \in 0 .. MaxSends, NEW t \in GoodTcb, TcbShape(t, n)
    PROVE  TcbShape(t, n + 1)
<1>1. /\ MSS * n \in Nat /\ MSS * (n + 1) \in Nat /\ MSS * n <= MSS * (n + 1)
  BY Bounds, Sizes
<1>2. t.nxt \in Nat
  BY TcbNats
<1> QED BY <1>1, <1>2 DEF TcbShape

\* An acknowledgement of everything sent leaves nothing in the queue.
LEMMA AckedAll ==
    ASSUME NEW t \in GoodTcb, NEW n, TcbShape(t, n)
    PROVE  AckedTo(t, t.nxt).sendq = {}
<1>1. t.sendq \subseteq GoodSeg /\ t.nxt \in Seqs /\ t.nxt \in Nat
  BY GoodTcbFields, TcbNats
<1>2. \A s \in t.sendq : SeqEnd(s) = t.nxt
  BY <1>1, SegEnd DEF TcbShape, Queued
<1>3. \A s \in t.sendq : ~ (t.nxt < SeqEnd(s))
  BY <1>1, <1>2
<1> QED BY <1>1, <1>3, AckedToFields

LEMMA ShapeCovers ==
    ASSUME NEW t, NEW n, TcbShape(t, n)
    PROVE  Covers(t) /\ t.una <= t.nxt /\ \A s \in t.sendq : Queued(t, s)
BY DEF TcbShape, Covers, Queued

\* The TCB after such an acknowledgement.
LEMMA AckShape ==
    ASSUME NEW n, NEW t \in GoodTcb, TcbShape(t, n), NEW r \in GoodTcb,
           r.inc = t.inc, r.una = t.nxt, r.nxt = t.nxt, r.rcv = t.rcv, r.sendq = {},
           \/ t.state = "ESTABLISHED" /\ r.state = "ESTABLISHED"
           \/ t.state = "SYN_RECEIVED" /\ r.state = "ESTABLISHED" /\ 1 <= MSS * n + 1
           \/ t.state = "FIN_WAIT_1" /\ r.state = "FIN_WAIT_2"
    PROVE  TcbShape(r, n)
<1>1. t.una \in Nat /\ t.nxt \in Nat /\ t.rcv \in Nat
  BY TcbNats
<1> QED BY <1>1 DEF TcbShape

\* The TCB after the contents of a segment are taken.
LEMMA TakeShape ==
    ASSUME NEW n, NEW t \in GoodTcb, TcbShape(t, n), NEW r \in GoodTcb,
           r.inc = t.inc, r.una = t.una, r.nxt = t.nxt, t.rcv <= r.rcv, r.sendq = t.sendq,
           r.lport = t.lport, r.rport = t.rport,
           \/ t.state \in {"ESTABLISHED", "FIN_WAIT_2"} /\ r.state = t.state
           \/ t.state = "ESTABLISHED" /\ r.state = "CLOSE_WAIT"
           \/ t.state = "FIN_WAIT_2" /\ r.state = "TIME_WAIT"
    PROVE  TcbShape(r, n)
<1>1. t.una \in Nat /\ t.nxt \in Nat /\ t.rcv \in Nat /\ r.rcv \in Nat
  BY TcbNats
<1>2. \A s \in t.sendq : s.ack \in Nat
  BY GoodTcbFields, SegNats
<1>3. \A s \in r.sendq : Queued(r, s)
  <2> SUFFICES ASSUME NEW s \in t.sendq PROVE Queued(r, s)
    OBVIOUS
  <2>1. Queued(t, s) /\ s.ack \in Nat
    BY <1>2 DEF TcbShape
  <2>2. From(r, s)
    BY <2>1 DEF Queued, From
  <2> QED BY <1>1, <2>1, <2>2 DEF Queued
<1> QED BY <1>1, <1>3 DEF TcbShape

\* The TCB after a segment is sent for the first time.
LEMMA PostShape ==
    ASSUME NoWrap, NEW n \in 0 .. MaxSends, NEW t \in GoodTcb, TcbShape(t, n), t.sendq = {},
           NEW x \in GoodSeg, SegShape(x), x.inc = t.inc, From(t, x), x.seq = t.nxt, x.ack = t.rcv,
           NEW r \in GoodTcb, r.inc = t.inc, r.una = t.una, r.rcv = t.rcv, r.sendq = {x},
           r.nxt = SeqEnd(x), r.lport = t.lport, r.rport = t.rport,
           NEW m \in 0 .. MaxSends,
           \/ /\ t.state = "ESTABLISHED" /\ r.state = "ESTABLISHED" /\ m = n + 1
              /\ x.flags = {"ACK"} /\ x.len > 0 /\ x.len <= MSS
           \/ /\ m = n /\ x.flags = {"FIN", "ACK"}
              /\ \/ t.state = "ESTABLISHED" /\ r.state = "FIN_WAIT_1"
                 \/ t.state = "CLOSE_WAIT" /\ r.state = "LAST_ACK"
    PROVE  TcbShape(r, m) /\ Sendable(r, x) /\ t.nxt <= r.nxt
<1>1. t.una \in Nat /\ t.nxt \in Nat /\ t.rcv \in Nat /\ r.nxt \in Nat /\ t.una = t.nxt
  BY TcbNats DEF TcbShape
<1>2. x.seq \in Nat /\ Size(x) \in Nat /\ x.len \in Nat /\ r.nxt = t.nxt + Size(x)
  BY SegNats, SegEnd
<1>3. MSS \in Nat /\ MSS * n \in Nat /\ MSS * (n + 1) = MSS * n + MSS
  BY Bounds, Sizes
<1>4. t.nxt <= MSS * n + 1
  BY DEF TcbShape
<1>5. /\ r.nxt <= MSS * m + 2
      /\ r.state = "ESTABLISHED" => r.nxt <= MSS * m + 1
  <2>1. CASE x.flags = {"ACK"} /\ r.state = "ESTABLISHED" /\ m = n + 1
    <3>1. Size(x) <= MSS
      BY <2>1 DEF Size
    <3> QED BY <1>1, <1>2, <1>3, <1>4, <2>1, <3>1
  <2>2. CASE x.flags = {"FIN", "ACK"} /\ m = n /\ r.state # "ESTABLISHED"
    <3>1. Size(x) = 1
      BY <2>2 DEF Size
    <3> QED BY <1>1, <1>2, <1>3, <1>4, <2>2, <3>1
  <2> QED BY <2>1, <2>2
<1>6. From(r, x)
  BY DEF From
<1>7. Queued(r, x)
  BY <1>1, <1>2, <1>6 DEF Queued
<1>8. TcbShape(r, m)
  BY <1>1, <1>2, <1>5, <1>7 DEF TcbShape
<1>9. Sendable(r, x)
  BY <1>1, <1>6 DEF Sendable
<1> QED BY <1>1, <1>2, <1>8, <1>9

\* What a TCB sends again, and the ACK it answers with.
LEMMA AgainSendable ==
    ASSUME NEW n, NEW t \in GoodTcb, TcbShape(t, n), NEW x \in t.sendq
    PROVE  Sendable(t, x) /\ t.state \notin Unowned
<1>1. Queued(t, x) /\ x \in GoodSeg /\ t.state \in States
  BY GoodTcbFields DEF TcbShape
<1>2. t.state \notin Unowned /\ t.state \notin {"FIN_WAIT_2", "TIME_WAIT", "CLOSING"}
  BY DEF TcbShape, Unowned
<1>3. t.state \in {"SYN_SENT", "SYN_RECEIVED", "ESTABLISHED", "CLOSE_WAIT", "FIN_WAIT_1", "LAST_ACK"}
  BY <1>1, <1>2 DEF States, Unowned
<1> QED BY <1>1, <1>2, <1>3 DEF Sendable, Queued

LEMMA AckSendable ==
    ASSUME NoWrap, NEW n \in 0 .. MaxSends, NEW t \in GoodTcb, TcbShape(t, n),
           t.state \notin Unowned, t.state \notin {"SYN_SENT", "SYN_RECEIVED"}
    PROVE  PureAck(t) \in GoodSeg /\ Sendable(t, PureAck(t))
<1>1. t.inc # 0 /\ t \in Tcb
  BY GoodTcbFields
<1>2. {"ACK"} \in SUBSET Flags /\ 0 \in 0 .. MSS /\ 0 \in 0 .. MaxSends
  BY Sizes DEF Flags
<1> DEFINE x == PureAck(t)
<1>3. /\ x \in GoodSeg /\ x.flags = {"ACK"} /\ x.len = 0 /\ x.seq = t.nxt /\ x.ack = t.rcv
      /\ x.inc = t.inc /\ From(t, x)
  BY <1>1, <1>2, SegFields DEF PureAck
<1> HIDE DEF x
<1>4. t.nxt \in Nat /\ t.rcv \in Nat /\ MSS * n + 2 < SeqSpace /\ t.nxt <= MSS * n + 2
      /\ MSS * n \in Nat /\ SeqSpace \in Nat
  BY TcbNats, Bounds, Sizes DEF TcbShape
<1>5. Size(x) = 0
  BY <1>3 DEF Size
<1>6. SegShape(x)
  BY <1>1, <1>3, <1>4, <1>5 DEF SegShape
<1> QED BY <1>3, <1>4, <1>5, <1>6 DEF Sendable, x

\* What the sender of a connection knows of a, the payloads accepted from its
\* application, and b, the payloads consumed at the other end.
Sender(t, Q, a, b) ==
    /\ \A s \in t.sendq : s.len > 0 => Len(a) > 0 /\ a[Len(a)] = s.pay
    /\ (\A s \in t.sendq : s.len = 0) => Len(b) = Len(a)
    /\ Len(a) <= Len(b) + 1
    /\ t.state \in {"SYN_SENT", "SYN_RECEIVED"} => Len(a) = 0
    /\ \A j \in Conns(Q) : Q[j].inc = t.inc =>
          /\ Q[j].rcv = t.nxt => Len(b) = Len(a)
          /\ \A s \in t.sendq : s.len > 0 /\ Q[j].rcv # t.nxt => Len(b) + 1 = Len(a)

Receiver(q, a, b) ==
    /\ q.state = "SYN_SENT" => Len(a) = 0
    /\ q.state \in {"SYN_SENT", "SYN_RECEIVED"} => Len(b) = 0

Story(T, Q, S, G) ==
    /\ \A i \in Conns(T) : Sender(T[i], Q, S[T[i].inc], G[T[i].inc])
    /\ \A j \in Conns(Q) : Receiver(Q[j], S[Q[j].inc], G[Q[j].inc])

\* The connection k has no other TCB in T; its data is all that changes; its
\* TCBs in Q as senders and as receivers.
Only(T, i, k)          == \A j \in Conns(T) : j # i => T[j].inc # k
SameBut(S, S2, k)      == \A c \in 1 .. MaxConnects : c # k => S2[c] = S[c]
SendersOf(Q, U, k, a, b) == \A j \in Conns(Q) : Q[j].inc = k => Sender(Q[j], U, a, b)
ReceiversOf(Q, k, a, b)  == \A j \in Conns(Q) : Q[j].inc = k => Receiver(Q[j], a, b)

LEMMA ConnInc ==
    ASSUME NEW T \in Tables, NEW i \in Conns(T)
    PROVE  T[i].inc \in 1 .. MaxConnects /\ T[i] \in GoodTcb /\ i \in Slots
<1>1. T[i] \in GoodTcb /\ T[i].state \notin Unowned /\ i \in Slots
  BY DEF Conns, Tables, Unowned
<1> QED BY <1>1, GoodTcbFields, Sizes

\* The sender's end changes, and with it what was accepted.
LEMMA StoryOut ==
    ASSUME NEW T \in Tables, NEW U \in Tables, NEW Q \in Tables, NEW i \in Slots, NEW r,
           NEW S, NEW S2, NEW G, Changed(T, U, i, r), Story(T, Q, S, G),
           Only(T, i, r.inc), SameBut(S, S2, r.inc), r.state \notin Unowned,
           Sender(r, Q, S2[r.inc], G[r.inc]), ReceiversOf(Q, r.inc, S2[r.inc], G[r.inc])
    PROVE  Story(U, Q, S2, G)
<1>1. /\ U[i] = r /\ \A j \in Conns(U) : j # i => j \in Conns(T) /\ U[j] = T[j]
  BY DEF Changed, Conns
<1>2. ASSUME NEW j \in Conns(U) PROVE Sender(U[j], Q, S2[U[j].inc], G[U[j].inc])
  <2>1. CASE j = i
    BY <1>1, <2>1
  <2>2. CASE j # i
    <3>1. j \in Conns(T) /\ U[j] = T[j] /\ T[j].inc # r.inc /\ T[j].inc \in 1 .. MaxConnects
      BY <1>1, <2>2, ConnInc DEF Only
    <3> QED BY <3>1 DEF Story, SameBut
  <2> QED BY <2>1, <2>2
<1>3. ASSUME NEW j \in Conns(Q) PROVE Receiver(Q[j], S2[Q[j].inc], G[Q[j].inc])
  <2>1. CASE Q[j].inc = r.inc
    BY <2>1 DEF ReceiversOf
  <2>2. CASE Q[j].inc # r.inc
    BY <2>2, ConnInc DEF Story, SameBut
  <2> QED BY <2>1, <2>2
<1> QED BY <1>2, <1>3 DEF Story

\* The receiver's end changes, and with it what was consumed.
LEMMA StoryIn ==
    ASSUME NEW T \in Tables, NEW U \in Tables, NEW Q \in Tables, NEW i \in Slots, NEW r,
           NEW S, NEW G, NEW G2, Changed(T, U, i, r), Story(Q, T, S, G),
           Only(T, i, r.inc), SameBut(G, G2, r.inc), r.state \notin Unowned,
           Receiver(r, S[r.inc], G2[r.inc]), SendersOf(Q, U, r.inc, S[r.inc], G2[r.inc])
    PROVE  Story(Q, U, S, G2)
<1>1. /\ U[i] = r /\ \A j \in Conns(U) : j # i => j \in Conns(T) /\ U[j] = T[j]
  BY DEF Changed, Conns
<1>2. ASSUME NEW j \in Conns(U) PROVE Receiver(U[j], S[U[j].inc], G2[U[j].inc])
  <2>1. CASE j = i
    BY <1>1, <2>1
  <2>2. CASE j # i
    <3>1. j \in Conns(T) /\ U[j] = T[j] /\ T[j].inc # r.inc /\ T[j].inc \in 1 .. MaxConnects
      BY <1>1, <2>2, ConnInc DEF Only
    <3> QED BY <3>1 DEF Story, SameBut
  <2> QED BY <2>1, <2>2
<1>3. ASSUME NEW j \in Conns(Q) PROVE Sender(Q[j], U, S[Q[j].inc], G2[Q[j].inc])
  <2>1. CASE Q[j].inc = r.inc
    BY <2>1 DEF SendersOf
  <2>2. CASE Q[j].inc # r.inc
    <3>1. Sender(Q[j], T, S[Q[j].inc], G2[Q[j].inc])
      BY <2>2, ConnInc DEF Story, SameBut
    <3>2. \A l \in Conns(U) : U[l].inc = Q[j].inc => l \in Conns(T) /\ U[l] = T[l]
      BY <1>1, <2>2
    <3> QED BY <3>1, <3>2 DEF Sender
  <2> QED BY <2>1, <2>2
<1> QED BY <1>2, <1>3 DEF Story

\* A slot changes that holds no connection afterwards.
LEMMA StoryLess ==
    ASSUME NEW T, NEW U, NEW Q, NEW i \in Slots, NEW r, NEW S, NEW G, NEW S2, NEW G2,
           Changed(T, U, i, r), r.state \in Unowned, Story(T, Q, S, G), Story(Q, T, S2, G2)
    PROVE  Story(U, Q, S, G) /\ Story(Q, U, S2, G2)
<1>1. \A j \in Conns(U) : j \in Conns(T) /\ U[j] = T[j]
  BY DEF Changed, Conns, Unowned
<1>2. Story(U, Q, S, G)
  BY <1>1 DEF Story
<1>3. \A j \in Conns(Q) : Sender(Q[j], T, S2[Q[j].inc], G2[Q[j].inc])
  BY DEF Story
<1>4. \A j \in Conns(Q) : Sender(Q[j], U, S2[Q[j].inc], G2[Q[j].inc])
  BY <1>1, <1>3 DEF Sender
<1> QED BY <1>1, <1>2, <1>4 DEF Story

LEMMA Alone ==
    ASSUME NEW T, Distinct(T), NEW i \in Conns(T)
    PROVE  Only(T, i, T[i].inc)
BY DEF Distinct, Only

\* An acknowledgement of everything sent: everything accepted is consumed.
LEMMA AckStory ==
    ASSUME NEW T \in Tables, NEW U \in Tables, NEW Q \in Tables, NEW i \in Slots, NEW r,
           NEW N \in Seq(GoodSeg), N # <<>>, NEW n, TcbShape(T[i], n),
           NEW S, NEW G, NEW S2, NEW G2, Changed(T, U, i, r), Grown(T[i], r),
           Way(T, Q, N), Story(T, Q, S, G), Story(Q, T, S2, G2),
           N[1].inc = T[i].inc, N[1].ack = T[i].nxt,
           T[i].state \notin {"CLOSE_WAIT", "CLOSING"},
           r.una = T[i].nxt, r.nxt = T[i].nxt, r.rcv = T[i].rcv, r.sendq = {},
           Len(S[r.inc]) \in Nat, Len(G[r.inc]) \in Nat
    PROVE  Story(U, Q, S, G) /\ Story(Q, U, S2, G2)
<1>1. /\ N[1] \in In(N) /\ i \in Conns(T) /\ r.inc = T[i].inc /\ U[i] = r
      /\ r.state \notin Unowned
  BY InTail, GrownSlots DEF Grown
<1>2. Only(T, i, r.inc) /\ SameBut(S, S, r.inc) /\ SameBut(G2, G2, r.inc)
  BY <1>1, Alone DEF Way, SameBut
<1>3. Sender(T[i], Q, S[r.inc], G[r.inc])
  BY <1>1 DEF Story
<1>4. Len(G[r.inc]) = Len(S[r.inc])
  <2>1. CASE \A s \in T[i].sendq : s.len = 0
    BY <1>3, <2>1 DEF Sender
  <2>2. CASE \E s \in T[i].sendq : s.len # 0
    <3>1. PICK s \in T[i].sendq : s.len # 0
      BY <2>2
    <3>2. T[i] \in GoodTcb /\ Queued(T[i], s) /\ s \in GoodSeg
      BY <3>1, GoodTcbFields DEF TcbShape, Tables
    <3>3. s.flags = {"ACK"}
      BY <3>1, <3>2 DEF Queued, SegShape
    <3>4. T[i].state = "ESTABLISHED"
      <4>1. T[i].state \in States /\ T[i].state \notin Unowned
        BY <1>1, <3>2, GoodTcbFields DEF Grown
      <4>2. "SYN" \notin s.flags /\ "FIN" \notin s.flags
        BY <3>3
      <4>3. T[i].state \notin {"SYN_SENT", "SYN_RECEIVED", "FIN_WAIT_1", "LAST_ACK"}
        BY <3>2, <4>2 DEF Queued
      <4>4. T[i].state \notin {"FIN_WAIT_2", "TIME_WAIT"}
        BY <3>1 DEF TcbShape
      <4> QED BY <4>1, <4>3, <4>4 DEF States, Unowned
    <3>5. PICK j \in Conns(Q) : Q[j].inc = T[i].inc
      BY <1>1, <3>4 DEF Way, Partner, Has
    <3>6. Q[j].rcv = T[i].nxt
      BY <1>1, <3>5, AllReceived, ShapeCovers
    <3> QED BY <1>1, <1>3, <3>5, <3>6 DEF Sender
  <2> QED BY <2>1, <2>2
<1>5. Sender(r, Q, S[r.inc], G[r.inc])
  <2>1. r.state \in {"SYN_SENT", "SYN_RECEIVED"} => Len(S[r.inc]) = 0
    BY <1>3 DEF Grown, Sender
  <2> QED BY <1>4, <2>1 DEF Sender
<1>6. ReceiversOf(Q, r.inc, S[r.inc], G[r.inc])
  BY DEF Story, ReceiversOf
<1>7. Story(U, Q, S, G)
  BY <1>1, <1>2, <1>5, <1>6, StoryOut
<1>8. Receiver(r, S2[r.inc], G2[r.inc])
  <2>1. Receiver(T[i], S2[r.inc], G2[r.inc])
    BY <1>1 DEF Story
  <2> QED BY <2>1 DEF Grown, Receiver
<1>9. SendersOf(Q, U, r.inc, S2[r.inc], G2[r.inc])
  <2>1. \A j \in Conns(Q) : Q[j].inc = r.inc => Sender(Q[j], T, S2[r.inc], G2[r.inc])
    BY DEF Story
  <2>2. \A l \in Conns(U) : l \in Conns(T) /\ U[l].inc = T[l].inc /\ U[l].rcv = T[l].rcv
    BY GrownSlots DEF Conns
  <2> QED BY <2>1, <2>2 DEF Sender, SendersOf
<1> QED BY <1>1, <1>2, <1>7, <1>8, <1>9, StoryIn

\* Every TCB of a table has its shape.
Shaped(T, n) == \A j \in Slots : TcbShape(T[j], n)

\* The contents of a segment are taken; with data, one more payload is consumed.
LEMMA TakeStory ==
    ASSUME NEW T \in Tables, NEW U \in Tables, NEW Q \in Tables, NEW i \in Slots, NEW r,
           NEW N \in Seq(GoodSeg), NEW M \in Seq(GoodSeg), N # <<>>, NEW n,
           Shaped(Q, n),
           NEW S, NEW G, NEW S2, NEW G2, NEW G3,
           Changed(T, U, i, r), Grown(T[i], r), Way(T, Q, N), Way(Q, T, M),
           Story(T, Q, S, G), Story(Q, T, S2, G2),
           N[1].inc = T[i].inc, N[1].seq = T[i].rcv, Size(N[1]) > 0,
           r.una = T[i].una, r.nxt = T[i].nxt, r.rcv = N[1].seq + Size(N[1]),
           r.sendq = T[i].sendq, r.state \notin {"SYN_SENT", "SYN_RECEIVED"},
           SameBut(G2, G3, r.inc), Len(S2[r.inc]) \in Nat, Len(G2[r.inc]) \in Nat,
           Len(G3[r.inc]) = IF N[1].len > 0 THEN Len(G2[r.inc]) + 1 ELSE Len(G2[r.inc])
    PROVE  /\ Story(U, Q, S, G) /\ Story(Q, U, S2, G3)
           /\ N[1].len > 0 => /\ Len(S2[r.inc]) = Len(G2[r.inc]) + 1
                              /\ S2[r.inc][Len(S2[r.inc])] = N[1].pay
<1> DEFINE s == N[1]
           a == S2[r.inc]
           b == G2[r.inc]
<1>1. /\ s \in In(N) /\ i \in Conns(T) /\ r.inc = T[i].inc /\ U[i] = r
      /\ r.state \notin Unowned
  BY InTail, GrownSlots DEF Grown
<1>2. s.seq \in Nat /\ Size(s) \in Nat /\ s.len \in Nat
  BY <1>1, InType, SegNats
<1>3. Tidy(Q)
  BY ShapeCovers DEF Tidy, Shaped
<1>4. PICK j \in Conns(Q) : Q[j].inc = s.inc /\ s \in Q[j].sendq
  <2>1. \A l \in Conns(Q) : Covers(Q[l])
    BY <1>3, TidyCovers DEF Conns
  <2> QED BY <1>1, <2>1, TakeNumbers
<1>5. j \in Slots /\ Q[j].nxt = s.seq + Size(s) /\ \A q \in Q[j].sendq : q = s
  BY <1>3, <1>4 DEF Tidy, Queued, Conns, TcbShape, Shaped
<1>6. Only(T, i, r.inc) /\ SameBut(S, S, r.inc) /\ Only(Q, j, r.inc)
  BY <1>1, <1>4, Alone DEF Way, SameBut
<1>7. Sender(Q[j], T, a, b)
  BY <1>1, <1>4 DEF Story
<1>8. s.len > 0 => Len(a) = Len(b) + 1 /\ a[Len(a)] = s.pay
  <2>1. T[i].rcv # Q[j].nxt
    BY <1>2, <1>5
  <2> QED BY <1>1, <1>4, <1>7, <2>1 DEF Sender
<1>9. s.len = 0 => Len(a) = Len(b)
  BY <1>5, <1>7 DEF Sender
<1> DEFINE c == G3[r.inc]
<1>10. Len(c) = Len(a)
  BY <1>2, <1>8, <1>9
<1> HIDE DEF c
<1>11. Sender(Q[j], U, a, c)
  <2>1. \A l \in Conns(U) : U[l].inc = Q[j].inc => U[l].rcv = Q[j].nxt
    <3>1. \A l \in Conns(U) : l \in Conns(T) /\ U[l].inc = T[l].inc
      BY GrownSlots
    <3> QED BY <1>1, <1>4, <1>5, <1>6, <3>1 DEF Only
  <2> QED BY <1>7, <1>10, <2>1 DEF Sender
<1>12. SendersOf(Q, U, r.inc, a, c)
  BY <1>6, <1>11 DEF SendersOf, Only
<1>13. Receiver(r, a, c)
  BY DEF Receiver
<1>14. Story(Q, U, S2, G3)
  BY <1>1, <1>6, <1>12, <1>13, StoryIn DEF c
<1>15. Sender(r, Q, S[r.inc], G[r.inc])
  <2>1. Sender(T[i], Q, S[r.inc], G[r.inc])
    BY <1>1 DEF Story
  <2> QED BY <1>1, <2>1 DEF Sender
<1>16. ReceiversOf(Q, r.inc, S[r.inc], G[r.inc])
  BY DEF Story, ReceiversOf
<1> QED BY <1>1, <1>6, <1>8, <1>14, <1>15, <1>16, StoryOut

\* A segment is sent for the first time; with data, one more payload is accepted.
LEMMA PostStory ==
    ASSUME NEW T \in Tables, NEW U \in Tables, NEW Q \in Tables, NEW i \in Slots, NEW r,
           NEW N \in Seq(GoodSeg), NEW M \in Seq(GoodSeg), NEW x \in GoodSeg,
           NEW S, NEW G, NEW S2, NEW G2, NEW S3,
           Changed(T, U, i, r), Grown(T[i], r), Way(T, Q, N), Way(Q, T, M),
           Story(T, Q, S, G), Story(Q, T, S2, G2),
           T[i].sendq = {}, T[i].una = T[i].nxt, T[i].nxt < r.nxt,
           T[i].state \in {"ESTABLISHED", "CLOSE_WAIT"},
           r.rcv = T[i].rcv, r.sendq = {x}, r.state \notin {"SYN_SENT", "SYN_RECEIVED"},
           SameBut(S, S3, r.inc), Len(S[r.inc]) \in Nat, Len(G[r.inc]) \in Nat,
           \/ x.len = 0 /\ S3[r.inc] = S[r.inc]
           \/ /\ x.len # 0 /\ Len(S3[r.inc]) = Len(S[r.inc]) + 1
              /\ S3[r.inc][Len(S3[r.inc])] = x.pay
    PROVE  Story(U, Q, S3, G) /\ Story(Q, U, S2, G2)
<1> DEFINE a == S[r.inc]
           b == G[r.inc]
           c == S3[r.inc]
<1>1. /\ i \in Conns(T) /\ r.inc = T[i].inc /\ U[i] = r /\ r.state \notin Unowned
  BY GrownSlots DEF Grown
<1>2. Only(T, i, r.inc) /\ SameBut(G2, G2, r.inc)
  BY <1>1, Alone DEF Way, SameBut
<1>3. Len(b) = Len(a) /\ Len(a) \in Nat
  <2>1. Sender(T[i], Q, a, b)
    BY <1>1 DEF Story
  <2> QED BY <2>1 DEF Sender
<1>4. Sender(r, Q, c, b)
  <2>1. \A j \in Conns(Q) : Q[j].inc = r.inc => Q[j].rcv # r.nxt
    <3> SUFFICES ASSUME NEW j \in Conns(Q), Q[j].inc = r.inc PROVE Q[j].rcv # r.nxt
      OBVIOUS
    <3>1. Q[j].rcv = T[i].nxt
      BY <1>1 DEF Way, Numbers
    <3>2. T[i].nxt \in Nat
      BY TcbNats DEF Tables
    <3> QED BY <3>1, <3>2
  <2>2. CASE x.len = 0 /\ c = a
    BY <1>3, <2>1, <2>2 DEF Sender
  <2>3. CASE x.len # 0 /\ Len(c) = Len(a) + 1 /\ c[Len(c)] = x.pay
    <3> HIDE DEF a, b, c
    <3> QED BY <1>3, <2>1, <2>3 DEF Sender
  <2> QED BY <2>2, <2>3
<1>5. ReceiversOf(Q, r.inc, c, b)
  <2> SUFFICES ASSUME NEW j \in Conns(Q), Q[j].inc = r.inc PROVE Receiver(Q[j], c, b)
    BY DEF ReceiversOf
  <2>1. Receiver(Q[j], a, b)
    BY DEF Story
  <2>2. Q[j].state # "SYN_SENT"
    BY <1>1 DEF Way, Partner
  <2> QED BY <2>1, <2>2 DEF Receiver
<1>6. Story(U, Q, S3, G)
  BY <1>1, <1>2, <1>4, <1>5, StoryOut
<1>7. Receiver(r, S2[r.inc], G2[r.inc])
  BY DEF Receiver
<1>8. SendersOf(Q, U, r.inc, S2[r.inc], G2[r.inc])
  <2>1. \A j \in Conns(Q) : Q[j].inc = r.inc => Sender(Q[j], T, S2[r.inc], G2[r.inc])
    BY DEF Story
  <2>2. \A l \in Conns(U) : l \in Conns(T) /\ U[l].inc = T[l].inc /\ U[l].rcv = T[l].rcv
    BY GrownSlots DEF Conns
  <2> QED BY <2>1, <2>2 DEF Sender, SendersOf
<1> QED BY <1>1, <1>2, <1>6, <1>7, <1>8, StoryIn

\* A connection that nobody has heard of.
LEMMA ConnectStory ==
    ASSUME NEW T \in Tables, NEW U \in Tables, NEW Q \in Tables, NEW i \in Slots, NEW r,
           NEW N, NEW M, NEW S, NEW G, NEW S2, NEW G2, Changed(T, U, i, r),
           Story(T, Q, S, G), Story(Q, T, S2, G2), Fresh(T, Q, N, M, r.inc),
           r.state \notin Unowned, \A s \in r.sendq : s.len = 0,
           Len(S[r.inc]) = 0, Len(G[r.inc]) = 0, Len(S2[r.inc]) = 0, Len(G2[r.inc]) = 0
    PROVE  Story(U, Q, S, G) /\ Story(Q, U, S2, G2)
<1>1. Only(T, i, r.inc) /\ SameBut(S, S, r.inc) /\ SameBut(G2, G2, r.inc)
  BY DEF Fresh, Only, SameBut
<1>2. /\ Sender(r, Q, S[r.inc], G[r.inc]) /\ ReceiversOf(Q, r.inc, S[r.inc], G[r.inc])
      /\ Receiver(r, S2[r.inc], G2[r.inc]) /\ SendersOf(Q, U, r.inc, S2[r.inc], G2[r.inc])
  BY DEF Fresh, Sender, Receiver, SendersOf, ReceiversOf
<1> QED BY <1>1, <1>2, StoryOut, StoryIn

\* A connection whose other end waits for the answer to its SYN.
LEMMA AcceptStory ==
    ASSUME NEW T \in Tables, NEW U \in Tables, NEW Q \in Tables, NEW i \in Slots, NEW r,
           NEW S, NEW G, NEW S2, NEW G2, Changed(T, U, i, r), Distinct(Q),
           Story(T, Q, S, G), Story(Q, T, S2, G2), Only(T, i, r.inc),
           NEW j \in Conns(Q), Q[j].inc = r.inc, Q[j].state = "SYN_SENT",
           \A s \in Q[j].sendq : s.len = 0,
           r.state \notin Unowned, \A s \in r.sendq : s.len = 0,
           Len(S[r.inc]) \in Nat, Len(G[r.inc]) \in Nat,
           Len(S2[r.inc]) \in Nat, Len(G2[r.inc]) \in Nat
    PROVE  Story(U, Q, S, G) /\ Story(Q, U, S2, G2)
<1>1. Only(Q, j, r.inc) /\ SameBut(S, S, r.inc) /\ SameBut(G2, G2, r.inc)
  BY Alone DEF SameBut
<1>2. Len(S[r.inc]) = 0 /\ Len(G[r.inc]) = 0
  BY DEF Story, Receiver
<1>3. Len(S2[r.inc]) = 0 /\ Len(G2[r.inc]) = 0
  BY DEF Story, Sender
<1>4. Sender(r, Q, S[r.inc], G[r.inc]) /\ ReceiversOf(Q, r.inc, S[r.inc], G[r.inc])
  BY <1>2 DEF Sender, Receiver, ReceiversOf
<1>5. Receiver(r, S2[r.inc], G2[r.inc])
  BY <1>3 DEF Receiver
<1>6. SendersOf(Q, U, r.inc, S2[r.inc], G2[r.inc])
  <2>1. Sender(Q[j], U, S2[r.inc], G2[r.inc])
    BY <1>3 DEF Sender
  <2> QED BY <1>1, <2>1 DEF SendersOf, Only
<1> QED BY <1>1, <1>4, <1>5, <1>6, StoryOut, StoryIn

-----------------------------------------------------------------------------
(***************************************************************************)
(* The two ends of a link with n data segments sent and c connections      *)
(* opened: S and S2 are what T and Q have sent, G and G2 what the other    *)
(* end has consumed of it.                                                 *)
(***************************************************************************)
Lengths(S) == \A k \in 1 .. MaxConnects : Len(S[k]) \in Nat
Link(T, Q, N, M, n, c, S, G, S2, G2) ==
    /\ T \in Tables /\ Q \in Tables /\ N \in Seq(GoodSeg) /\ M \in Seq(GoodSeg)
    /\ n \in 0 .. MaxSends /\ c \in 0 .. MaxConnects
    /\ Lengths(S) /\ Lengths(G) /\ Lengths(S2) /\ Lengths(G2)
    /\ Shapes(T, N, n, c) /\ Shapes(Q, M, n, c)
    /\ Way(T, Q, N) /\ Way(Q, T, M)
    /\ Story(T, Q, S, G) /\ Story(Q, T, S2, G2)

LEMMA LinkPut ==
    ASSUME NEW T, NEW U \in Tables, NEW Q, NEW N, NEW M, NEW n, NEW c,
           NEW S, NEW G, NEW S2, NEW G2, NEW Sx, NEW Gx, NEW i \in Slots, NEW r,
           Link(T, Q, N, M, n, c, S, G, S2, G2), Changed(T, U, i, r),
           TcbShape(r, n), r.inc <= c, Way(U, Q, N), Way(Q, U, M),
           Lengths(Sx), Lengths(Gx), Story(U, Q, Sx, G), Story(Q, U, S2, Gx)
    PROVE  Link(U, Q, N, M, n, c, Sx, G, S2, Gx)
<1>1. Shapes(U, N, n, c)
  <2>1. \A j \in Slots : TcbShape(U[j], n) /\ U[j].inc <= c
    BY DEF Changed, Link, Shapes
  <2> QED BY <2>1 DEF Link, Shapes
<1> QED BY <1>1 DEF Link

\* The first segment on the way to T is taken.
LEMMA LinkDrop ==
    ASSUME NEW T, NEW Q, NEW N, NEW M, NEW n, NEW c, NEW S, NEW G, NEW S2, NEW G2,
           Link(T, Q, N, M, n, c, S, G, S2, G2), N # <<>>
    PROVE  Link(T, Q, Tail(N), M, n, c, S, G, S2, G2)
<1>1. Way(T, Q, Tail(N))
  BY DropWay DEF Link
<1>2. Tail(N) \in Seq(GoodSeg) /\ In(Tail(N)) \subseteq In(N)
  BY InTail DEF Link
<1>3. Shapes(T, Tail(N), n, c)
  BY <1>2 DEF Link, Shapes
<1> QED BY <1>1, <1>2, <1>3 DEF Link

\* T sends a segment.
LEMMA LinkSend ==
    ASSUME NEW T, NEW Q, NEW N, NEW M, NEW n, NEW c, NEW S, NEW G, NEW S2, NEW G2,
           Link(T, Q, N, M, n, c, S, G, S2, G2), NEW i \in Conns(T), NEW x \in GoodSeg,
           Sendable(T[i], x)
    PROVE  Link(T, Q, N, Append(M, x), n, c, S, G, S2, G2)
<1>1. Way(Q, T, Append(M, x))
  BY AppendWay DEF Link
<1>2. Append(M, x) \in Seq(GoodSeg) /\ In(Append(M, x)) = In(M) \cup {x}
  BY InAppend DEF Link
<1>3. SegShape(x) /\ x.inc <= c
  BY DEF Sendable, Link, Shapes, Conns
<1>4. Shapes(Q, Append(M, x), n, c)
  BY <1>2, <1>3 DEF Link, Shapes
<1> QED BY <1>1, <1>2, <1>4 DEF Link

\* Another link opens a connection or sends data.
LEMMA LinkGrow ==
    ASSUME NoWrap, NEW T, NEW Q, NEW N, NEW M, NEW n, NEW c, NEW S, NEW G, NEW S2, NEW G2,
           Link(T, Q, N, M, n, c, S, G, S2, G2),
           NEW m \in 0 .. MaxSends, m = n \/ m = n + 1, NEW d \in 0 .. MaxConnects, c <= d
    PROVE  Link(T, Q, N, M, m, d, S, G, S2, G2)
<1>1. \A j \in Slots : TcbShape(T[j], m) /\ TcbShape(Q[j], m)
  <2>1. CASE m = n
    BY <2>1 DEF Link, Shapes
  <2>2. CASE m = n + 1
    <3>1. \A j \in Slots : T[j] \in GoodTcb /\ Q[j] \in GoodTcb
      BY DEF Link, Tables
    <3>2. n \in 0 .. MaxSends /\ n + 1 \in 0 .. MaxSends
      BY <2>2 DEF Link
    <3>3. \A j \in Slots : TcbShape(T[j], n) /\ TcbShape(Q[j], n)
      BY DEF Link, Shapes
    <3> QED BY <2>2, <3>1, <3>2, <3>3, ShapeGrows
  <2> QED BY <2>1, <2>2
<1>2. \A k : k \in Nat /\ k <= c => k <= d
  BY DEF Link
<1>3. \A s \in In(N) \cup In(M) : s.inc \in Nat
  BY InType, SegNats DEF Link
<1>4. \A j \in Slots : T[j].inc \in Nat /\ Q[j].inc \in Nat
  BY TcbNats DEF Link, Tables
<1>5. Shapes(T, N, m, d) /\ Shapes(Q, M, m, d)
  BY <1>1, <1>2, <1>3, <1>4 DEF Link, Shapes
<1> QED BY <1>5 DEF Link

\* The first segment on the way, for a TCB that it finds.
LEMMA HeadOf ==
    ASSUME NEW T, NEW Q, NEW N, NEW M, NEW n, NEW c, NEW S, NEW G, NEW S2, NEW G2,
           Link(T, Q, N, M, n, c, S, G, S2, G2), N # <<>>, NEW i \in Conns(T), For(T[i], N[1])
    PROVE  /\ N[1] \in GoodSeg /\ N[1] \in In(N) /\ SegShape(N[1])
           /\ T[i].state # "SYN_SENT" => N[1].inc = T[i].inc \/ N[1].flags = {"SYN"}
           /\ {"SYN", "ACK"} \subseteq N[1].flags => N[1].flags = {"SYN", "ACK"}
           /\ N[1].flags = {"SYN", "ACK"} /\ T[i].state = "SYN_SENT" => N[1].inc = T[i].inc
           /\ "SYN" \in N[1].flags /\ T[i].state = "SYN_RECEIVED" => N[1].flags = {"SYN"}
<1>1. N[1] \in In(N) /\ N[1] \in GoodSeg
  BY InTail, InType DEF Link
<1>2. SegShape(N[1])
  BY <1>1 DEF Link, Shapes
<1>3. T[i].state # "SYN_SENT" => N[1].inc = T[i].inc \/ N[1].flags = {"SYN"}
  BY <1>1 DEF Link, Way, Current
<1>4. {"SYN", "ACK"} \subseteq N[1].flags => N[1].flags = {"SYN", "ACK"}
  BY <1>2 DEF SegShape
<1>5. ASSUME N[1].flags = {"SYN", "ACK"}
      PROVE  N[1].inc = T[i].inc /\ T[i].state # "SYN_RECEIVED"
  <2>1. PICK j \in Conns(T) : T[j].inc = N[1].inc /\ T[j].state \in {"SYN_SENT", "ESTABLISHED", "FIN_WAIT_1"}
    BY <1>1, <1>5 DEF Link, Way, SynsLive, Has
  <2>2. For(T[j], N[1])
    BY <1>1, <2>1 DEF Link, Way, Addressed
  <2>3. i = j
    BY <2>2 DEF For, Link, Way, Distinct
  <2> QED BY <2>1, <2>3
<1>6. "SYN" \in N[1].flags => N[1].flags = {"SYN"} \/ N[1].flags = {"SYN", "ACK"}
  BY <1>2 DEF SegShape
<1> QED BY <1>1, <1>2, <1>3, <1>4, <1>5, <1>6

\* Everything T has sent is acknowledged.
LEMMA LinkAck ==
    ASSUME NEW T, NEW U \in Tables, NEW Q, NEW N, NEW M, NEW n, NEW c,
           NEW S, NEW G, NEW S2, NEW G2, NEW i \in Slots, NEW r \in GoodTcb,
           NoWrap, Link(T, Q, N, M, n, c, S, G, S2, G2), Changed(T, U, i, r), N # <<>>,
           Grown(T[i], r), N[1].inc = T[i].inc, N[1].ack = T[i].nxt,
           r.una = T[i].nxt, r.nxt = T[i].nxt, r.rcv = T[i].rcv, r.sendq = {},
           \/ T[i].state = "ESTABLISHED" /\ r.state = "ESTABLISHED"
           \/ /\ "SYN" \notin N[1].flags
              /\ \/ T[i].state = "SYN_RECEIVED" /\ r.state = "ESTABLISHED"
                 \/ T[i].state = "FIN_WAIT_1" /\ r.state = "FIN_WAIT_2"
    PROVE  Link(U, Q, N, M, n, c, S, G, S2, G2)
<1>1. T \in Tables /\ T[i] \in GoodTcb /\ TcbShape(T[i], n) /\ T[i].inc <= c
  BY DEF Link, Shapes, Tables
<1>2. Way(U, Q, N) /\ Way(Q, U, M)
  <2>1. Covers(T[i]) /\ T[i].una <= T[i].nxt
    BY <1>1, ShapeCovers
  <2> QED BY <1>1, <2>1, AckWay DEF Link
<1>3. TcbShape(r, n)
  <2>1. MSS * n \in Nat /\ r.inc = T[i].inc
    BY Bounds DEF Link, Grown
  <2> QED BY <1>1, <2>1, AckShape
<1>4. Story(U, Q, S, G) /\ Story(Q, U, S2, G2)
  <2>1. r.inc \in 1 .. MaxConnects
    <3>1. i \in Conns(T) /\ r.inc = T[i].inc
      BY DEF Grown, Conns, Unowned
    <3> QED BY <1>1, <3>1, ConnInc
  <2>2. Len(S[r.inc]) \in Nat /\ Len(G[r.inc]) \in Nat
    BY <2>1 DEF Link, Lengths
  <2>3. T[i].state \notin {"CLOSE_WAIT", "CLOSING"}
    OBVIOUS
  <2> QED BY <1>1, <2>2, <2>3, AckStory DEF Link
<1>5. r.inc <= c
  BY <1>1 DEF Grown
<1> QED BY <1>2, <1>3, <1>4, <1>5, LinkPut DEF Link

\* T takes the contents of a segment.
LEMMA LinkTake ==
    ASSUME NEW T, NEW U \in Tables, NEW Q, NEW N, NEW M, NEW n, NEW c,
           NEW S, NEW G, NEW S2, NEW G2, NEW G3, NEW i \in Slots, NEW r \in GoodTcb,
           Link(T, Q, N, M, n, c, S, G, S2, G2), Changed(T, U, i, r), N # <<>>,
           Grown(T[i], r), N[1].inc = T[i].inc, N[1].seq = T[i].rcv, Size(N[1]) > 0,
           "SYN" \notin N[1].flags,
           r.una = T[i].una, r.nxt = T[i].nxt, r.rcv = N[1].seq + Size(N[1]),
           r.sendq = T[i].sendq,
           \/ T[i].state \in {"ESTABLISHED", "FIN_WAIT_2"} /\ r.state = T[i].state
           \/ /\ "FIN" \in N[1].flags
              /\ \/ T[i].state = "ESTABLISHED" /\ r.state = "CLOSE_WAIT"
                 \/ T[i].state = "FIN_WAIT_2" /\ r.state = "TIME_WAIT",
           Lengths(G3), SameBut(G2, G3, r.inc),
           Len(G3[r.inc]) = IF N[1].len > 0 THEN Len(G2[r.inc]) + 1 ELSE Len(G2[r.inc])
    PROVE  /\ Link(U, Q, N, M, n, c, S, G, S2, G3)
           /\ N[1].len > 0 => /\ Len(S2[r.inc]) = Len(G2[r.inc]) + 1
                              /\ S2[r.inc][Len(S2[r.inc])] = N[1].pay
<1>1. T \in Tables /\ T[i] \in GoodTcb /\ TcbShape(T[i], n) /\ T[i].inc <= c
  BY DEF Link, Shapes, Tables
<1>2. Way(U, Q, N) /\ Way(Q, U, M)
  <2>1. Tidy(Q)
    BY DEF Tidy, Link, Shapes, TcbShape
  <2> QED BY <1>1, <2>1, TakeWay DEF Link
<1>3. TcbShape(r, n)
  BY <1>1, TakeShape DEF Grown
<1>4. r.inc \in 1 .. MaxConnects
  <2>1. i \in Conns(T) /\ r.inc = T[i].inc
    BY DEF Grown, Conns, Unowned
  <2> QED BY <1>1, <2>1, ConnInc
<1>5. /\ Story(U, Q, S, G) /\ Story(Q, U, S2, G3)
      /\ N[1].len > 0 => /\ Len(S2[r.inc]) = Len(G2[r.inc]) + 1
                         /\ S2[r.inc][Len(S2[r.inc])] = N[1].pay
  <2>1. Len(S2[r.inc]) \in Nat /\ Len(G2[r.inc]) \in Nat
    BY <1>4 DEF Link, Lengths
  <2>2. Shaped(Q, n)
    BY DEF Link, Shapes, Shaped
  <2>3. r.state \notin {"SYN_SENT", "SYN_RECEIVED"}
    OBVIOUS
  <2>4. /\ Q \in Tables /\ N \in Seq(GoodSeg) /\ M \in Seq(GoodSeg) /\ Way(T, Q, N)
        /\ Way(Q, T, M) /\ Story(T, Q, S, G) /\ Story(Q, T, S2, G2)
    BY DEF Link
  <2> QED BY <1>1, <2>1, <2>2, <2>3, <2>4, TakeStory
<1>6. r.inc <= c
  BY <1>1 DEF Grown
<1>7. Lengths(S)
  BY DEF Link
<1> QED BY <1>2, <1>3, <1>5, <1>6, <1>7, LinkPut DEF Link

LEMMA ZeroShape ==
    ASSUME NoWrap, NEW n \in 0 .. MaxSends, NEW r \in GoodTcb, r.state \in Unowned,
           r.inc = 0, r.una = 0, r.nxt = 0, r.rcv = 0, r.sendq = {}
    PROVE  TcbShape(r, n)
<1>1. MSS * n \in Nat
  BY Bounds
<1> QED BY <1>1 DEF TcbShape, Unowned

\* A slot is filled with a listener, or emptied.
LEMMA LinkClear ==
    ASSUME NEW T, NEW U \in Tables, NEW Q, NEW N, NEW M, NEW n, NEW c,
           NEW S, NEW G, NEW S2, NEW G2, NEW i \in Slots, NEW r \in GoodTcb,
           NoWrap, Link(T, Q, N, M, n, c, S, G, S2, G2), Changed(T, U, i, r),
           \/ T[i].state \in Unowned
           \/ T[i].state = "TIME_WAIT",
           r.state \in Unowned, r.inc = 0, r.una = 0, r.nxt = 0, r.rcv = 0, r.sendq = {}
    PROVE  Link(U, Q, N, M, n, c, S, G, S2, G2)
<1>1. TcbShape(r, n) /\ r.inc <= c
  BY ZeroShape DEF Link
<1>2. T \in Tables /\ Q \in Tables /\ Way(T, Q, N) /\ Way(Q, T, M)
  BY DEF Link
<1>3. Way(U, Q, N) /\ Way(Q, U, M)
  <2>1. CASE T[i].state \in Unowned
    BY <1>2, <2>1, ListenWay
  <2>2. CASE T[i].state = "TIME_WAIT"
    <3>1. T[i].sendq = {}
      BY <2>2 DEF Link, Shapes, TcbShape
    <3> QED BY <1>2, <2>2, <3>1, ReleaseWay
  <2> QED BY <2>1, <2>2
<1>4. Story(U, Q, S, G) /\ Story(Q, U, S2, G2)
  BY StoryLess DEF Link
<1>5. Lengths(S) /\ Lengths(G2)
  BY DEF Link
<1> QED BY <1>1, <1>3, <1>4, <1>5, LinkPut

\* The TCB i between an acknowledgement and what is done with it.
LEMMA Between ==
    ASSUME NEW T \in Tables, NEW U, NEW i \in Slots, NEW r, Changed(T, U, i, r),
           NEW m \in GoodTcb
    PROVE  \E V \in Tables : Changed(T, V, i, m) /\ Changed(V, U, i, r) /\ V[i] = m
<1> DEFINE V == [j \in Slots |-> IF j = i THEN m ELSE T[j]]
<1>1. V \in Tables
  BY DEF Tables
<1>2. Changed(T, V, i, m) /\ Changed(V, U, i, r) /\ V[i] = m
  BY DEF Changed
<1> QED BY <1>1, <1>2

\* What an acknowledgement of everything sent makes of a TCB.
LEMMA AckedFull ==
    ASSUME NEW n, NEW t \in GoodTcb, TcbShape(t, n), t.state \notin Unowned
    PROVE  LET m == AckedTo(t, t.nxt)
           IN /\ m \in GoodTcb /\ Grown(t, m) /\ m.state = t.state
              /\ m.una = t.nxt /\ m.nxt = t.nxt /\ m.rcv = t.rcv /\ m.sendq = {}
<1>1. t.nxt \in Seqs /\ t.rcv \in Nat
  BY GoodTcbFields, TcbNats
<1>2. AckedTo(t, t.nxt).sendq = {}
  BY AckedAll
<1> QED BY <1>1, <1>2, AckedToFields DEF Grown

\* The FIN of the second side to close is acknowledged.
LEMMA LinkOver ==
    ASSUME NEW T, NEW U \in Tables, NEW Q, NEW N, NEW M, NEW n, NEW c,
           NEW S, NEW G, NEW S2, NEW G2, NEW i \in Slots,
           NoWrap, Link(T, Q, N, M, n, c, S, G, S2, G2), Changed(T, U, i, Zeroed), N # <<>>,
           T[i].state = "LAST_ACK", N[1].inc = T[i].inc, N[1].ack = T[i].nxt
    PROVE  Link(U, Q, N, M, n, c, S, G, S2, G2)
<1> DEFINE m == AckedTo(T[i], T[i].nxt)
<1>1. /\ T \in Tables /\ T[i] \in GoodTcb /\ TcbShape(T[i], n) /\ T[i].inc <= c
      /\ T[i].state \notin Unowned
  BY DEF Link, Shapes, Tables, Unowned
<1>2. /\ m \in GoodTcb /\ Grown(T[i], m) /\ m.state = T[i].state
      /\ m.una = T[i].nxt /\ m.nxt = T[i].nxt /\ m.rcv = T[i].rcv /\ m.sendq = {}
  BY <1>1, AckedFull
<1> HIDE DEF m
<1>3. PICK V \in Tables : Changed(T, V, i, m) /\ Changed(V, U, i, Zeroed) /\ V[i] = m
  BY <1>1, <1>2, Between
<1>4. Covers(T[i]) /\ T[i].una <= T[i].nxt
  BY <1>1, ShapeCovers
<1>5. Way(V, Q, N) /\ Way(Q, V, M)
  BY <1>1, <1>2, <1>3, <1>4, AckWay DEF Link
<1>6. Zeroed.state \in Unowned /\ Zeroed \in GoodTcb
  BY ZeroedFields DEF Unowned
<1>7. Way(U, Q, N) /\ Way(Q, U, M)
  BY <1>2, <1>3, <1>5, <1>6, ReleaseWay DEF Link
<1>8. Story(V, Q, S, G) /\ Story(Q, V, S2, G2)
  <2>1. m.inc \in 1 .. MaxConnects
    BY <1>1, <1>2, ConnInc DEF Grown, Conns, Unowned
  <2>2. Len(S[m.inc]) \in Nat /\ Len(G[m.inc]) \in Nat
    BY <2>1 DEF Link, Lengths
  <2>3. /\ Q \in Tables /\ N \in Seq(GoodSeg) /\ Way(T, Q, N) /\ Story(T, Q, S, G)
        /\ Story(Q, T, S2, G2) /\ T[i].state \notin {"CLOSE_WAIT", "CLOSING"}
    BY DEF Link
  <2> QED BY <1>1, <1>2, <1>3, <2>2, <2>3, AckStory
<1>9. Story(U, Q, S, G) /\ Story(Q, U, S2, G2)
  BY <1>3, <1>6, <1>8, StoryLess
<1>10. TcbShape(Zeroed, n) /\ Zeroed.inc <= c
  BY <1>6, ZeroedFields, ZeroShape DEF Link
<1>11. Lengths(S) /\ Lengths(G2)
  BY DEF Link
<1> QED BY <1>7, <1>9, <1>10, <1>11, LinkPut

\* An active open takes the SYN-ACK.
LEMMA LinkOpen ==
    ASSUME NEW T, NEW U \in Tables, NEW Q, NEW N, NEW M, NEW n, NEW c,
           NEW S, NEW G, NEW S2, NEW G2, NEW i \in Slots, NEW r \in GoodTcb,
           NoWrap, Link(T, Q, N, M, n, c, S, G, S2, G2), Changed(T, U, i, r), N # <<>>,
           T[i].state = "SYN_SENT", N[1].inc = T[i].inc, N[1].ack = T[i].nxt,
           N[1].flags = {"SYN", "ACK"}, N[1].seq = 0, N[1].len = 0,
           Grown(T[i], r), r.state = "ESTABLISHED",
           r.una = T[i].nxt, r.nxt = T[i].nxt, r.rcv = 1, r.sendq = {}
    PROVE  Link(U, Q, N, M, n, c, S, G, S2, G2)
<1> DEFINE m == AckedTo(T[i], T[i].nxt)
<1>1. /\ T \in Tables /\ T[i] \in GoodTcb /\ TcbShape(T[i], n) /\ T[i].inc <= c
      /\ T[i].state \notin Unowned /\ i \in Conns(T)
  BY DEF Link, Shapes, Tables, Unowned, Conns
<1>2. /\ m \in GoodTcb /\ Grown(T[i], m) /\ m.state = T[i].state
      /\ m.una = T[i].nxt /\ m.nxt = T[i].nxt /\ m.rcv = T[i].rcv /\ m.sendq = {}
  BY <1>1, AckedFull
<1> HIDE DEF m
<1>3. PICK V \in Tables : Changed(T, V, i, m) /\ Changed(V, U, i, r) /\ V[i] = m
  BY <1>1, <1>2, Between
<1>4. Covers(T[i]) /\ T[i].una <= T[i].nxt /\ T[i].rcv = 0 /\ T[i].nxt = 1
  BY <1>1, ShapeCovers DEF TcbShape
<1>5. Way(V, Q, N) /\ Way(Q, V, M)
  BY <1>1, <1>2, <1>3, <1>4, AckWay DEF Link
<1>6. Size(N[1]) = 1
  BY DEF Size
<1>7. Grown(m, r)
  BY <1>2 DEF Grown
<1>8. Way(U, Q, N) /\ Way(Q, U, M)
  <2>1. Tidy(Q)
    BY DEF Tidy, Link, Shapes, TcbShape
  <2>2. Q \in Tables /\ N \in Seq(GoodSeg) /\ M \in Seq(GoodSeg)
    BY DEF Link
  <2>3. /\ N[1].inc = V[i].inc /\ N[1].seq = V[i].rcv /\ Size(N[1]) > 0
        /\ r.rcv = N[1].seq + Size(N[1]) /\ Grown(V[i], r) /\ V[i].state = "SYN_SENT"
        /\ r.una = V[i].una /\ r.nxt = V[i].nxt /\ r.sendq = V[i].sendq
    BY <1>2, <1>3, <1>4, <1>6, <1>7 DEF Grown
  <2> QED BY <1>3, <1>5, <2>1, <2>2, <2>3, OpenWay
<1>9. r.inc \in 1 .. MaxConnects /\ m.inc = r.inc /\ r.inc = T[i].inc
  BY <1>1, <1>2, ConnInc DEF Grown
<1>10. /\ Len(S[r.inc]) \in Nat /\ Len(G[r.inc]) \in Nat
       /\ Len(S2[r.inc]) \in Nat /\ Len(G2[r.inc]) \in Nat
  BY <1>9 DEF Link, Lengths
<1>11. Story(V, Q, S, G) /\ Story(Q, V, S2, G2)
  <2>1. /\ Q \in Tables /\ N \in Seq(GoodSeg) /\ Way(T, Q, N) /\ Story(T, Q, S, G)
        /\ Story(Q, T, S2, G2) /\ T[i].state \notin {"CLOSE_WAIT", "CLOSING"}
    BY DEF Link
  <2> QED BY <1>1, <1>2, <1>3, <1>9, <1>10, <2>1, AckStory
<1>12. Story(U, Q, S, G) /\ Story(Q, U, S2, G2)
  <2>1. Shaped(Q, n) /\ SameBut(G2, G2, r.inc)
    BY DEF Link, Shapes, Shaped, SameBut
  <2>2. Q \in Tables /\ N \in Seq(GoodSeg) /\ M \in Seq(GoodSeg)
    BY DEF Link
  <2>3. Len(G2[r.inc]) = IF N[1].len > 0 THEN Len(G2[r.inc]) + 1 ELSE Len(G2[r.inc])
    OBVIOUS
  <2>4. /\ V[i].inc = T[i].inc /\ N[1].inc = V[i].inc /\ N[1].seq = V[i].rcv
        /\ Size(N[1]) > 0 /\ r.rcv = N[1].seq + Size(N[1]) /\ Grown(V[i], r)
        /\ r.una = V[i].una /\ r.nxt = V[i].nxt /\ r.sendq = V[i].sendq
        /\ r.state \notin {"SYN_SENT", "SYN_RECEIVED"}
    BY <1>2, <1>3, <1>4, <1>6, <1>7, <1>9
  <2> QED BY <1>3, <1>5, <1>10, <1>11, <2>1, <2>2, <2>3, <2>4, TakeStory
<1>13. TcbShape(r, n)
  <2>1. MSS * n \in Nat
    BY Bounds DEF Link
  <2> QED BY <1>1, <1>4, <1>9, <2>1, GoodTcbFields DEF TcbShape, Unowned
<1>14. Lengths(S) /\ Lengths(G2)
  BY DEF Link
<1> QED BY <1>1, <1>8, <1>9, <1>12, <1>13, <1>14, LinkPut

\* A connection is dialled: its TCB, and its SYN.
LEMMA LinkDial ==
    ASSUME NEW T, NEW U \in Tables, NEW Q, NEW N, NEW M, NEW n, NEW c,
           NEW S, NEW G, NEW S2, NEW G2, NEW i \in Slots, NEW r \in GoodTcb, NEW x \in GoodSeg,
           NoWrap, Link(T, Q, N, M, n, c, S, G, S2, G2), Changed(T, U, i, r),
           T[i].state \in Unowned, c < MaxConnects, Free(T, r),
           r.inc = c + 1, r.state = "SYN_SENT", r.una = 0, r.nxt = 1, r.rcv = 0,
           r.sendq = {x}, From(r, x), x.inc = c + 1, x.flags = {"SYN"},
           x.seq = 0, x.ack = 0, x.len = 0,
           Len(S[c + 1]) = 0, Len(G[c + 1]) = 0, Len(S2[c + 1]) = 0, Len(G2[c + 1]) = 0
    PROVE  Link(U, Q, N, M, n, c + 1, S, G, S2, G2) /\ Sendable(r, x)
<1>1. /\ T \in Tables /\ Q \in Tables /\ N \in Seq(GoodSeg) /\ M \in Seq(GoodSeg)
      /\ Way(T, Q, N) /\ Way(Q, T, M) /\ Story(T, Q, S, G) /\ Story(Q, T, S2, G2)
      /\ n \in 0 .. MaxSends /\ c \in Nat /\ c + 1 \in 0 .. MaxConnects /\ c <= c + 1
  BY Sizes DEF Link
<1>2. Link(T, Q, N, M, n, c + 1, S, G, S2, G2)
  BY <1>1, LinkGrow
<1>3. Fresh(T, Q, N, M, r.inc)
  <2>1. \A k \in Nat : k <= c => k # c + 1
    BY <1>1
  <2>2. \A j \in Slots : T[j].inc \in Nat /\ Q[j].inc \in Nat
    BY <1>1, TcbNats DEF Tables
  <2>3. \A s \in In(N) \cup In(M) : s.inc \in Nat
    BY <1>1, InType, SegNats
  <2> QED BY <2>1, <2>2, <2>3 DEF Fresh, Link, Shapes, Conns
<1>4. Size(x) = 1 /\ SegShape(x)
  <2>1. Size(x) = 1
    BY DEF Size
  <2> QED BY <1>1, <2>1, Sizes DEF SegShape
<1>5. Sendable(r, x)
  BY <1>4 DEF Sendable
<1>6. TcbShape(r, n)
  <2>1. MSS * n \in Nat
    BY <1>1, Bounds
  <2>2. Queued(r, x)
    BY <1>4 DEF Queued
  <2> QED BY <1>1, <2>1, <2>2 DEF TcbShape
<1>7. Way(U, Q, N) /\ Way(Q, U, M)
  BY <1>1, <1>3, ConnectWay
<1>8. Story(U, Q, S, G) /\ Story(Q, U, S2, G2)
  <2>1. r.state \notin Unowned /\ \A s \in r.sendq : s.len = 0
    BY DEF Unowned
  <2> QED BY <1>1, <1>3, <2>1, ConnectStory
<1>9. Lengths(S) /\ Lengths(G2) /\ r.inc <= c + 1
  BY <1>1 DEF Link
<1> QED BY <1>2, <1>5, <1>6, <1>7, <1>8, <1>9, LinkPut

\* A SYN reaches a listener: the child, and its SYN-ACK.
LEMMA LinkAccept ==
    ASSUME NEW T, NEW U \in Tables, NEW Q, NEW N, NEW M, NEW n, NEW c,
           NEW S, NEW G, NEW S2, NEW G2, NEW i \in Slots, NEW r \in GoodTcb, NEW x \in GoodSeg,
           NoWrap, Link(T, Q, N, M, n, c, S, G, S2, G2), Changed(T, U, i, r), N # <<>>,
           T[i].state \in Unowned, N[1].flags = {"SYN"}, For(r, N[1]), Free(T, r),
           r.inc = N[1].inc, r.state = "SYN_RECEIVED", r.una = 0, r.nxt = 1, r.rcv = 1,
           r.sendq = {x}, From(r, x), x.inc = r.inc, x.flags = {"SYN", "ACK"},
           x.seq = 0, x.ack = 1, x.len = 0
    PROVE  Link(U, Q, N, M, n, c, S, G, S2, G2) /\ Sendable(r, x)
<1>1. /\ T \in Tables /\ Q \in Tables /\ N \in Seq(GoodSeg) /\ M \in Seq(GoodSeg)
      /\ Way(T, Q, N) /\ Way(Q, T, M) /\ Story(T, Q, S, G) /\ Story(Q, T, S2, G2)
      /\ n \in 0 .. MaxSends /\ N[1] \in In(N)
  BY InTail DEF Link
<1>2. \A s \in In(N) : s.flags = {"SYN"} => s.seq = 0 /\ Size(s) = 1 /\ s.ack = 0
  <2> SUFFICES ASSUME NEW s \in In(N), s.flags = {"SYN"}
               PROVE  s.seq = 0 /\ Size(s) = 1 /\ s.ack = 0
    OBVIOUS
  <2>1. SegShape(s)
    BY DEF Link, Shapes
  <2>2. "ACK" \notin s.flags
    OBVIOUS
  <2>3. s.seq = 0 /\ s.ack = 0
    BY <2>1, <2>2 DEF SegShape
  <2> QED BY <2>3 DEF Size
<1>3. \A j \in Conns(Q) : Q[j].state = "SYN_SENT" =>
         /\ Q[j].nxt = 1 /\ Q[j].rcv = 0
         /\ \A s \in Q[j].sendq : s.ack = 0 /\ s.len = 0
  <2> SUFFICES ASSUME NEW j \in Conns(Q), Q[j].state = "SYN_SENT"
               PROVE  /\ Q[j].nxt = 1 /\ Q[j].rcv = 0
                      /\ \A s \in Q[j].sendq : s.ack = 0 /\ s.len = 0
    OBVIOUS
  <2>1. TcbShape(Q[j], n)
    BY DEF Link, Shapes, Conns
  <2>2. ASSUME NEW s \in Q[j].sendq PROVE s.ack = 0 /\ s.len = 0
    <3>1. SegShape(s) /\ s.flags = {"SYN"}
      BY <2>1, <2>2 DEF TcbShape, Queued
    <3>2. "ACK" \notin s.flags
      BY <3>1
    <3> QED BY <3>1, <3>2 DEF SegShape
  <2> QED BY <2>1, <2>2 DEF TcbShape
<1>4. Only(T, i, r.inc)
  BY <1>1 DEF Only, Way, Addressed, For, Free
<1>5. PICK j \in Conns(Q) : Q[j].inc = r.inc /\ Q[j].state = "SYN_SENT"
  <2>1. ~ Has(T, r.inc, {"SYN_RECEIVED"})
    BY <1>1 DEF Has, Way, Addressed, For, Free
  <2> QED BY <1>1, <2>1 DEF Way, SynsLive, Has
<1>6. Way(U, Q, N) /\ Way(Q, U, M)
  <2>1. \A s \in r.sendq : s.ack = 1
    OBVIOUS
  <2>2. \A l \in Conns(Q) : Q[l].state = "SYN_SENT" =>
           /\ Q[l].nxt = 1 /\ Q[l].rcv = 0
           /\ \A s \in Q[l].sendq : s.ack = 0
    BY <1>3
  <2> QED BY <1>1, <1>2, <2>1, <2>2, AcceptWay
<1>7. r.inc \in 1 .. MaxConnects /\ r.inc <= c
  <2>1. T \in Tables /\ r.inc = Q[j].inc /\ Q[j].inc <= c
    BY <1>5 DEF Link, Shapes, Conns
  <2> QED BY <1>1, <1>5, <2>1, ConnInc
<1>8. Story(U, Q, S, G) /\ Story(Q, U, S2, G2)
  <2>1. /\ Distinct(Q) /\ r.state \notin Unowned
        /\ (\A s \in r.sendq : s.len = 0) /\ (\A s \in Q[j].sendq : s.len = 0)
    BY <1>1, <1>3, <1>5 DEF Way, Unowned
  <2>2. /\ Len(S[r.inc]) \in Nat /\ Len(G[r.inc]) \in Nat
        /\ Len(S2[r.inc]) \in Nat /\ Len(G2[r.inc]) \in Nat
    BY <1>7 DEF Link, Lengths
  <2> QED BY <1>1, <1>4, <1>5, <2>1, <2>2, AcceptStory
<1>9. Size(x) = 1 /\ SegShape(x)
  <2>1. Size(x) = 1
    BY DEF Size
  <2>2. x.inc # 0
    BY DEF GoodSeg, Named
  <2> QED BY <2>1, <2>2, Sizes DEF SegShape
<1>10. Sendable(r, x)
  BY <1>9 DEF Sendable
<1>11. TcbShape(r, n)
  <2>1. MSS * n \in Nat
    BY <1>1, Bounds
  <2>2. Queued(r, x)
    BY <1>9 DEF Queued
  <2>3. r.inc # 0
    BY <1>7
  <2> QED BY <2>1, <2>2, <2>3 DEF TcbShape
<1>12. Lengths(S) /\ Lengths(G2)
  BY DEF Link
<1> QED BY <1>6, <1>7, <1>8, <1>10, <1>11, <1>12, LinkPut

\* t becomes r as it sends data, or its FIN: the n data segments of the link
\* are m, and the payloads a of the connection are b.
Posted(t, r, x, n, m, a, b) ==
    \/ /\ t.state = "ESTABLISHED" /\ r.state = "ESTABLISHED" /\ m = n + 1
       /\ x.flags = {"ACK"} /\ x.len > 0 /\ x.len <= MSS
       /\ Len(b) = Len(a) + 1 /\ b[Len(b)] = x.pay
    \/ /\ m = n /\ x.flags = {"FIN", "ACK"} /\ x.len = 0 /\ b = a
       /\ \/ t.state = "ESTABLISHED" /\ r.state = "FIN_WAIT_1"
          \/ t.state = "CLOSE_WAIT" /\ r.state = "LAST_ACK"

\* Data or a FIN is sent for the first time.
LEMMA LinkPost ==
    ASSUME NEW T, NEW U \in Tables, NEW Q, NEW N, NEW M, NEW n, NEW m \in 0 .. MaxSends, NEW c,
           NEW S, NEW G, NEW S2, NEW G2, NEW S3,
           NEW i \in Slots, NEW r \in GoodTcb, NEW x \in GoodSeg,
           NoWrap, Link(T, Q, N, M, n, c, S, G, S2, G2), Changed(T, U, i, r),
           T[i].sendq = {}, x.inc = T[i].inc, From(T[i], x), x.seq = T[i].nxt, x.ack = T[i].rcv,
           r.inc = T[i].inc, r.una = T[i].una, r.rcv = T[i].rcv, r.sendq = {x},
           r.nxt = SeqEnd(x), r.lport = T[i].lport, r.rport = T[i].rport,
           Posted(T[i], r, x, n, m, S[r.inc], S3[r.inc]),
           Lengths(S3), SameBut(S, S3, r.inc)
    PROVE  Link(U, Q, N, M, m, c, S3, G, S2, G2) /\ Sendable(r, x) /\ T[i].nxt <= r.nxt
<1> USE DEF Posted
<1>1. /\ T \in Tables /\ Q \in Tables /\ N \in Seq(GoodSeg) /\ M \in Seq(GoodSeg)
      /\ Way(T, Q, N) /\ Way(Q, T, M) /\ Story(T, Q, S, G) /\ Story(Q, T, S2, G2)
      /\ n \in 0 .. MaxSends /\ T[i] \in GoodTcb /\ TcbShape(T[i], n) /\ T[i].inc <= c
      /\ c \in 0 .. MaxConnects
  BY DEF Link, Shapes, Tables
<1>2. Link(T, Q, N, M, m, c, S, G, S2, G2)
  <2>1. c <= c /\ (m = n \/ m = n + 1)
    BY <1>1
  <2> QED BY <1>1, <2>1, LinkGrow
<1>3. SegShape(x)
  <2>1. /\ MSS * n \in Nat /\ MSS * n + 2 < SeqSpace /\ MSS * m + 2 < SeqSpace
        /\ MSS * (n + 1) = MSS * n + MSS /\ MSS \in Nat /\ SeqSpace \in Nat
    BY <1>1, Bounds, Sizes
  <2>2. x.len \in Nat /\ x.inc # 0 /\ x.seq \in Nat /\ (x.len > 0 => x.pay # 0)
    BY SegNats DEF GoodSeg, Named
  <2>3. x.seq <= MSS * n + 1
    BY <1>1 DEF TcbShape
  <2>4. CASE x.flags = {"ACK"} /\ m = n + 1 /\ x.len <= MSS
    <3>1. Size(x) = x.len
      <4>1. "SYN" \notin x.flags /\ "FIN" \notin x.flags
        BY <2>4
      <4> QED BY <4>1 DEF Size
    <3>2. x.seq + Size(x) < SeqSpace
      <4> DEFINE b1 == MSS * n
                 b2 == MSS * m
      <4>1. b1 \in Nat /\ b2 + 2 < SeqSpace /\ b2 = b1 + MSS
        BY <2>1, <2>4
      <4>2. x.seq <= b1 + 1 /\ x.len <= MSS
        BY <2>3, <2>4
      <4> HIDE DEF b1, b2
      <4>3. x.seq \in Nat /\ x.len \in Nat /\ MSS \in Nat /\ SeqSpace \in Nat
        BY <2>1, <2>2
      <4>4. x.seq + x.len < SeqSpace
        BY <4>1, <4>2, <4>3
      <4> QED BY <3>1, <4>4
    <3> QED BY <2>2, <2>4, <3>2 DEF SegShape
  <2>5. CASE x.flags = {"FIN", "ACK"} /\ x.len = 0
    <3>1. Size(x) = 1
      BY <2>5 DEF Size
    <3>2. x.seq + Size(x) < SeqSpace
      BY <2>1, <2>2, <2>3, <3>1
    <3> QED BY <2>2, <2>5, <3>2 DEF SegShape
  <2> QED BY <2>4, <2>5
<1>4. TcbShape(r, m) /\ Sendable(r, x) /\ T[i].nxt <= r.nxt
  BY <1>1, <1>3, PostShape
<1>5. T[i].una = T[i].nxt /\ T[i].state \notin Unowned /\ r.state \notin Unowned
  BY <1>1 DEF TcbShape, Unowned
<1>6. Grown(T[i], r)
  <2>1. T[i].rcv \in Nat
    BY <1>1, TcbNats
  <2> QED BY <1>5, <2>1 DEF Grown
<1>7. Way(U, Q, N) /\ Way(Q, U, M)
  BY <1>1, <1>5, <1>6, PostWay
<1>8. i \in Conns(T) /\ r.inc \in 1 .. MaxConnects
  BY <1>1, <1>5, ConnInc DEF Conns, Unowned
<1>9. T[i].nxt < r.nxt
  <2>1. SeqEnd(x) = x.seq + Size(x) /\ x.seq \in Nat /\ Size(x) \in Nat /\ x.len \in Nat
    BY <1>3, SegEnd, SegNats
  <2>2. Size(x) > 0
    <3>1. x.len > 0 \/ "FIN" \in x.flags
      OBVIOUS
    <3> QED BY <2>1, <3>1 DEF Size
  <2> QED BY <2>1, <2>2
<1>10. Story(U, Q, S3, G) /\ Story(Q, U, S2, G2)
  <2>1. Len(S[r.inc]) \in Nat /\ Len(G[r.inc]) \in Nat
    BY <1>8 DEF Link, Lengths
  <2>2. /\ T[i].state \in {"ESTABLISHED", "CLOSE_WAIT"}
        /\ r.state \notin {"SYN_SENT", "SYN_RECEIVED"}
    OBVIOUS
  <2>3. \/ x.len = 0 /\ S3[r.inc] = S[r.inc]
        \/ /\ x.len # 0 /\ Len(S3[r.inc]) = Len(S[r.inc]) + 1
           /\ S3[r.inc][Len(S3[r.inc])] = x.pay
    OBVIOUS
  <2> QED BY <1>1, <1>5, <1>6, <1>9, <2>1, <2>2, <2>3, PostStory
<1>11. Lengths(G2) /\ r.inc <= c
  BY <1>1 DEF Link
<1> QED BY <1>2, <1>4, <1>7, <1>10, <1>11, LinkPut

-----------------------------------------------------------------------------
(***************************************************************************)
(* The invariant of every link, and the steps of its ends.                 *)
(***************************************************************************)
Linked(h) ==
    Link(tcbs[h], tcbs[Peer[h]], net[h], net[Peer[h]], sends, conns,
         By(sent, h), By(got, Peer[h]), By(sent, Peer[h]), By(got, h))
LinkInv == \A h \in Hosts : Linked(h)

\* The numbers of a connection do not go back.
Advance(t, r) ==
    t.inc # 0 /\ r.inc = t.inc => t.una <= r.una /\ t.nxt <= r.nxt /\ t.rcv <= r.rcv
Advances == \A h \in Hosts, i \in Slots : Advance(tcbs[h][i], tcbs'[h][i])

LEMMA LinkFlip ==
    ASSUME NEW T, NEW Q, NEW N, NEW M, NEW n, NEW c, NEW S, NEW G, NEW S2, NEW G2,
           Link(T, Q, N, M, n, c, S, G, S2, G2)
    PROVE  Link(Q, T, M, N, n, c, S2, G2, S, G)
BY DEF Link

LEMMA PutChanged ==
    ASSUME TcbsInv, NEW h \in Hosts, NEW i \in Slots, NEW r \in GoodTcb, Put(h, i, r)
    PROVE  /\ Changed(tcbs[h], tcbs'[h], i, r) /\ tcbs'[h] \in Tables /\ tcbs'[h][i] = r
           /\ \A g \in Hosts : g # h => tcbs'[g] = tcbs[g]
           /\ Advance(tcbs[h][i], r) => Advances
<1>1. tcbs' = [tcbs EXCEPT ![h] = [tcbs[h] EXCEPT ![i] = r]]
  BY DEF Put
<1>2. [tcbs[h] EXCEPT ![i] = r] \in Tables
  BY DEF TcbsInv, Tables
<1>3. /\ tcbs'[h] = [tcbs[h] EXCEPT ![i] = r]
      /\ \A g \in Hosts : g # h => tcbs'[g] = tcbs[g]
  BY <1>1 DEF TcbsInv
<1>4. Changed(tcbs[h], tcbs'[h], i, r) /\ tcbs'[h][i] = r
  BY <1>3 DEF Changed, TcbsInv
<1>5. ASSUME Advance(tcbs[h][i], r) PROVE Advances
  <2> SUFFICES ASSUME NEW g \in Hosts, NEW j \in Slots
               PROVE  Advance(tcbs[g][j], tcbs'[g][j])
    BY DEF Advances
  <2>1. CASE g = h /\ j = i
    BY <1>4, <1>5, <2>1
  <2>2. CASE ~ (g = h /\ j = i)
    <3>1. tcbs'[g][j] = tcbs[g][j]
      BY <1>3, <1>4, <2>2 DEF Changed
    <3>2. tcbs[g][j] \in GoodTcb
      BY DEF TcbsInv
    <3> QED BY <3>1, <3>2, TcbNats DEF Advance
  <2> QED BY <2>1, <2>2
<1> QED BY <1>2, <1>3, <1>4, <1>5

LEMMA NoChange ==
    ASSUME TcbsInv, UNCHANGED tcbs
    PROVE  Advances
<1> SUFFICES ASSUME NEW g \in Hosts, NEW j \in Slots
             PROVE  Advance(tcbs[g][j], tcbs'[g][j])
  BY DEF Advances
<1>1. tcbs[g][j] \in GoodTcb /\ tcbs'[g][j] = tcbs[g][j]
  BY DEF TcbsInv
<1> QED BY <1>1, TcbNats DEF Advance

\* A step of one link leaves the others alone.
Apart(g) ==
    /\ tcbs'[g] = tcbs[g] /\ net'[g] = net[g]
    /\ By(sent', g) = By(sent, g) /\ By(got', g) = By(got, g)

LEMMA LinksStep ==
    ASSUME NoWrap, LinkInv, TypeInv', NEW h \in Hosts, Linked(h)',
           \A g \in Hosts : g # h /\ g # Peer[h] => Apart(g),
           sends' = sends \/ sends' = sends + 1, conns' = conns \/ conns' = conns + 1
    PROVE  LinkInv'
<1> SUFFICES ASSUME NEW g \in Hosts PROVE Linked(g)'
  BY DEF LinkInv
<1>1. Peer[g] \in Hosts /\ Peer[Peer[g]] = g /\ Peer[Peer[h]] = h /\ Peer[h] \in Hosts
  BY PeerIsHost
<1>2. CASE g = h
  BY <1>2
<1>3. CASE g = Peer[h]
  <2>1. Peer[g] = h
    BY <1>1, <1>3
  <2>2. Link(tcbs'[h], tcbs'[g], net'[h], net'[g], sends', conns',
             By(sent', h), By(got', g), By(sent', g), By(got', h))
    BY <1>3 DEF Linked, By
  <2>3. Link(tcbs'[g], tcbs'[h], net'[g], net'[h], sends', conns',
             By(sent', g), By(got', h), By(sent', h), By(got', g))
    BY <2>2, LinkFlip
  <2> QED BY <2>1, <2>3 DEF Linked, By
<1>4. CASE g # h /\ g # Peer[h]
  <2>1. Peer[g] # h /\ Peer[g] # Peer[h]
    BY <1>1, <1>4
  <2>2. Apart(g) /\ Apart(Peer[g])
    BY <1>1, <1>4, <2>1
  <2>3. Link(tcbs[g], tcbs[Peer[g]], net[g], net[Peer[g]], sends, conns,
             By(sent, g), By(got, Peer[g]), By(sent, Peer[g]), By(got, g))
    BY DEF LinkInv, Linked
  <2>4. sends' \in 0 .. MaxSends /\ conns' \in 0 .. MaxConnects
    BY DEF TypeInv, BoundInv
  <2>5. conns <= conns'
    <3>1. conns \in Nat
      BY <2>3, Sizes DEF Link
    <3> QED BY <3>1
  <2>6. Link(tcbs[g], tcbs[Peer[g]], net[g], net[Peer[g]], sends', conns',
             By(sent, g), By(got, Peer[g]), By(sent, Peer[g]), By(got, g))
    BY <2>3, <2>4, <2>5, LinkGrow
  <2>7. Link(tcbs'[g], tcbs'[Peer[g]], net'[g], net'[Peer[g]], sends', conns',
             By(sent', g), By(got', Peer[g]), By(sent', Peer[g]), By(got', g))
    BY <2>2, <2>6 DEF Apart
  <2> QED BY <2>7 DEF Linked, By
<1> QED BY <1>2, <1>3, <1>4

\* What is on the way after h has sent x, or has taken a segment.
LEMMA Sending ==
    ASSUME NetInv, NEW h \in Hosts, NEW x \in GoodSeg, Transmit(h, x),
           NEW U, NEW Q, NEW n, NEW c, NEW S, NEW G, NEW S2, NEW G2,
           Link(U, Q, net[h], net[Peer[h]], n, c, S, G, S2, G2),
           NEW i \in Conns(U), Sendable(U[i], x)
    PROVE  /\ Link(U, Q, net'[h], net'[Peer[h]], n, c, S, G, S2, G2)
           /\ \A g \in Hosts : g # h /\ g # Peer[h] => net'[g] = net[g]
<1>1. Peer[h] \in Hosts /\ Peer[h] # h
  BY PeerIsHost
<1>2. /\ net'[h] = net[h] /\ net'[Peer[h]] = Append(net[Peer[h]], x)
      /\ \A g \in Hosts : g # h /\ g # Peer[h] => net'[g] = net[g]
  BY <1>1 DEF NetInv, Transmit
<1>3. Link(U, Q, net[h], Append(net[Peer[h]], x), n, c, S, G, S2, G2)
  BY LinkSend
<1> QED BY <1>2, <1>3

LEMMA Consuming ==
    ASSUME NetInv, NEW h \in Hosts, net[h] # <<>>, Consume(h),
           NEW U, NEW Q, NEW n, NEW c, NEW S, NEW G, NEW S2, NEW G2,
           Link(U, Q, net[h], net[Peer[h]], n, c, S, G, S2, G2)
    PROVE  /\ Link(U, Q, net'[h], net'[Peer[h]], n, c, S, G, S2, G2)
           /\ \A g \in Hosts : g # h /\ g # Peer[h] => net'[g] = net[g]
<1>1. Peer[h] \in Hosts /\ Peer[h] # h
  BY PeerIsHost
<1>2. /\ net'[h] = Tail(net[h]) /\ net'[Peer[h]] = net[Peer[h]]
      /\ \A g \in Hosts : g # h /\ g # Peer[h] => net'[g] = net[g]
  BY <1>1 DEF NetInv, Consume
<1>3. Link(U, Q, Tail(net[h]), net[Peer[h]], n, c, S, G, S2, G2)
  BY LinkDrop
<1> QED BY <1>2, <1>3

LEMMA Answering ==
    ASSUME NetInv, NEW h \in Hosts, net[h] # <<>>, NEW x \in GoodSeg, AnswerOrFail(h, x),
           NEW U, NEW Q, NEW n, NEW c, NEW S, NEW G, NEW S2, NEW G2,
           Link(U, Q, net[h], net[Peer[h]], n, c, S, G, S2, G2),
           NEW i \in Conns(U), Sendable(U[i], x)
    PROVE  /\ Link(U, Q, net'[h], net'[Peer[h]], n, c, S, G, S2, G2)
           /\ \A g \in Hosts : g # h /\ g # Peer[h] => net'[g] = net[g]
<1>1. Peer[h] \in Hosts /\ Peer[h] # h
  BY PeerIsHost
<1>2. CASE ~up
  BY <1>2, Consuming DEF AnswerOrFail, Consume
<1>3. CASE up
  <2>1. net' = [net EXCEPT ![h] = Tail(net[h]), ![Peer[h]] = Append(net[Peer[h]], x)]
    BY <1>1, <1>3 DEF NetInv, AnswerOrFail
  <2>2. /\ net'[h] = Tail(net[h]) /\ net'[Peer[h]] = Append(net[Peer[h]], x)
        /\ \A g \in Hosts : g # h /\ g # Peer[h] => net'[g] = net[g]
    BY <1>1, <2>1 DEF NetInv
  <2>3. Link(U, Q, Tail(net[h]), net[Peer[h]], n, c, S, G, S2, G2)
    BY LinkDrop
  <2>4. Link(U, Q, Tail(net[h]), Append(net[Peer[h]], x), n, c, S, G, S2, G2)
    BY <2>3, LinkSend
  <2> QED BY <2>2, <2>4
<1> QED BY <1>2, <1>3

\* The link of h with its tables and histories as given.
Pair(h, U, Gx) ==
    Link(U, tcbs[Peer[h]], net[h], net[Peer[h]], sends, conns,
         By(sent, h), By(got, Peer[h]), By(sent, Peer[h]), Gx)

\* A segment for h is taken, and perhaps answered, by a branch that leaves
\* TCB i as r.
Replied(h, r) ==
    \/ Consume(h)
    \/ \E x \in GoodSeg : AnswerOrFail(h, x) /\ r.state \notin Unowned /\ Sendable(r, x)

LEMMA TakenStep ==
    ASSUME NoWrap, TypeInv, TypeInv', LinkInv, NEW h \in Hosts, net[h] # <<>>,
           NEW i \in Slots, NEW r \in GoodTcb, Put(h, i, r), Advance(tcbs[h][i], r),
           UNCHANGED <<sends, conns, sent>>, \A g \in Hosts : g # h => By(got', g) = By(got, g),
           Pair(h, tcbs'[h], By(got', h)), Replied(h, r)
    PROVE  LinkInv' /\ Advances
<1>1. /\ TcbsInv /\ NetInv /\ Peer[h] \in Hosts /\ Peer[h] # h
  BY PeerIsHost DEF TypeInv
<1>2. /\ tcbs'[h][i] = r /\ Advances /\ \A g \in Hosts : g # h => tcbs'[g] = tcbs[g]
  BY <1>1, PutChanged
<1>3. Link(tcbs'[h], tcbs[Peer[h]], net[h], net[Peer[h]], sends, conns,
           By(sent, h), By(got, Peer[h]), By(sent, Peer[h]), By(got', h))
  BY DEF Pair
<1>4. /\ Link(tcbs'[h], tcbs[Peer[h]], net'[h], net'[Peer[h]], sends, conns,
              By(sent, h), By(got, Peer[h]), By(sent, Peer[h]), By(got', h))
      /\ \A g \in Hosts : g # h /\ g # Peer[h] => net'[g] = net[g]
  <2>1. CASE Consume(h)
    BY <1>1, <1>3, <2>1, Consuming
  <2>2. CASE \E x \in GoodSeg : AnswerOrFail(h, x) /\ r.state \notin Unowned /\ Sendable(r, x)
    <3>1. PICK x \in GoodSeg : AnswerOrFail(h, x) /\ r.state \notin Unowned /\ Sendable(r, x)
      BY <2>2
    <3>2. i \in Conns(tcbs'[h])
      BY <1>2, <3>1 DEF Conns, Unowned
    <3> QED BY <1>1, <1>2, <1>3, <3>1, <3>2, Answering
  <2> QED BY <2>1, <2>2 DEF Replied
<1>5. Linked(h)'
  <2>1. Link(tcbs'[h], tcbs'[Peer[h]], net'[h], net'[Peer[h]], sends', conns',
             By(sent', h), By(got', Peer[h]), By(sent', Peer[h]), By(got', h))
    BY <1>1, <1>2, <1>4
  <2> QED BY <2>1 DEF Linked, By
<1>6. \A g \in Hosts : g # h /\ g # Peer[h] => Apart(g)
  BY <1>2, <1>4 DEF Apart
<1> QED BY <1>2, <1>5, <1>6, LinksStep

\* What the flags of a segment say to the TCB that takes it.
Expected(t, s) ==
    /\ t.state # "SYN_SENT" => s.inc = t.inc \/ s.flags = {"SYN"}
    /\ {"SYN", "ACK"} \subseteq s.flags => s.flags = {"SYN", "ACK"}
    /\ s.flags = {"SYN", "ACK"} /\ t.state = "SYN_SENT" => s.inc = t.inc
    /\ "SYN" \in s.flags /\ t.state = "SYN_RECEIVED" => s.flags = {"SYN"}

\* A segment and the TCB in slot i of h that takes it.
Met(h, i, t, s) ==
    /\ t \in GoodTcb /\ TcbShape(t, sends) /\ t.inc # 0
    /\ i \in Conns(tcbs[h]) /\ tcbs[h] \in Tables
    /\ Pair(h, tcbs[h], By(got, h)) /\ s = net[h][1] /\ net[h] \in Seq(GoodSeg)
    /\ s \in GoodSeg /\ SegShape(s) /\ Expected(t, s)
    /\ s.inc = t.inc /\ s.ack > t.una => s.ack = t.nxt

\* The TCB that takes a segment.
LEMMA Matching ==
    ASSUME TypeInv, LinkInv, NEW h \in Hosts, net[h] # <<>>, NEW i \in Slots,
           tcbs[h][i].state \notin Unowned, NEW s, s = Head(net[h]), For(tcbs[h][i], s)
    PROVE  Met(h, i, tcbs[h][i], s)
<1> DEFINE t == tcbs[h][i]
<1>1. Pair(h, tcbs[h], By(got, h))
  BY DEF LinkInv, Linked, Pair
<1>2. /\ tcbs[h] \in Tables /\ net[h] \in Seq(GoodSeg) /\ t \in GoodTcb /\ TcbShape(t, sends)
      /\ i \in Conns(tcbs[h]) /\ t.inc # 0 /\ s = net[h][1]
  <2>1. tcbs[h] \in Tables /\ net[h] \in Seq(GoodSeg) /\ TcbShape(t, sends)
    BY <1>1 DEF Pair, Link, Shapes
  <2>2. t \in GoodTcb /\ i \in Conns(tcbs[h]) /\ s = net[h][1]
    BY <2>1, InTail DEF Tables, Conns, Unowned
  <2> QED BY <2>1, <2>2, GoodTcbFields
<1>3. /\ s \in GoodSeg /\ s \in In(net[h]) /\ SegShape(s)
      /\ t.state # "SYN_SENT" => s.inc = t.inc \/ s.flags = {"SYN"}
      /\ {"SYN", "ACK"} \subseteq s.flags => s.flags = {"SYN", "ACK"}
      /\ s.flags = {"SYN", "ACK"} /\ t.state = "SYN_SENT" => s.inc = t.inc
      /\ "SYN" \in s.flags /\ t.state = "SYN_RECEIVED" => s.flags = {"SYN"}
  <2> HIDE DEF t
  <2>1. Link(tcbs[h], tcbs[Peer[h]], net[h], net[Peer[h]], sends, conns,
             By(sent, h), By(got, Peer[h]), By(sent, Peer[h]), By(got, h))
    BY <1>1 DEF Pair
  <2> QED BY <1>2, <2>1, HeadOf DEF t
<1>4. s.inc = t.inc /\ s.ack > t.una => s.ack = t.nxt
  <2>1. Numbers(tcbs[h], tcbs[Peer[h]], net[h])
    BY <1>1 DEF Pair, Link, Way
  <2>2. s.inc = t.inc => s.ack <= t.una \/ s.ack = t.nxt
    BY <1>2, <1>3, <2>1 DEF Numbers
  <2>3. s.ack \in Nat /\ t.una \in Nat
    BY <1>2, <1>3, SegNats, TcbNats
  <2> QED BY <2>2, <2>3
<1> HIDE DEF t
<1>5. Expected(t, s)
  BY <1>3 DEF Expected
<1> QED BY <1>1, <1>2, <1>3, <1>4, <1>5 DEF Met, t

LEMMA GrownAdvance ==
    ASSUME NEW t, NEW r, Grown(t, r), t.una <= r.una, t.nxt <= r.nxt
    PROVE  Advance(t, r)
BY DEF Grown, Advance

\* Nothing is consumed: the TCB is left as r, and perhaps an ACK is sent.
LEMMA QuietStep ==
    ASSUME NoWrap, TypeInv, TypeInv', LinkInv, NEW h \in Hosts, net[h] # <<>>,
           NEW i \in Slots, NEW r \in GoodTcb, Put(h, i, r), Advance(tcbs[h][i], r),
           UNCHANGED <<sends, conns, sent, got>>, Pair(h, tcbs'[h], By(got, h)),
           \/ Consume(h)
           \/ /\ AnswerOrFail(h, PureAck(r))
              /\ r.state \notin Unowned /\ r.state \notin {"SYN_SENT", "SYN_RECEIVED"}
    PROVE  LinkInv' /\ Advances
<1>1. Replied(h, r)
  <2>1. CASE Consume(h)
    BY <2>1 DEF Replied
  <2>2. CASE /\ AnswerOrFail(h, PureAck(r))
             /\ r.state \notin Unowned /\ r.state \notin {"SYN_SENT", "SYN_RECEIVED"}
    <3>1. TcbShape(tcbs'[h][i], sends) /\ sends \in 0 .. MaxSends
      BY DEF Pair, Link, Shapes
    <3>2. tcbs'[h][i] = r
      BY PutChanged DEF TypeInv
    <3>3. PureAck(r) \in GoodSeg /\ Sendable(r, PureAck(r))
      BY <2>2, <3>1, <3>2, AckSendable
    <3> QED BY <2>2, <3>3 DEF Replied
  <2> QED BY <2>1, <2>2
<1>2. By(got', h) = By(got, h) /\ \A g \in Hosts : g # h => By(got', g) = By(got, g)
  OBVIOUS
<1>3. Pair(h, tcbs'[h], By(got', h))
  BY <1>2
<1> QED BY <1>1, <1>2, <1>3, TakenStep

\* The same ports and numbers give the same ACK.
LEMMA SameAck ==
    ASSUME NEW t, NEW r, r.lport = t.lport, r.rport = t.rport, r.nxt = t.nxt,
           r.rcv = t.rcv, r.inc = t.inc
    PROVE  PureAck(r) = PureAck(t)
BY DEF PureAck, Seg

LEMMA OpenedAll ==
    ASSUME NEW n, NEW t \in GoodTcb, TcbShape(t, n), t.inc # 0, NEW s \in GoodSeg, s.ack = t.nxt
    PROVE  /\ Opened(t, s) \in GoodTcb /\ Opened(t, s).state = "ESTABLISHED"
           /\ Opened(t, s).inc = t.inc /\ Opened(t, s).lport = t.lport
           /\ Opened(t, s).rport = t.rport /\ Opened(t, s).una = t.nxt
           /\ Opened(t, s).rcv = t.rcv /\ Opened(t, s).nxt = t.nxt /\ Opened(t, s).sendq = {}
<1>1. AckedTo(t, t.nxt).sendq = {} /\ t.nxt \in Seqs
  BY AckedAll, GoodTcbFields
<1>2. {q \in t.sendq : s.ack < SeqEnd(q)} = {}
  BY <1>1, AckedToFields
<1> QED BY <1>2, OpenedFields

\* The acknowledgement field of a segment for an open connection.
LEMMA FieldStep ==
    ASSUME NoWrap, TypeInv, LinkInv, NEW h \in Hosts, net[h] # <<>>, NEW i \in Slots,
           tcbs[h][i].state = "ESTABLISHED", NEW s, s = Head(net[h]), For(tcbs[h][i], s)
    PROVE  LET t == tcbs[h][i]
               f == AckField(t, s)
           IN /\ f \in GoodTcb /\ Grown(t, f) /\ Advance(t, f)
              /\ f.state = t.state /\ f.nxt = t.nxt /\ f.rcv = t.rcv /\ t.una <= f.una
              /\ \A V \in Tables : Changed(tcbs[h], V, i, f) => Pair(h, V, By(got, h))
<1> DEFINE t == tcbs[h][i]
           f == AckField(t, s)
<1>1. /\ t \in GoodTcb /\ TcbShape(t, sends) /\ t.inc # 0 /\ t.state \notin Unowned
      /\ i \in Conns(tcbs[h]) /\ tcbs[h] \in Tables
      /\ Pair(h, tcbs[h], By(got, h)) /\ s = net[h][1]
      /\ s \in GoodSeg /\ (s.inc = t.inc \/ s.flags = {"SYN"})
      /\ s.inc = t.inc /\ s.ack > t.una => s.ack = t.nxt
  <2>1. t.state \notin Unowned /\ t.state # "SYN_SENT"
    BY DEF Unowned
  <2>2. Met(h, i, t, s)
    BY <2>1, Matching
  <2> QED BY <2>1, <2>2 DEF Met, Expected
<1>2. t.una \in Nat /\ t.nxt \in Nat /\ t.rcv \in Nat /\ t.una <= t.nxt
  BY <1>1, TcbNats DEF TcbShape
<1>3. CASE "ACK" \in s.flags /\ s.ack > t.una /\ s.ack <= t.nxt
  <2>1. s.inc = t.inc
    BY <1>1, <1>3
  <2>2. s.ack = t.nxt /\ f = AckedTo(t, t.nxt)
    BY <1>1, <1>3, <2>1 DEF AckField
  <2>3. /\ f \in GoodTcb /\ Grown(t, f) /\ f.state = t.state
        /\ f.una = t.nxt /\ f.nxt = t.nxt /\ f.rcv = t.rcv /\ f.sendq = {}
    BY <1>1, <2>2, AckedFull
  <2>4. Advance(t, f) /\ t.una <= f.una
    BY <1>2, <2>3, GrownAdvance
  <2>5. ASSUME NEW V \in Tables, Changed(tcbs[h], V, i, f)
        PROVE  Pair(h, V, By(got, h))
    <3> HIDE DEF f
    <3>1. /\ Link(tcbs[h], tcbs[Peer[h]], net[h], net[Peer[h]], sends, conns,
                  By(sent, h), By(got, Peer[h]), By(sent, Peer[h]), By(got, h))
      BY <1>1 DEF Pair
    <3>2. /\ net[h][1].inc = tcbs[h][i].inc /\ net[h][1].ack = tcbs[h][i].nxt
          /\ f.state = "ESTABLISHED"
      BY <1>1, <2>1, <2>2, <2>3
    <3> QED BY <2>3, <2>5, <3>1, <3>2, LinkAck DEF Pair
  <2> HIDE DEF t, f
  <2> QED BY <2>3, <2>4, <2>5 DEF t, f
<1>4. CASE ~ ("ACK" \in s.flags /\ s.ack > t.una /\ s.ack <= t.nxt)
  <2>1. f = t
    BY <1>4 DEF AckField
  <2>2. Grown(t, t) /\ Advance(t, t)
    BY <1>1, <1>2 DEF Grown, Advance
  <2>3. ASSUME NEW V \in Tables, Changed(tcbs[h], V, i, f)
        PROVE  Pair(h, V, By(got, h))
    <3>1. V = tcbs[h]
      BY <1>1, <2>1, <2>3 DEF Changed, Tables
    <3> QED BY <1>1, <3>1
  <2> HIDE DEF t, f
  <2> QED BY <1>1, <1>2, <2>1, <2>2, <2>3 DEF t, f
<1> QED BY <1>3, <1>4

\* One lemma for every branch of tcp_receive.
LEMMA SynAckStep ==
    ASSUME NoWrap, TypeInv, TypeInv', LinkInv, NEW h \in Hosts, net[h] # <<>>, NEW i \in Slots,
           NEW s, s = Head(net[h]), For(tcbs[h][i], s), SynAck(h, i, s)
    PROVE  LinkInv' /\ Advances
<1> DEFINE t == tcbs[h][i]
           o == Opened(t, s)
           r == [o EXCEPT !.rcv = Plus(s.seq, 1)]
<1>1. /\ t.state = "SYN_SENT" /\ {"SYN", "ACK"} \subseteq s.flags /\ s.ack = t.nxt
      /\ Put(h, i, r) /\ AnswerOrFail(h, PureAck(r)) /\ UNCHANGED <<sends, conns, sent, got>>
  BY DEF SynAck, AcceptsSynAck, envs, hist
<1>2. /\ t \in GoodTcb /\ TcbShape(t, sends) /\ t.inc # 0 /\ t.state \notin Unowned
      /\ tcbs[h] \in Tables /\ Pair(h, tcbs[h], By(got, h)) /\ s = net[h][1]
      /\ s \in GoodSeg /\ SegShape(s) /\ s.flags = {"SYN", "ACK"} /\ s.inc = t.inc
  <2>1. t.state \notin Unowned
    BY <1>1 DEF Unowned
  <2>2. Met(h, i, t, s)
    BY <2>1, Matching
  <2> QED BY <1>1, <2>1, <2>2 DEF Met, Expected
<1>3. s.seq = 0 /\ s.len = 0 /\ s.ack = 1
  <2>1. "SYN" \in s.flags /\ "ACK" \in s.flags
    BY <1>2
  <2>2. s.flags # {"SYN"} /\ s.flags # {"FIN", "ACK"} /\ s.flags # {"ACK"}
    BY <2>1
  <2> QED BY <1>2, <2>2 DEF SegShape
<1>4. Plus(s.seq, 1) = 1 /\ Plus(s.seq, 1) \in Seqs
  <2>1. s.seq + 1 = 1 /\ 1 < SeqSpace /\ s.seq \in Nat
    BY <1>3, Sizes
  <2> QED BY <1>3, <2>1, PlusSmall, PlusSeqs
<1>5. /\ o \in GoodTcb /\ o.state = "ESTABLISHED" /\ o.inc = t.inc /\ o.lport = t.lport
      /\ o.rport = t.rport /\ o.una = t.nxt /\ o.rcv = t.rcv /\ o.nxt = t.nxt /\ o.sendq = {}
  BY <1>1, <1>2, OpenedAll
<1> HIDE DEF o
<1>6. /\ r \in GoodTcb /\ r.state = "ESTABLISHED" /\ r.inc = t.inc /\ r.lport = t.lport
      /\ r.rport = t.rport /\ r.una = t.nxt /\ r.rcv = 1 /\ r.nxt = t.nxt /\ r.sendq = {}
  BY <1>4, <1>5, RcvFields
<1> HIDE DEF r
<1>7. t.rcv = 0 /\ t.una = 0 /\ t.nxt = 1
  BY <1>1, <1>2 DEF TcbShape
<1>8. Grown(t, r) /\ Advance(t, r)
  <2>1. Grown(t, r)
    BY <1>2, <1>6, <1>7 DEF Grown, Unowned
  <2> QED BY <1>6, <1>7, <2>1, GrownAdvance
<1>9. Changed(tcbs[h], tcbs'[h], i, r) /\ tcbs'[h] \in Tables
  BY <1>1, <1>6, PutChanged DEF TypeInv
<1>10. Pair(h, tcbs'[h], By(got, h))
  <2>1. Link(tcbs[h], tcbs[Peer[h]], net[h], net[Peer[h]], sends, conns,
             By(sent, h), By(got, Peer[h]), By(sent, Peer[h]), By(got, h))
    BY <1>2 DEF Pair
  <2>2. /\ tcbs[h][i].state = "SYN_SENT" /\ net[h][1].inc = tcbs[h][i].inc
        /\ net[h][1].ack = tcbs[h][i].nxt /\ net[h][1].flags = {"SYN", "ACK"}
        /\ net[h][1].seq = 0 /\ net[h][1].len = 0
    BY <1>1, <1>2, <1>3
  <2> QED BY <1>6, <1>8, <1>9, <2>1, <2>2, LinkOpen DEF Pair
<1>11. r.state \notin Unowned /\ r.state \notin {"SYN_SENT", "SYN_RECEIVED"}
  BY <1>6 DEF Unowned
<1> QED BY <1>1, <1>6, <1>8, <1>10, <1>11, QuietStep

LEMMA FinalAckStep ==
    ASSUME NoWrap, TypeInv, TypeInv', LinkInv, NEW h \in Hosts, net[h] # <<>>, NEW i \in Slots,
           NEW s, s = Head(net[h]), For(tcbs[h][i], s), FinalAck(h, i, s)
    PROVE  LinkInv' /\ Advances
<1> DEFINE t == tcbs[h][i]
           r == Opened(t, s)
<1>1. /\ t.state = "SYN_RECEIVED" /\ "ACK" \in s.flags /\ s.ack = t.nxt
      /\ Put(h, i, r) /\ Consume(h) /\ UNCHANGED <<sends, conns, sent, got>>
  BY DEF FinalAck, AcceptsFinalAck, envs, hist
<1>2. /\ t \in GoodTcb /\ TcbShape(t, sends) /\ t.inc # 0 /\ t.state \notin Unowned
      /\ tcbs[h] \in Tables /\ Pair(h, tcbs[h], By(got, h)) /\ s = net[h][1]
      /\ s \in GoodSeg /\ s.inc = t.inc /\ "SYN" \notin s.flags
  <2>1. t.state \notin Unowned /\ s.flags # {"SYN"} /\ t.state # "SYN_SENT"
    BY <1>1 DEF Unowned
  <2>2. Met(h, i, t, s)
    BY <2>1, Matching
  <2> QED BY <1>1, <2>1, <2>2 DEF Met, Expected
<1>3. /\ r \in GoodTcb /\ r.state = "ESTABLISHED" /\ r.inc = t.inc /\ r.lport = t.lport
      /\ r.rport = t.rport /\ r.una = t.nxt /\ r.rcv = t.rcv /\ r.nxt = t.nxt /\ r.sendq = {}
  BY <1>1, <1>2, OpenedAll
<1> HIDE DEF r
<1>4. Grown(t, r) /\ Advance(t, r)
  <2>1. t.una \in Nat /\ t.nxt \in Nat /\ t.rcv \in Nat /\ t.una <= t.nxt
    BY <1>2, TcbNats DEF TcbShape
  <2>2. Grown(t, r)
    BY <1>2, <1>3, <2>1 DEF Grown, Unowned
  <2> QED BY <1>3, <2>1, <2>2, GrownAdvance
<1>5. Changed(tcbs[h], tcbs'[h], i, r) /\ tcbs'[h] \in Tables
  BY <1>1, <1>3, PutChanged DEF TypeInv
<1>6. Pair(h, tcbs'[h], By(got, h))
  <2>1. Link(tcbs[h], tcbs[Peer[h]], net[h], net[Peer[h]], sends, conns,
             By(sent, h), By(got, Peer[h]), By(sent, Peer[h]), By(got, h))
    BY <1>2 DEF Pair
  <2>2. /\ tcbs[h][i].state = "SYN_RECEIVED" /\ net[h][1].inc = tcbs[h][i].inc
        /\ net[h][1].ack = tcbs[h][i].nxt /\ "SYN" \notin net[h][1].flags
    BY <1>1, <1>2
  <2> QED BY <1>3, <1>4, <1>5, <2>1, <2>2, LinkAck DEF Pair
<1> QED BY <1>1, <1>3, <1>4, <1>6, QuietStep

\* Data out of order and pure ACKs: only the acknowledgement field is used.
LEMMA FieldOnlyStep ==
    ASSUME NoWrap, TypeInv, TypeInv', LinkInv, NEW h \in Hosts, net[h] # <<>>, NEW i \in Slots,
           NEW s, s = Head(net[h]), For(tcbs[h][i], s),
           DataOutOfOrder(h, i, s) \/ AckOnly(h, i, s)
    PROVE  LinkInv' /\ Advances
<1> DEFINE t == tcbs[h][i]
           r == AckField(t, s)
<1>1. /\ t.state = "ESTABLISHED" /\ Put(h, i, r)
      /\ Consume(h) \/ AnswerOrFail(h, PureAck(r))
      /\ UNCHANGED <<sends, conns, sent, got>>
  BY DEF DataOutOfOrder, AckOnly, envs, hist
<1>2. /\ r \in GoodTcb /\ Advance(t, r) /\ r.state = t.state
      /\ \A V \in Tables : Changed(tcbs[h], V, i, r) => Pair(h, V, By(got, h))
  BY <1>1, FieldStep
<1> HIDE DEF r
<1>3. Changed(tcbs[h], tcbs'[h], i, r) /\ tcbs'[h] \in Tables
  BY <1>1, <1>2, PutChanged DEF TypeInv
<1>4. Pair(h, tcbs'[h], By(got, h))
  BY <1>2, <1>3
<1>5. r.state \notin Unowned /\ r.state \notin {"SYN_SENT", "SYN_RECEIVED"}
  BY <1>1, <1>2 DEF Unowned
<1> QED BY <1>1, <1>2, <1>4, <1>5, QuietStep

LEMMA OwnFinStep ==
    ASSUME NoWrap, TypeInv, TypeInv', LinkInv, NEW h \in Hosts, net[h] # <<>>, NEW i \in Slots,
           NEW s, s = Head(net[h]), For(tcbs[h][i], s), OwnFinAcked(h, i, s)
    PROVE  LinkInv' /\ Advances
<1> DEFINE t == tcbs[h][i]
           k == AckedTo(t, s.ack)
           r == [k EXCEPT !.state = "FIN_WAIT_2"]
<1>1. /\ t.state \in {"FIN_WAIT_1", "CLOSING"} /\ s.ack > t.una
      /\ "ACK" \in s.flags \/ t.state = "CLOSING"
      /\ Consume(h) /\ UNCHANGED <<sends, conns, sent, got>>
  <2>1. k.state = t.state
    BY DEF AckedTo
  <2> QED BY <2>1 DEF OwnFinAcked, AcceptsFinAck, envs, hist
<1>2. t.state = "FIN_WAIT_1" /\ t.state \notin Unowned
  <2>1. t.state \notin Unowned
    BY <1>1 DEF Unowned
  <2>2. TcbShape(t, sends)
    BY <2>1, Matching DEF Met
  <2> QED BY <1>1, <2>1, <2>2 DEF TcbShape
<1>3. /\ t \in GoodTcb /\ TcbShape(t, sends) /\ t.inc # 0
      /\ tcbs[h] \in Tables /\ Pair(h, tcbs[h], By(got, h)) /\ s = net[h][1]
      /\ s \in GoodSeg /\ SegShape(s) /\ s.inc = t.inc /\ s.ack = t.nxt
      /\ "SYN" \in s.flags => s.flags = {"SYN", "ACK"}
  <2>1. s.flags # {"SYN"} /\ t.state # "SYN_SENT" /\ "ACK" \in s.flags
    BY <1>1, <1>2
  <2>2. "SYN" \in s.flags => {"SYN", "ACK"} \subseteq s.flags
    BY <2>1
  <2>3. Met(h, i, t, s)
    BY <1>2, Matching
  <2> QED BY <1>1, <1>2, <2>1, <2>2, <2>3 DEF Met, Expected
<1>4. t.una \in Nat /\ t.nxt \in Nat /\ t.rcv \in Nat /\ t.una <= t.nxt /\ t.una >= 1
  BY <1>2, <1>3, TcbNats DEF TcbShape
<1>5. "SYN" \notin s.flags
  <2> SUFFICES ASSUME "SYN" \in s.flags PROVE FALSE
    OBVIOUS
  <2>1. "SYN" \in s.flags /\ "ACK" \in s.flags
    BY <1>3
  <2>2. s.flags # {"SYN"} /\ s.flags # {"FIN", "ACK"} /\ s.flags # {"ACK"}
    BY <2>1
  <2>3. s.ack = 1
    BY <1>3, <2>2 DEF SegShape
  <2> QED BY <1>1, <1>4, <2>3
<1>6. /\ k \in GoodTcb /\ Grown(t, k) /\ k.state = t.state /\ k.una = t.nxt
      /\ k.nxt = t.nxt /\ k.rcv = t.rcv /\ k.sendq = {}
  BY <1>2, <1>3, AckedFull
<1>7. Put(h, i, r)
  <2>1. ~ FinQueued(k) /\ k.state # "CLOSING"
    BY <1>2, <1>6 DEF FinQueued
  <2>2. Put(h, i, [k EXCEPT !.state = IF FinQueued(k) THEN k.state
                       ELSE IF k.state = "CLOSING" /\ ~ FinQueued(k) THEN "TIME_WAIT"
                       ELSE "FIN_WAIT_2"])
    BY DEF OwnFinAcked
  <2> HIDE DEF k
  <2> QED BY <2>1, <2>2
<1> HIDE DEF k
<1>8. /\ r \in GoodTcb /\ r.state = "FIN_WAIT_2" /\ r.inc = t.inc /\ r.lport = t.lport
      /\ r.rport = t.rport /\ r.una = t.nxt /\ r.nxt = t.nxt /\ r.rcv = t.rcv /\ r.sendq = {}
  <2>1. k.inc # 0 /\ "FIN_WAIT_2" \in States
    BY <1>3, <1>6 DEF Grown, States
  <2> QED BY <1>6, <2>1, StateFields DEF Grown
<1> HIDE DEF r
<1>9. Grown(t, r) /\ Advance(t, r)
  <2>1. Grown(t, r)
    BY <1>2, <1>4, <1>8 DEF Grown, Unowned
  <2> QED BY <1>4, <1>8, <2>1, GrownAdvance
<1>10. Changed(tcbs[h], tcbs'[h], i, r) /\ tcbs'[h] \in Tables
  BY <1>7, <1>8, PutChanged DEF TypeInv
<1>11. Pair(h, tcbs'[h], By(got, h))
  <2>1. Link(tcbs[h], tcbs[Peer[h]], net[h], net[Peer[h]], sends, conns,
             By(sent, h), By(got, Peer[h]), By(sent, Peer[h]), By(got, h))
    BY <1>3 DEF Pair
  <2>2. /\ tcbs[h][i].state = "FIN_WAIT_1" /\ net[h][1].inc = tcbs[h][i].inc
        /\ net[h][1].ack = tcbs[h][i].nxt /\ "SYN" \notin net[h][1].flags
    BY <1>2, <1>3, <1>5
  <2> QED BY <1>8, <1>9, <1>10, <2>1, <2>2, LinkAck DEF Pair
<1> QED BY <1>1, <1>7, <1>8, <1>9, <1>11, QuietStep

LEMMA LastAckStep ==
    ASSUME NoWrap, TypeInv, TypeInv', LinkInv, NEW h \in Hosts, net[h] # <<>>, NEW i \in Slots,
           NEW s, s = Head(net[h]), For(tcbs[h][i], s), LastAck(h, i, s)
    PROVE  LinkInv' /\ Advances
<1> DEFINE t == tcbs[h][i]
           k == AckedTo(t, s.ack)
<1>1. /\ t.state = "LAST_ACK" /\ s.ack > t.una /\ "ACK" \in s.flags
      /\ Consume(h) /\ UNCHANGED <<sends, conns, sent, got>>
  <2>1. k.state = t.state
    BY DEF AckedTo
  <2> QED BY <2>1 DEF LastAck, AcceptsFinAck, envs, hist
<1>2. /\ t \in GoodTcb /\ TcbShape(t, sends) /\ t.inc # 0 /\ t.state \notin Unowned
      /\ tcbs[h] \in Tables /\ Pair(h, tcbs[h], By(got, h)) /\ s = net[h][1]
      /\ s.inc = t.inc /\ s.ack = t.nxt
  <2>1. t.state \notin Unowned /\ s.flags # {"SYN"} /\ t.state # "SYN_SENT"
    BY <1>1 DEF Unowned
  <2>2. Met(h, i, t, s)
    BY <2>1, Matching
  <2> QED BY <1>1, <2>1, <2>2 DEF Met, Expected
<1>3. Put(h, i, Zeroed)
  <2>1. k.sendq = {}
    BY <1>2, AckedFull
  <2>2. ~ FinQueued(k)
    BY <2>1 DEF FinQueued
  <2> QED BY <2>2 DEF LastAck, ReleaseTcb
<1>4. Zeroed \in GoodTcb /\ Advance(t, Zeroed)
  BY <1>2, ZeroedFields DEF Advance
<1>5. Changed(tcbs[h], tcbs'[h], i, Zeroed) /\ tcbs'[h] \in Tables
  BY <1>3, <1>4, PutChanged DEF TypeInv
<1>6. Pair(h, tcbs'[h], By(got, h))
  <2>1. Link(tcbs[h], tcbs[Peer[h]], net[h], net[Peer[h]], sends, conns,
             By(sent, h), By(got, Peer[h]), By(sent, Peer[h]), By(got, h))
    BY <1>2 DEF Pair
  <2>2. /\ tcbs[h][i].state = "LAST_ACK" /\ net[h][1].inc = tcbs[h][i].inc
        /\ net[h][1].ack = tcbs[h][i].nxt
    BY <1>1, <1>2
  <2> QED BY <1>5, <2>1, <2>2, LinkOver DEF Pair
<1> QED BY <1>1, <1>3, <1>4, <1>6, QuietStep

\* How the state of a TCB that takes a segment moves.
TakeMove(m, r, s) ==
    \/ m.state \in {"ESTABLISHED", "FIN_WAIT_2"} /\ r.state = m.state
    \/ /\ "FIN" \in s.flags
       /\ \/ m.state = "ESTABLISHED" /\ r.state = "CLOSE_WAIT"
          \/ m.state = "FIN_WAIT_2" /\ r.state = "TIME_WAIT"

\* The contents of s are taken by TCB i, which is m after the acknowledgement
\* field and r afterwards.
LEMMA TakeVia ==
    ASSUME NoWrap, TypeInv, NEW h \in Hosts, net[h] # <<>>, NEW i \in Slots,
           NEW s, s = net[h][1], tcbs[h] \in Tables,
           NEW m \in GoodTcb, NEW r \in GoodTcb, Put(h, i, r),
           \A V \in Tables : Changed(tcbs[h], V, i, m) => Pair(h, V, By(got, h)),
           s.inc = m.inc, s.seq = m.rcv, Size(s) > 0, "SYN" \notin s.flags,
           Grown(m, r), r.una = m.una, r.nxt = m.nxt, r.sendq = m.sendq,
           r.rcv = s.seq + Size(s),
           TakeMove(m, r, s),
           NEW Gx, Lengths(Gx), SameBut(By(got, h), Gx, r.inc),
           Len(Gx[r.inc]) = IF s.len > 0 THEN Len(By(got, h)[r.inc]) + 1
                                         ELSE Len(By(got, h)[r.inc])
    PROVE  /\ Pair(h, tcbs'[h], Gx)
           /\ s.len > 0 =>
                 /\ Len(By(sent, Peer[h])[r.inc]) = Len(By(got, h)[r.inc]) + 1
                 /\ By(sent, Peer[h])[r.inc][Len(By(sent, Peer[h])[r.inc])] = s.pay
<1>1. Changed(tcbs[h], tcbs'[h], i, r) /\ tcbs'[h] \in Tables
  BY PutChanged DEF TypeInv
<1>2. PICK V \in Tables : /\ Changed(tcbs[h], V, i, m) /\ Changed(V, tcbs'[h], i, r)
                          /\ V[i] = m
  BY <1>1, Between
<1>3. Link(V, tcbs[Peer[h]], net[h], net[Peer[h]], sends, conns,
           By(sent, h), By(got, Peer[h]), By(sent, Peer[h]), By(got, h))
  BY <1>2 DEF Pair
<1>4. /\ net[h][1].inc = V[i].inc /\ net[h][1].seq = V[i].rcv /\ Size(net[h][1]) > 0
      /\ "SYN" \notin net[h][1].flags /\ Grown(V[i], r)
      /\ r.una = V[i].una /\ r.nxt = V[i].nxt /\ r.sendq = V[i].sendq
      /\ r.rcv = net[h][1].seq + Size(net[h][1])
  BY <1>2
<1>5. \/ V[i].state \in {"ESTABLISHED", "FIN_WAIT_2"} /\ r.state = V[i].state
      \/ /\ "FIN" \in net[h][1].flags
         /\ \/ V[i].state = "ESTABLISHED" /\ r.state = "CLOSE_WAIT"
            \/ V[i].state = "FIN_WAIT_2" /\ r.state = "TIME_WAIT"
  BY <1>2 DEF TakeMove
<1>6. Len(Gx[r.inc]) = IF net[h][1].len > 0 THEN Len(By(got, h)[r.inc]) + 1
                                            ELSE Len(By(got, h)[r.inc])
  OBVIOUS
<1>7. /\ Link(tcbs'[h], tcbs[Peer[h]], net[h], net[Peer[h]], sends, conns,
              By(sent, h), By(got, Peer[h]), By(sent, Peer[h]), Gx)
      /\ net[h][1].len > 0 =>
            /\ Len(By(sent, Peer[h])[r.inc]) = Len(By(got, h)[r.inc]) + 1
            /\ By(sent, Peer[h])[r.inc][Len(By(sent, Peer[h])[r.inc])] = net[h][1].pay
  <2> DEFINE Q  == tcbs[Peer[h]]
             N  == net[h]
             M  == net[Peer[h]]
             S  == By(sent, h)
             G  == By(got, Peer[h])
             S2 == By(sent, Peer[h])
             G2 == By(got, h)
             U  == tcbs'[h]
  <2>1. Link(V, Q, N, M, sends, conns, S, G, S2, G2)
    BY <1>3
  <2>2. Changed(V, U, i, r) /\ U \in Tables /\ N # <<>> /\ SameBut(G2, Gx, r.inc)
    BY <1>1, <1>2
  <2>3. Len(Gx[r.inc]) = IF N[1].len > 0 THEN Len(G2[r.inc]) + 1 ELSE Len(G2[r.inc])
    BY <1>6
  <2>4. /\ N[1].inc = V[i].inc /\ N[1].seq = V[i].rcv /\ Size(N[1]) > 0
        /\ "SYN" \notin N[1].flags /\ r.rcv = N[1].seq + Size(N[1])
    BY <1>4
  <2>5. \/ V[i].state \in {"ESTABLISHED", "FIN_WAIT_2"} /\ r.state = V[i].state
        \/ /\ "FIN" \in N[1].flags
           /\ \/ V[i].state = "ESTABLISHED" /\ r.state = "CLOSE_WAIT"
              \/ V[i].state = "FIN_WAIT_2" /\ r.state = "TIME_WAIT"
    BY <1>5
  <2> SUFFICES /\ Link(U, Q, N, M, sends, conns, S, G, S2, Gx)
               /\ N[1].len > 0 => /\ Len(S2[r.inc]) = Len(G2[r.inc]) + 1
                                  /\ S2[r.inc][Len(S2[r.inc])] = N[1].pay
    OBVIOUS
  <2> HIDE DEF Q, N, M, S, G, S2, G2, U
  <2> QED BY <1>4, <2>1, <2>2, <2>3, <2>4, <2>5, LinkTake
<1> QED BY <1>7 DEF Pair

\* The number after the contents of a segment.
LEMMA TakenNumber ==
    ASSUME NEW s \in GoodSeg, SegShape(s)
    PROVE  /\ Plus(s.seq, Size(s)) = s.seq + Size(s)
           /\ "FIN" \in s.flags => Size(s) = 1 /\ s.len = 0 /\ "SYN" \notin s.flags
           /\ s.len > 0 => /\ Size(s) = s.len
                           /\ "SYN" \notin s.flags /\ "FIN" \notin s.flags
<1>1. s.seq \in Nat /\ Size(s) \in Nat /\ s.len \in Nat
  BY SegNats
<1>2. Plus(s.seq, Size(s)) = s.seq + Size(s)
  BY <1>1, PlusSmall DEF SegShape
<1>3. "FIN" \in s.flags => Size(s) = 1 /\ s.len = 0 /\ "SYN" \notin s.flags
  <2>1. "FIN" \in s.flags => s.flags = {"FIN", "ACK"} /\ s.len = 0
    BY DEF SegShape
  <2> QED BY <2>1 DEF Size
<1>4. s.len > 0 => "SYN" \notin s.flags /\ "FIN" \notin s.flags
  <2>1. s.len > 0 => s.flags = {"ACK"}
    BY <1>1 DEF SegShape
  <2> QED BY <2>1
<1>5. s.len > 0 => Size(s) = s.len
  BY <1>4 DEF Size
<1> QED BY <1>2, <1>3, <1>4, <1>5

\* A FIN in order: PeerCloses in ESTABLISHED and PeerFinLast in FIN_WAIT_2.
LEMMA FinStep ==
    ASSUME NoWrap, TypeInv, TypeInv', LinkInv, NEW h \in Hosts, net[h] # <<>>, NEW i \in Slots,
           NEW s, s = Head(net[h]), For(tcbs[h][i], s), "FIN" \in s.flags,
           s.seq = tcbs[h][i].rcv, tcbs[h] \in Tables,
           NEW m \in GoodTcb, Grown(tcbs[h][i], m), Advance(tcbs[h][i], m),
           m.rcv = tcbs[h][i].rcv, m.nxt = tcbs[h][i].nxt, tcbs[h][i].una <= m.una,
           m.state = tcbs[h][i].state,
           \A V \in Tables : Changed(tcbs[h], V, i, m) => Pair(h, V, By(got, h)),
           NEW x, \/ m.state = "ESTABLISHED" /\ x = "CLOSE_WAIT"
                  \/ m.state = "FIN_WAIT_2" /\ x = "TIME_WAIT",
           LET a == RcvAdvanced(m, 1)
           IN /\ Put(h, i, IF up THEN [a EXCEPT !.state = x] ELSE a)
              /\ AnswerOrFail(h, PureAck(a)),
           UNCHANGED <<sends, conns, sent, got>>
    PROVE  LinkInv' /\ Advances
<1> DEFINE t == tcbs[h][i]
           a == RcvAdvanced(m, 1)
           r == IF up THEN [a EXCEPT !.state = x] ELSE a
<1>1. Put(h, i, r) /\ AnswerOrFail(h, PureAck(a))
  OBVIOUS
<1>2. /\ s \in GoodSeg /\ SegShape(s) /\ s.inc = t.inc /\ s = net[h][1] /\ t.inc # 0
      /\ t \in GoodTcb
  <2>1. t.state \notin Unowned /\ t.state # "SYN_SENT" /\ s.flags # {"SYN"}
    BY DEF Unowned
  <2>2. Met(h, i, t, s)
    BY <2>1, Matching
  <2> QED BY <2>1, <2>2 DEF Met, Expected
<1>3. /\ Size(s) = 1 /\ s.len = 0 /\ "SYN" \notin s.flags /\ Plus(s.seq, 1) = s.seq + 1
      /\ s.seq \in Nat
  BY <1>2, TakenNumber, SegNats
<1>4. m.inc = t.inc /\ m.lport = t.lport /\ m.rport = t.rport /\ m.inc # 0
  BY <1>2 DEF Grown
<1>5. /\ a \in GoodTcb /\ a.state = m.state /\ a.inc = m.inc /\ a.lport = m.lport
      /\ a.rport = m.rport /\ a.una = m.una /\ a.nxt = m.nxt
      /\ a.rcv = s.seq + 1 /\ a.sendq = m.sendq
  <2>1. 1 \in Nat
    OBVIOUS
  <2> QED BY <1>3, <2>1, AdvancedFields
<1> HIDE DEF a
<1>6. /\ r \in GoodTcb /\ r.inc = m.inc /\ r.lport = m.lport
      /\ r.rport = m.rport /\ r.una = m.una /\ r.nxt = m.nxt
      /\ r.rcv = s.seq + 1 /\ r.sendq = m.sendq
      /\ r.state = m.state \/ r.state = x
  <2>1. CASE up
    <3>1. r = [a EXCEPT !.state = x] /\ x \in States
      BY <2>1 DEF States
    <3> QED BY <1>4, <1>5, <3>1, StateFields
  <2>2. CASE ~up
    BY <1>5, <2>2
  <2> QED BY <2>1, <2>2
<1> HIDE DEF r
<1>7. r.state \notin Unowned /\ r.state \notin {"SYN_SENT", "SYN_RECEIVED"}
  BY <1>6 DEF Unowned
<1>8. Grown(m, r)
  BY <1>3, <1>4, <1>6, <1>7 DEF Grown, Unowned
<1>9. Advance(t, r)
  <2>1. t.rcv \in Nat /\ t.nxt \in Nat
    BY <1>2, TcbNats
  <2> QED BY <1>3, <1>6, <2>1 DEF Advance
<1>10. Pair(h, tcbs'[h], By(got, h))
  <2>1. s.inc = m.inc /\ s.seq = m.rcv /\ Size(s) > 0 /\ r.rcv = s.seq + Size(s)
    BY <1>2, <1>3, <1>4, <1>6
  <2>2. Lengths(By(got, h)) /\ SameBut(By(got, h), By(got, h), r.inc)
    BY DEF LinkInv, Linked, Link, SameBut
  <2>3. Len(By(got, h)[r.inc]) = IF s.len > 0 THEN Len(By(got, h)[r.inc]) + 1
                                              ELSE Len(By(got, h)[r.inc])
    BY <1>3
  <2>4. TakeMove(m, r, s)
    BY <1>6 DEF TakeMove
  <2> QED BY <1>1, <1>2, <1>3, <1>6, <1>8, <2>1, <2>2, <2>3, <2>4, TakeVia
<1>11. AnswerOrFail(h, PureAck(r))
  <2>1. PureAck(r) = PureAck(a)
    BY <1>5, <1>6, SameAck
  <2> QED BY <1>1, <2>1
<1> QED BY <1>1, <1>6, <1>7, <1>9, <1>10, <1>11, QuietStep

LEMMA PeerClosesStep ==
    ASSUME NoWrap, TypeInv, TypeInv', LinkInv, NEW h \in Hosts, net[h] # <<>>, NEW i \in Slots,
           NEW s, s = Head(net[h]), For(tcbs[h][i], s), PeerCloses(h, i, s)
    PROVE  LinkInv' /\ Advances
<1> DEFINE t == tcbs[h][i]
           m == AckField(t, s)
<1>1. /\ t.state = "ESTABLISHED" /\ "FIN" \in s.flags /\ s.seq = t.rcv
      /\ LET a == RcvAdvanced(m, 1)
         IN /\ Put(h, i, IF up THEN [a EXCEPT !.state = "CLOSE_WAIT"] ELSE a)
            /\ AnswerOrFail(h, PureAck(a))
      /\ UNCHANGED <<sends, conns, sent, got>>
  BY DEF PeerCloses, InOrder, envs, hist
<1>2. /\ m \in GoodTcb /\ Grown(t, m) /\ Advance(t, m)
      /\ m.state = t.state /\ m.nxt = t.nxt /\ m.rcv = t.rcv /\ t.una <= m.una
      /\ \A V \in Tables : Changed(tcbs[h], V, i, m) => Pair(h, V, By(got, h))
  BY <1>1, FieldStep
<1>3. tcbs[h] \in Tables
  BY DEF TypeInv, TcbsInv, Tables
<1> HIDE DEF m
<1> DEFINE x == "CLOSE_WAIT"
<1>4. m.state = "ESTABLISHED" /\ x = "CLOSE_WAIT"
  BY <1>1, <1>2
<1>5. LET a == RcvAdvanced(m, 1)
      IN /\ Put(h, i, IF up THEN [a EXCEPT !.state = x] ELSE a)
         /\ AnswerOrFail(h, PureAck(a))
  BY <1>1
<1> HIDE DEF x
<1> QED BY <1>1, <1>2, <1>3, <1>4, <1>5, FinStep

LEMMA PeerFinLastStep ==
    ASSUME NoWrap, TypeInv, TypeInv', LinkInv, NEW h \in Hosts, net[h] # <<>>, NEW i \in Slots,
           NEW s, s = Head(net[h]), For(tcbs[h][i], s), PeerFinLast(h, i, s)
    PROVE  LinkInv' /\ Advances
<1> DEFINE t == tcbs[h][i]
           x == "TIME_WAIT"
<1>1. /\ t.state = "FIN_WAIT_2" /\ "FIN" \in s.flags /\ s.seq = t.rcv
      /\ LET a == RcvAdvanced(t, 1)
         IN /\ Put(h, i, IF up THEN [a EXCEPT !.state = x] ELSE a)
            /\ AnswerOrFail(h, PureAck(a))
      /\ UNCHANGED <<sends, conns, sent, got>>
  BY DEF PeerFinLast, InOrder, envs, hist
<1>2. x = "TIME_WAIT"
  OBVIOUS
<1> HIDE DEF x
<1>3. /\ t \in GoodTcb /\ t.state \notin Unowned /\ tcbs[h] \in Tables
      /\ Pair(h, tcbs[h], By(got, h))
  <2>1. t.state \notin Unowned
    BY <1>1 DEF Unowned
  <2>2. Met(h, i, t, s)
    BY <2>1, Matching
  <2> QED BY <2>1, <2>2 DEF Met, Expected
<1>4. t.una \in Nat /\ t.nxt \in Nat /\ t.rcv \in Nat
  BY <1>3, TcbNats
<1>5. Grown(t, t) /\ Advance(t, t) /\ t.una <= t.una
  BY <1>3, <1>4 DEF Grown, Advance
<1>6. ASSUME NEW V \in Tables, Changed(tcbs[h], V, i, t) PROVE Pair(h, V, By(got, h))
  <2>1. V = tcbs[h]
    BY <1>3, <1>6 DEF Changed, Tables
  <2> QED BY <1>3, <2>1
<1> QED BY <1>1, <1>2, <1>3, <1>5, <1>6, FinStep

\* Connections that were not opened have no history.
FreshInv ==
    \A k \in conns + 1 .. MaxConnects, h \in Hosts : sent[k][h] = <<>> /\ got[k][h] = <<>>

LEMMA SameHistory ==
    ASSUME TypeInv, FreshInv, StreamIntact, UNCHANGED hist, conns' = conns \/ conns' = conns + 1
    PROVE  FreshInv' /\ StreamIntact'
<1>1. sent' = sent /\ got' = got /\ conns \in Nat /\ MaxConnects \in Nat
  BY Sizes DEF hist, TypeInv, BoundInv
<1>2. conns' + 1 .. MaxConnects \subseteq conns + 1 .. MaxConnects
  BY <1>1
<1> QED BY <1>1, <1>2 DEF FreshInv, StreamIntact

\* A history b that has p more than a, for one connection and one host.
Longer(a, b, k, h, p) ==
    /\ \A l \in 1 .. MaxConnects, g \in Hosts : l # k \/ g # h => b[l][g] = a[l][g]
    /\ Len(a[k][h]) \in Nat /\ Len(b[k][h]) = Len(a[k][h]) + 1
    /\ b[k][h][Len(a[k][h]) + 1] = p
    /\ \A n \in 1 .. Len(a[k][h]) : b[k][h][n] = a[k][h][n]

\* One more payload of connection k is consumed by h.
LEMMA OneConsumed ==
    ASSUME TypeInv, NEW k \in 1 .. MaxConnects, NEW h \in Hosts, NEW p,
           got' = [got EXCEPT ![k][h] = Append(@, p)]
    PROVE  Longer(got, got', k, h, p)
<1>1. got \in [1 .. MaxConnects -> [Hosts -> Seq(Consumed)]]
  BY DEF TypeInv, BoundInv
<1>2. got' = [got EXCEPT ![k] = [got[k] EXCEPT ![h] = Append(got[k][h], p)]]
  BY <1>1
<1>3. got[k][h] \in Seq(Consumed)
  BY <1>1
<1>4. \A l \in 1 .. MaxConnects, g \in Hosts : l # k \/ g # h => got'[l][g] = got[l][g]
  BY <1>1, <1>2
<1>5. got'[k][h] = Append(got[k][h], p)
  BY <1>1, <1>2
<1>6. /\ Len(got[k][h]) \in Nat /\ Len(Append(got[k][h], p)) = Len(got[k][h]) + 1
      /\ Append(got[k][h], p)[Len(got[k][h]) + 1] = p
      /\ \A n \in 1 .. Len(got[k][h]) : Append(got[k][h], p)[n] = got[k][h][n]
  <2> DEFINE g == got[k][h]
  <2>1. g \in Seq(Consumed \cup {p}) /\ p \in Consumed \cup {p}
    BY <1>3, SeqMonotonic
  <2> HIDE DEF g
  <2>2. /\ Len(g) \in Nat /\ Len(Append(g, p)) = Len(g) + 1
        /\ Append(g, p)[Len(g) + 1] = p
        /\ \A n \in 1 .. Len(g) : Append(g, p)[n] = g[n]
    BY <2>1, AppendProperties, LenProperties
  <2> QED BY <2>2 DEF g
<1> QED BY <1>4, <1>5, <1>6 DEF Longer

LEMMA DataStep ==
    ASSUME NoWrap, TypeInv, TypeInv', LinkInv, FreshInv, StreamIntact,
           NEW h \in Hosts, net[h] # <<>>, NEW i \in Slots,
           NEW s, s = Head(net[h]), For(tcbs[h][i], s), DataInOrder(h, i, s)
    PROVE  LinkInv' /\ Advances /\ FreshInv' /\ StreamIntact'
<1> DEFINE t == tcbs[h][i]
           m == AckField(t, s)
           r == RcvAdvanced(m, s.len)
           p == [pay |-> s.pay, given |-> up]
           G  == By(got, h)
           Gx == By(got', h)
           S  == By(sent, Peer[h])
<1>1. /\ t.state = "ESTABLISHED" /\ s.len > 0 /\ s.seq = t.rcv
      /\ Put(h, i, r) /\ AnswerOrFail(h, PureAck(r))
      /\ got' = [got EXCEPT ![r.inc][h] = Append(@, p)]
      /\ UNCHANGED <<sends, conns, sent>>
  BY DEF DataInOrder, InOrder, envs
<1>2. /\ m \in GoodTcb /\ Grown(t, m) /\ Advance(t, m)
      /\ m.state = t.state /\ m.nxt = t.nxt /\ m.rcv = t.rcv /\ t.una <= m.una
      /\ \A V \in Tables : Changed(tcbs[h], V, i, m) => Pair(h, V, By(got, h))
  BY <1>1, FieldStep
<1>3. tcbs[h] \in Tables /\ net[h] \in Seq(GoodSeg)
  BY DEF TypeInv, TcbsInv, NetInv, Tables
<1>4. s \in GoodSeg /\ SegShape(s) /\ s = net[h][1]
  <2>1. t.state \notin Unowned
    BY <1>1 DEF Unowned
  <2>2. Met(h, i, t, s)
    BY <2>1, Matching
  <2> QED BY <2>1, <2>2 DEF Met, Expected
<1>5. /\ Size(s) = s.len /\ "SYN" \notin s.flags /\ Plus(s.seq, s.len) = s.seq + Size(s)
      /\ s.seq \in Nat /\ s.len \in Nat
  BY <1>1, <1>4, TakenNumber, SegNats
<1>6. s.inc = t.inc /\ t.inc # 0 /\ t \in GoodTcb
  <2>1. t.state \notin Unowned /\ t.state # "SYN_SENT" /\ s.flags # {"SYN"}
    BY <1>1, <1>5 DEF Unowned
  <2>2. Met(h, i, t, s)
    BY <2>1, Matching
  <2> QED BY <2>1, <2>2 DEF Met, Expected
<1> HIDE DEF m
<1>7. m.inc = t.inc /\ m.inc # 0 /\ m.state \notin Unowned
  BY <1>2, <1>6 DEF Grown
<1>8. /\ r \in GoodTcb /\ r.state = m.state /\ r.inc = m.inc /\ r.lport = m.lport
      /\ r.rport = m.rport /\ r.una = m.una /\ r.nxt = m.nxt
      /\ r.rcv = s.seq + Size(s) /\ r.sendq = m.sendq
  <2>1. m \in GoodTcb /\ s.len \in Nat
    BY <1>2, <1>5
  <2>2. /\ r \in GoodTcb /\ r.state = m.state /\ r.inc = m.inc /\ r.lport = m.lport
        /\ r.rport = m.rport /\ r.una = m.una /\ r.nxt = m.nxt
        /\ r.rcv = Plus(m.rcv, s.len) /\ r.sendq = m.sendq
    BY <2>1, AdvancedFields
  <2>3. Plus(m.rcv, s.len) = s.seq + Size(s)
    BY <1>1, <1>2, <1>5
  <2> HIDE DEF r
  <2> QED BY <2>2, <2>3
<1> HIDE DEF r, p
<1>9. r.inc \in 1 .. MaxConnects /\ r.inc <= conns /\ conns \in Nat
  <2>1. t.inc \in 1 .. MaxConnects
    BY <1>6, GoodTcbFields, Sizes
  <2>2. t.inc <= conns /\ conns \in Nat
    BY Sizes DEF LinkInv, Linked, Link, Shapes
  <2> QED BY <1>7, <1>8, <2>1, <2>2
<1>10. /\ \A l \in 1 .. MaxConnects, g \in Hosts : l # r.inc \/ g # h => got'[l][g] = got[l][g]
       /\ Len(got[r.inc][h]) \in Nat /\ Len(got'[r.inc][h]) = Len(got[r.inc][h]) + 1
       /\ got'[r.inc][h][Len(got[r.inc][h]) + 1] = p
       /\ \A n \in 1 .. Len(got[r.inc][h]) : got'[r.inc][h][n] = got[r.inc][h][n]
  <2> DEFINE k == r.inc
  <2>1. got' = [got EXCEPT ![k][h] = Append(@, p)] /\ k \in 1 .. MaxConnects
    BY <1>1, <1>9
  <2> HIDE DEF k
  <2>2. Longer(got, got', k, h, p)
    BY <2>1, OneConsumed
  <2> QED BY <2>2 DEF Longer, k
<1>11. /\ SameBut(G, Gx, r.inc) /\ Lengths(Gx)
       /\ Len(Gx[r.inc]) = IF s.len > 0 THEN Len(G[r.inc]) + 1 ELSE Len(G[r.inc])
  <2>1. \A k \in 1 .. MaxConnects : Gx[k] = got'[k][h] /\ G[k] = got[k][h]
    BY DEF By
  <2>2. \A k \in 1 .. MaxConnects : got'[k][h] \in Seq(Consumed)
    BY DEF TypeInv, BoundInv
  <2> HIDE DEF G, Gx
  <2>3. SameBut(G, Gx, r.inc)
    BY <1>10, <2>1 DEF SameBut
  <2>4. Lengths(Gx)
    BY <2>1, <2>2, LenProperties DEF Lengths
  <2>5. Len(Gx[r.inc]) = IF s.len > 0 THEN Len(G[r.inc]) + 1 ELSE Len(G[r.inc])
    BY <1>1, <1>9, <1>10, <2>1
  <2> QED BY <2>3, <2>4, <2>5
<1>12. /\ Pair(h, tcbs'[h], Gx)
       /\ Len(S[r.inc]) = Len(G[r.inc]) + 1
       /\ S[r.inc][Len(S[r.inc])] = s.pay
  <2>1. s.inc = m.inc /\ s.seq = m.rcv /\ Size(s) > 0
    BY <1>1, <1>2, <1>5, <1>6, <1>7
  <2>2. TakeMove(m, r, s)
    BY <1>1, <1>2, <1>8 DEF TakeMove
  <2>3. Grown(m, r)
    BY <1>5, <1>7, <1>8, <2>1 DEF Grown
  <2>4. /\ Put(h, i, r) /\ r.una = m.una /\ r.nxt = m.nxt /\ r.sendq = m.sendq
        /\ m \in GoodTcb /\ r \in GoodTcb /\ tcbs[h] \in Tables /\ s = net[h][1]
        /\ r.rcv = s.seq + Size(s) /\ "SYN" \notin s.flags
    BY <1>1, <1>2, <1>3, <1>4, <1>5, <1>8
  <2>5. \A V \in Tables : Changed(tcbs[h], V, i, m) => Pair(h, V, By(got, h))
    BY <1>2
  <2> HIDE DEF Gx
  <2>6. /\ Pair(h, tcbs'[h], Gx)
        /\ s.len > 0 =>
              /\ Len(S[r.inc]) = Len(G[r.inc]) + 1
              /\ S[r.inc][Len(S[r.inc])] = s.pay
    BY <1>11, <2>1, <2>2, <2>3, <2>4, <2>5, TakeVia, SMTT(30)
  <2> QED BY <1>1, <2>6
<1>13. Advance(t, r)
  <2>1. t.rcv \in Nat /\ t.nxt \in Nat
    BY <1>6, TcbNats
  <2> QED BY <1>1, <1>2, <1>5, <1>8, <2>1 DEF Advance
<1>14. Replied(h, r)
  <2>1. TcbShape(tcbs'[h][i], sends) /\ sends \in 0 .. MaxSends
    BY <1>12 DEF Pair, Link, Shapes
  <2>2. tcbs'[h][i] = r
    BY <1>1, <1>8, PutChanged DEF TypeInv
  <2>3. r.state \notin Unowned /\ r.state \notin {"SYN_SENT", "SYN_RECEIVED"}
    BY <1>1, <1>2, <1>8 DEF Unowned
  <2>4. PureAck(r) \in GoodSeg /\ Sendable(r, PureAck(r))
    BY <1>8, <2>1, <2>2, <2>3, AckSendable
  <2> QED BY <1>1, <2>3, <2>4 DEF Replied
<1>15. \A g \in Hosts : g # h => By(got', g) = By(got, g)
  BY <1>10 DEF By
<1>16. LinkInv' /\ Advances
  BY <1>1, <1>8, <1>12, <1>13, <1>14, <1>15, TakenStep
<1>17. FreshInv'
  <2> SUFFICES ASSUME NEW k \in conns' + 1 .. MaxConnects, NEW g \in Hosts
               PROVE  sent'[k][g] = <<>> /\ got'[k][g] = <<>>
    BY DEF FreshInv
  <2>1. k \in conns + 1 .. MaxConnects /\ k # r.inc /\ k \in 1 .. MaxConnects
    BY <1>1, <1>9, Sizes
  <2> QED BY <1>1, <1>10, <2>1 DEF FreshInv
<1>18. StreamIntact'
  <2> SUFFICES ASSUME NEW k \in 1 .. MaxConnects, NEW g \in Hosts
               PROVE  /\ Len(got'[k][g]) <= Len(sent'[k][Peer[g]])
                      /\ \A n \in 1 .. Len(got'[k][g]) :
                            got'[k][g][n].pay = sent'[k][Peer[g]][n]
    BY DEF StreamIntact
  <2>1. CASE k # r.inc \/ g # h
    <3>1. got'[k][g] = got[k][g]
      BY <1>10, <2>1
    <3>2. sent'[k][Peer[g]] = sent[k][Peer[g]]
      BY <1>1
    <3> QED BY <3>1, <3>2 DEF StreamIntact
  <2>2. CASE k = r.inc /\ g = h
    <3>1. /\ S[k] = sent[k][Peer[g]] /\ G[k] = got[k][g]
      BY <2>2 DEF By
    <3>2. /\ Len(sent[k][Peer[g]]) = Len(got[k][g]) + 1
          /\ sent[k][Peer[g]][Len(got[k][g]) + 1] = s.pay
      BY <1>12, <2>2, <3>1
    <3>3. p.pay = s.pay
      BY DEF p
    <3>4. \A n \in 1 .. Len(got'[k][g]) :
             n \in 1 .. Len(got[k][g]) \/ n = Len(got[k][g]) + 1
      BY <1>10, <2>2
    <3>5. /\ Len(got[k][g]) \in Nat /\ Len(got'[k][g]) = Len(got[k][g]) + 1
          /\ got'[k][g][Len(got[k][g]) + 1] = p
          /\ \A n \in 1 .. Len(got[k][g]) : got'[k][g][n] = got[k][g][n]
      BY <1>10, <2>2
    <3>6. \A n \in 1 .. Len(got[k][g]) : got[k][g][n].pay = sent[k][Peer[g]][n]
      BY DEF StreamIntact
    <3>7. ASSUME NEW n \in 1 .. Len(got'[k][g])
          PROVE  got'[k][g][n].pay = sent[k][Peer[g]][n]
      <4>1. CASE n \in 1 .. Len(got[k][g])
        BY <3>5, <3>6, <4>1
      <4>2. CASE n = Len(got[k][g]) + 1
        BY <3>2, <3>3, <3>5, <4>2
      <4> QED BY <3>4, <4>1, <4>2
    <3>8. sent' = sent /\ Len(got'[k][g]) <= Len(sent[k][Peer[g]])
      BY <1>1, <3>2, <3>5
    <3> QED BY <3>7, <3>8
  <2> QED BY <2>1, <2>2
<1> QED BY <1>16, <1>17, <1>18

\* A segment is dropped, ignored or lost.
LEMMA DropStep ==
    ASSUME NoWrap, TypeInv, TypeInv', LinkInv, NEW h \in Hosts, net[h] # <<>>, Consume(h),
           UNCHANGED <<tcbs, sends, conns, sent, got>>
    PROVE  LinkInv' /\ Advances
<1>1. NetInv /\ TcbsInv /\ Peer[h] \in Hosts
  BY PeerIsHost DEF TypeInv
<1>2. Link(tcbs[h], tcbs[Peer[h]], net[h], net[Peer[h]], sends, conns,
           By(sent, h), By(got, Peer[h]), By(sent, Peer[h]), By(got, h))
  BY DEF LinkInv, Linked
<1>3. /\ Link(tcbs[h], tcbs[Peer[h]], net'[h], net'[Peer[h]], sends, conns,
              By(sent, h), By(got, Peer[h]), By(sent, Peer[h]), By(got, h))
      /\ \A g \in Hosts : g # h /\ g # Peer[h] => net'[g] = net[g]
  BY <1>1, <1>2, Consuming
<1>4. Linked(h)'
  <2>1. Link(tcbs'[h], tcbs'[Peer[h]], net'[h], net'[Peer[h]], sends', conns',
             By(sent', h), By(got', Peer[h]), By(sent', Peer[h]), By(got', h))
    BY <1>3
  <2> QED BY <2>1 DEF Linked, By
<1>5. \A g \in Hosts : g # h /\ g # Peer[h] => Apart(g)
  BY <1>3 DEF Apart
<1> QED BY <1>1, <1>4, <1>5, LinksStep, NoChange

\* A TCB is left as r, and x is sent.
LEMMA SentStep ==
    ASSUME NoWrap, TypeInv, TypeInv', LinkInv, NEW h \in Hosts, NEW i \in Slots,
           NEW r \in GoodTcb, Put(h, i, r), Advance(tcbs[h][i], r),
           NEW x \in GoodSeg, Transmit(h, x), r.state \notin Unowned, Sendable(r, x),
           sends' = sends \/ sends' = sends + 1, conns' = conns \/ conns' = conns + 1,
           UNCHANGED got, \A g \in Hosts : g # h => By(sent', g) = By(sent, g),
           Link(tcbs'[h], tcbs[Peer[h]], net[h], net[Peer[h]], sends', conns',
                By(sent', h), By(got, Peer[h]), By(sent, Peer[h]), By(got, h))
    PROVE  LinkInv' /\ Advances
<1>1. NetInv /\ TcbsInv /\ Peer[h] \in Hosts /\ Peer[h] # h
  BY PeerIsHost DEF TypeInv
<1>2. /\ tcbs'[h][i] = r /\ Advances /\ \A g \in Hosts : g # h => tcbs'[g] = tcbs[g]
  BY <1>1, PutChanged
<1>3. i \in Conns(tcbs'[h])
  BY <1>2 DEF Conns, Unowned
<1>4. /\ Link(tcbs'[h], tcbs[Peer[h]], net'[h], net'[Peer[h]], sends', conns',
              By(sent', h), By(got, Peer[h]), By(sent, Peer[h]), By(got, h))
      /\ \A g \in Hosts : g # h /\ g # Peer[h] => net'[g] = net[g]
  BY <1>1, <1>2, <1>3, Sending
<1>5. Linked(h)'
  <2>1. Link(tcbs'[h], tcbs'[Peer[h]], net'[h], net'[Peer[h]], sends', conns',
             By(sent', h), By(got', Peer[h]), By(sent', Peer[h]), By(got', h))
    BY <1>1, <1>2, <1>4
  <2> QED BY <2>1 DEF Linked, By
<1>6. \A g \in Hosts : g # h /\ g # Peer[h] => Apart(g)
  BY <1>2, <1>4 DEF Apart
<1> QED BY <1>2, <1>5, <1>6, LinksStep

\* A slot is given to a listener or released, and nothing is sent.
LEMMA ClearStep ==
    ASSUME NoWrap, TypeInv, TypeInv', LinkInv, NEW h \in Hosts, NEW i \in Slots,
           NEW r \in GoodTcb, Put(h, i, r),
           tcbs[h][i].state \in Unowned \/ tcbs[h][i].state = "TIME_WAIT",
           r.state \in Unowned, r.inc = 0, r.una = 0, r.nxt = 0, r.rcv = 0, r.sendq = {},
           UNCHANGED <<net, sends, conns, sent, got>>
    PROVE  LinkInv' /\ Advances
<1>1. TcbsInv /\ Peer[h] \in Hosts /\ Peer[h] # h
  BY PeerIsHost DEF TypeInv
<1>2. Advance(tcbs[h][i], r)
  BY DEF Advance
<1>3. /\ Changed(tcbs[h], tcbs'[h], i, r) /\ tcbs'[h] \in Tables
      /\ Advances /\ \A g \in Hosts : g # h => tcbs'[g] = tcbs[g]
  BY <1>1, <1>2, PutChanged
<1>4. Link(tcbs[h], tcbs[Peer[h]], net[h], net[Peer[h]], sends, conns,
           By(sent, h), By(got, Peer[h]), By(sent, Peer[h]), By(got, h))
  BY DEF LinkInv, Linked
<1>5. Link(tcbs'[h], tcbs[Peer[h]], net[h], net[Peer[h]], sends, conns,
           By(sent, h), By(got, Peer[h]), By(sent, Peer[h]), By(got, h))
  BY <1>3, <1>4, LinkClear
<1>6. Linked(h)'
  <2>1. Link(tcbs'[h], tcbs'[Peer[h]], net'[h], net'[Peer[h]], sends', conns',
             By(sent', h), By(got', Peer[h]), By(sent', Peer[h]), By(got', h))
    BY <1>1, <1>3, <1>5
  <2> QED BY <2>1 DEF Linked, By
<1>7. \A g \in Hosts : g # h /\ g # Peer[h] => Apart(g)
  BY <1>3 DEF Apart
<1> QED BY <1>3, <1>6, <1>7, LinksStep

\* No TCB of h has the ports: tcp_find_exact finds none.
LEMMA NoneFree ==
    ASSUME TypeInv, NEW h \in Hosts, NEW r, NEW lp, NEW rp, FindExact(h, lp, rp) = {},
           r.lport = lp, r.rport = rp
    PROVE  Free(tcbs[h], r)
BY DEF Free, FindExact, Valid, Conns

LEMMA ListenLink ==
    ASSUME NoWrap, TypeInv, TypeInv', LinkInv, NEW h \in Hosts, NEW p \in Nat, Listen(h, p)
    PROVE  LinkInv' /\ Advances
<1>1. PICK i \in Slots : AllocTcb(h, i) /\ Put(h, i, Listener(p))
  BY DEF Listen, Listener
<1>2. /\ Listener(p) \in GoodTcb /\ Listener(p).state \in Unowned /\ Listener(p).inc = 0
      /\ Listener(p).una = 0 /\ Listener(p).nxt = 0 /\ Listener(p).rcv = 0
      /\ Listener(p).sendq = {}
  BY ListenerFields DEF Unowned
<1>3. tcbs[h][i].state \in Unowned
  BY <1>1 DEF AllocTcb, First, Valid, Unowned
<1>4. UNCHANGED <<net, sends, conns, sent, got>>
  BY DEF Listen, envs, hist
<1> QED BY <1>1, <1>2, <1>3, <1>4, ClearStep

LEMMA TimeWaitLink ==
    ASSUME NoWrap, TypeInv, TypeInv', LinkInv, NEW h \in Hosts, NEW i \in Slots,
           TimeWaitExpires(h, i)
    PROVE  LinkInv' /\ Advances
<1>1. UNCHANGED <<net, sends, conns, sent, got>> /\ TcbsInv
  BY DEF TimeWaitExpires, envs, hist, TypeInv
<1>2. CASE tcbs[h][i].state = "TIME_WAIT"
  <2>1. Put(h, i, Zeroed)
    BY <1>2 DEF TimeWaitExpires, ReleaseTcb
  <2> QED BY <1>1, <1>2, <2>1, ZeroedFields, ClearStep DEF Unowned
<1>3. CASE tcbs[h][i].state # "TIME_WAIT"
  <2>1. UNCHANGED tcbs
    BY <1>3 DEF TimeWaitExpires
  <2> QED BY <1>1, <2>1, NoChange DEF LinkInv, Linked
<1> QED BY <1>2, <1>3

LEMMA RetransmitLink ==
    ASSUME NoWrap, TypeInv, TypeInv', LinkInv, NEW h \in Hosts, NEW i \in Slots,
           Retransmit(h, i)
    PROVE  LinkInv' /\ Advances
<1> DEFINE t == tcbs[h][i]
<1>1. PICK x \in t.sendq : Transmit(h, x)
  BY DEF Retransmit
<1>2. UNCHANGED <<tcbs, sends, conns, sent, got>>
  BY DEF Retransmit, tvars, envs, hist
<1>3. Link(tcbs[h], tcbs[Peer[h]], net[h], net[Peer[h]], sends, conns,
           By(sent, h), By(got, Peer[h]), By(sent, Peer[h]), By(got, h))
  BY DEF LinkInv, Linked
<1>4. t \in GoodTcb /\ TcbShape(t, sends) /\ x \in GoodSeg
  <2>1. t \in GoodTcb /\ TcbShape(t, sends)
    BY <1>3 DEF Link, Shapes, Tables
  <2> QED BY <1>1, <2>1, GoodTcbFields
<1>5. Sendable(t, x) /\ t.state \notin Unowned
  BY <1>1, <1>4, AgainSendable
<1>6. i \in Conns(tcbs[h])
  BY <1>5 DEF Conns, Unowned
<1>7. NetInv /\ TcbsInv
  BY DEF TypeInv
<1>8. /\ Link(tcbs[h], tcbs[Peer[h]], net'[h], net'[Peer[h]], sends, conns,
              By(sent, h), By(got, Peer[h]), By(sent, Peer[h]), By(got, h))
      /\ \A g \in Hosts : g # h /\ g # Peer[h] => net'[g] = net[g]
  <2> HIDE DEF t
  <2> QED BY <1>1, <1>3, <1>4, <1>5, <1>6, <1>7, Sending DEF t
<1>9. Linked(h)'
  <2>1. Link(tcbs'[h], tcbs'[Peer[h]], net'[h], net'[Peer[h]], sends', conns',
             By(sent', h), By(got', Peer[h]), By(sent', Peer[h]), By(got', h))
    BY <1>2, <1>8
  <2> QED BY <2>1 DEF Linked, By
<1>10. \A g \in Hosts : g # h /\ g # Peer[h] => Apart(g)
  BY <1>2, <1>8 DEF Apart
<1> QED BY <1>2, <1>7, <1>9, <1>10, LinksStep, NoChange

LEMMA AcceptLink ==
    ASSUME NoWrap, TypeInv, TypeInv', LinkInv, NEW h \in Hosts, net[h] # <<>>,
           NEW s, s = Head(net[h]), SynToListener(h, s)
    PROVE  LinkInv' /\ Advances
<1> DEFINE t == Child(s)
           x == Seg(t, {"SYN", "ACK"}, 0, 0)
           r == Tracked(t, x)
           T == tcbs[h]
           Q == tcbs[Peer[h]]
           N == net[h]
           M == net[Peer[h]]
           S == By(sent, h)
           G == By(got, Peer[h])
           S2 == By(sent, Peer[h])
           G2 == By(got, h)
<1>1. /\ s.flags = {"SYN"} /\ FindExact(h, s.dst, s.src) = {}
      /\ UNCHANGED <<sends, conns, sent, got>>
  BY DEF SynToListener, envs, hist
<1>2. PICK i \in Slots : AllocTcb(h, i) /\ Put(h, i, r) /\ AnswerOrFail(h, x)
  BY DEF SynToListener, Child
<1>3. T[i].state \in Unowned /\ T[i] \in GoodTcb
  BY <1>2 DEF AllocTcb, First, Valid, Unowned, TypeInv, TcbsInv
<1>4. Link(T, Q, N, M, sends, conns, S, G, S2, G2)
  BY DEF LinkInv, Linked
<1>5. s \in GoodSeg /\ s = N[1] /\ s \in In(N)
  BY <1>4, InTail DEF Link, GoodSeg, TypeInv, NetInv, In
<1>6. s.seq = 0 /\ s.inc # 0
  <2>1. SegShape(s) /\ "ACK" \notin s.flags
    BY <1>1, <1>4, <1>5 DEF Link, Shapes
  <2> QED BY <2>1 DEF SegShape
<1>7. Plus(s.seq, 1) = 1
  <2>1. s.seq \in Nat /\ 1 \in Nat /\ s.seq + 1 = 1 /\ 1 < SeqSpace
    BY <1>6, Sizes
  <2> QED BY <2>1, PlusSmall
<1>8. /\ t \in GoodTcb /\ t.state = "SYN_RECEIVED" /\ t.lport = s.dst /\ t.rport = s.src
      /\ t.una = 0 /\ t.nxt = 0 /\ t.rcv = 1 /\ t.inc = s.inc /\ t.sendq = {}
  BY <1>5, <1>7, ChildFields
<1> HIDE DEF t
<1>9. /\ x \in GoodSeg /\ x.flags = {"SYN", "ACK"} /\ x.len = 0 /\ x.seq = 0 /\ x.ack = 1
      /\ x.inc = s.inc /\ From(t, x)
  <2>1. t \in Tcb /\ {"SYN", "ACK"} \in SUBSET Flags /\ 0 \in 0 .. MSS /\ 0 \in 0 .. MaxSends
    BY <1>8, GoodTcbFields, Sizes DEF Flags
  <2> QED BY <1>6, <1>8, <2>1, SegFields
<1> HIDE DEF x
<1>10. SeqEnd(x) = 1
  <2>1. SeqEnd(x) = Plus(0, 1)
    <3>1. x.flags \cap {"SYN", "FIN"} # {}
      BY <1>9
    <3> QED BY <1>9, <3>1 DEF SeqEnd
  <2>2. 0 \in Nat /\ 1 \in Nat /\ 0 + 1 < SeqSpace
    BY Sizes
  <2> QED BY <2>1, <2>2, PlusSmall
<1>11. /\ r \in GoodTcb /\ r.state = "SYN_RECEIVED" /\ r.inc = s.inc /\ r.lport = s.dst
       /\ r.rport = s.src /\ r.una = 0 /\ r.rcv = 1 /\ r.nxt = 1 /\ r.sendq = {x}
  BY <1>8, <1>9, <1>10, TrackedFields
<1>12. From(r, x) /\ For(r, s) /\ r.state \notin Unowned
  BY <1>8, <1>9, <1>11 DEF From, For, Unowned
<1> HIDE DEF r
<1>13. Free(T, r)
  BY <1>1, <1>11, NoneFree
<1>14. Changed(T, tcbs'[h], i, r) /\ tcbs'[h] \in Tables
  BY <1>2, <1>11, PutChanged DEF TypeInv
<1>15. Link(tcbs'[h], Q, N, M, sends, conns, S, G, S2, G2) /\ Sendable(r, x)
  <2>1. /\ N[1].flags = {"SYN"} /\ For(r, N[1]) /\ r.inc = N[1].inc /\ x.inc = r.inc
        /\ N # <<>>
    BY <1>1, <1>5, <1>9, <1>11, <1>12
  <2> DEFINE U == tcbs'[h]
  <2>2. Changed(T, U, i, r) /\ U \in Tables
    BY <1>14
  <2>3. Link(U, Q, N, M, sends, conns, S, G, S2, G2) /\ Sendable(r, x)
    <3> HIDE DEF T, Q, N, M, S, G, S2, G2, U
    <3> QED BY <1>3, <1>4, <1>9, <1>11, <1>12, <1>13, <2>1, <2>2, LinkAccept
  <2> QED BY <2>3
<1>16. Advance(T[i], r)
  <2>1. T[i].inc = 0
    BY <1>3, <1>4 DEF Link, Shapes, TcbShape, Unowned
  <2> QED BY <2>1 DEF Advance
<1>17. Replied(h, r)
  BY <1>2, <1>9, <1>12, <1>15 DEF Replied
<1>18. /\ By(got', h) = By(got, h) /\ \A g \in Hosts : g # h => By(got', g) = By(got, g)
  BY <1>1
<1>19. Pair(h, tcbs'[h], By(got', h))
  BY <1>15, <1>18 DEF Pair
<1> QED BY <1>1, <1>2, <1>11, <1>16, <1>17, <1>18, <1>19, TakenStep

LEMMA ConnectLink ==
    ASSUME NoWrap, TypeInv, TypeInv', LinkInv, FreshInv, NEW h \in Hosts,
           NEW lp \in Nat, NEW rp \in Nat, Connect(h, lp, rp)
    PROVE  LinkInv' /\ Advances
<1> DEFINE t == Dialled(lp, rp, conns + 1)
           x == Seg(t, {"SYN"}, 0, 0)
           r == Tracked(t, x)
           T == tcbs[h]
           Q == tcbs[Peer[h]]
           N == net[h]
           M == net[Peer[h]]
           S == By(sent, h)
           G == By(got, Peer[h])
           S2 == By(sent, Peer[h])
           G2 == By(got, h)
<1>1. /\ conns < MaxConnects /\ FindExact(h, lp, rp) = {} /\ conns' = conns + 1
      /\ UNCHANGED <<sends, sent, got>>
  BY DEF Connect, hist
<1>2. PICK i \in Slots : AllocTcb(h, i) /\ Put(h, i, r) /\ Transmit(h, x)
  BY DEF Connect, Dialled
<1>3. T[i].state \in Unowned /\ T[i] \in GoodTcb
  BY <1>2 DEF AllocTcb, First, Valid, Unowned, TypeInv, TcbsInv
<1>4. Link(T, Q, N, M, sends, conns, S, G, S2, G2)
  BY DEF LinkInv, Linked
<1>5. conns \in Nat /\ conns + 1 \in 1 .. MaxConnects /\ conns + 1 # 0
  BY <1>1, Sizes DEF TypeInv, BoundInv
<1>6. /\ t \in GoodTcb /\ t.state = "SYN_SENT" /\ t.lport = lp /\ t.rport = rp
      /\ t.una = 0 /\ t.nxt = 0 /\ t.rcv = 0 /\ t.inc = conns + 1 /\ t.sendq = {}
  BY <1>5, DialledFields
<1> HIDE DEF t
<1>7. /\ x \in GoodSeg /\ x.flags = {"SYN"} /\ x.len = 0 /\ x.seq = 0 /\ x.ack = 0
      /\ x.inc = conns + 1 /\ From(t, x)
  <2>1. t \in Tcb /\ {"SYN"} \in SUBSET Flags /\ 0 \in 0 .. MSS /\ 0 \in 0 .. MaxSends
    BY <1>6, GoodTcbFields, Sizes DEF Flags
  <2> QED BY <1>5, <1>6, <2>1, SegFields
<1> HIDE DEF x
<1>8. SeqEnd(x) = 1
  <2>1. SeqEnd(x) = Plus(0, 1)
    <3>1. x.flags \cap {"SYN", "FIN"} # {}
      BY <1>7
    <3> QED BY <1>7, <3>1 DEF SeqEnd
  <2>2. 0 \in Nat /\ 1 \in Nat /\ 0 + 1 < SeqSpace
    BY Sizes
  <2> QED BY <2>1, <2>2, PlusSmall
<1>9. /\ r \in GoodTcb /\ r.state = "SYN_SENT" /\ r.inc = conns + 1 /\ r.lport = lp
      /\ r.rport = rp /\ r.una = 0 /\ r.rcv = 0 /\ r.nxt = 1 /\ r.sendq = {x}
  BY <1>6, <1>7, <1>8, TrackedFields
<1>10. From(r, x) /\ r.state \notin Unowned
  BY <1>6, <1>7, <1>9 DEF From, Unowned
<1> HIDE DEF r
<1>11. Free(T, r)
  BY <1>1, <1>9, NoneFree
<1>12. Changed(T, tcbs'[h], i, r) /\ tcbs'[h] \in Tables
  BY <1>2, <1>9, PutChanged DEF TypeInv
<1>13. /\ Len(S[conns + 1]) = 0 /\ Len(G[conns + 1]) = 0
       /\ Len(S2[conns + 1]) = 0 /\ Len(G2[conns + 1]) = 0
  <2>1. Peer[h] \in Hosts /\ conns + 1 \in conns + 1 .. MaxConnects
    BY <1>5, PeerIsHost
  <2>2. Len(<<>>) = 0
    OBVIOUS
  <2> QED BY <1>5, <2>1, <2>2 DEF FreshInv, By
<1>14. Link(tcbs'[h], Q, N, M, sends, conns + 1, S, G, S2, G2) /\ Sendable(r, x)
  <2> DEFINE U == tcbs'[h]
  <2>1. Changed(T, U, i, r) /\ U \in Tables
    BY <1>12
  <2>2. Link(U, Q, N, M, sends, conns + 1, S, G, S2, G2) /\ Sendable(r, x)
    <3> HIDE DEF T, Q, N, M, S, G, S2, G2, U
    <3> QED BY <1>1, <1>3, <1>4, <1>7, <1>9, <1>10, <1>11, <1>13, <2>1, LinkDial
  <2> QED BY <2>2
<1>15. Advance(T[i], r)
  <2>1. T[i].inc = 0
    BY <1>3, <1>4 DEF Link, Shapes, TcbShape, Unowned
  <2> QED BY <2>1 DEF Advance
<1>16. /\ By(sent', h) = S /\ \A g \in Hosts : g # h => By(sent', g) = By(sent, g)
  BY <1>1
<1>17. Link(tcbs'[h], Q, N, M, sends', conns', By(sent', h), G, S2, G2)
  BY <1>1, <1>14, <1>16
<1> QED BY <1>1, <1>2, <1>7, <1>9, <1>10, <1>14, <1>15, <1>16, <1>17, SentStep

LEMMA CloseLink ==
    ASSUME NoWrap, TypeInv, TypeInv', LinkInv, NEW h \in Hosts, NEW i \in Slots, Close(h, i)
    PROVE  LinkInv' /\ Advances
<1> DEFINE t == tcbs[h][i]
           x == Seg(t, {"FIN", "ACK"}, 0, 0)
           k == Tracked(t, x)
           y == IF t.state = "ESTABLISHED" THEN "FIN_WAIT_1" ELSE "LAST_ACK"
           r == [k EXCEPT !.state = y]
           T == tcbs[h]
           Q == tcbs[Peer[h]]
           N == net[h]
           M == net[Peer[h]]
           S == By(sent, h)
           G == By(got, Peer[h])
           S2 == By(sent, Peer[h])
           G2 == By(got, h)
<1>1. /\ t.sendq = {} /\ t.state \in {"ESTABLISHED", "CLOSE_WAIT"}
      /\ Transmit(h, x) /\ UNCHANGED <<sends, conns, sent, got>>
  BY DEF Close, MayClose, envs, hist
<1>2. Link(T, Q, N, M, sends, conns, S, G, S2, G2)
  BY DEF LinkInv, Linked
<1>3. t \in GoodTcb /\ TcbShape(t, sends) /\ t.inc # 0 /\ sends \in 0 .. MaxSends
  <2>1. t \in GoodTcb /\ TcbShape(t, sends) /\ sends \in 0 .. MaxSends
    BY <1>2 DEF Link, Shapes, Tables
  <2> QED BY <1>1, <2>1, GoodTcbFields DEF Unowned
<1>4. /\ x \in GoodSeg /\ x.flags = {"FIN", "ACK"} /\ x.len = 0 /\ x.seq = t.nxt
      /\ x.ack = t.rcv /\ x.inc = t.inc /\ From(t, x)
  <2>1. t \in Tcb /\ {"FIN", "ACK"} \in SUBSET Flags /\ 0 \in 0 .. MSS /\ 0 \in 0 .. MaxSends
    BY <1>3, GoodTcbFields, Sizes DEF Flags
  <2> HIDE DEF t
  <2> QED BY <1>3, <2>1, SegFields
<1> HIDE DEF x
<1>5. /\ k \in GoodTcb /\ k.state = t.state /\ k.inc = t.inc /\ k.lport = t.lport
      /\ k.rport = t.rport /\ k.una = t.una /\ k.rcv = t.rcv /\ k.nxt = SeqEnd(x)
      /\ k.sendq = {x}
  BY <1>1, <1>3, <1>4, TrackedFields
<1>6. Put(h, i, r)
  <2>1. Put(h, i, [k EXCEPT !.state = IF k.state = "ESTABLISHED" THEN "FIN_WAIT_1"
                                                               ELSE "LAST_ACK"])
    BY DEF Close, x
  <2> HIDE DEF k
  <2> QED BY <1>5, <2>1
<1>7. y \in States
  BY DEF States
<1> HIDE DEF k
<1>8. /\ r \in GoodTcb /\ r.state = y /\ r.inc = t.inc /\ r.lport = t.lport
      /\ r.rport = t.rport /\ r.una = t.una /\ r.rcv = t.rcv /\ r.nxt = SeqEnd(x)
      /\ r.sendq = {x}
  <2> HIDE DEF y, t
  <2> QED BY <1>3, <1>5, <1>7, StateFields
<1>9. /\ \/ t.state = "ESTABLISHED" /\ r.state = "FIN_WAIT_1"
         \/ t.state = "CLOSE_WAIT" /\ r.state = "LAST_ACK"
      /\ r.state \notin Unowned
  BY <1>1, <1>8 DEF Unowned
<1> HIDE DEF r, y
<1>10. Changed(T, tcbs'[h], i, r) /\ tcbs'[h] \in Tables
  BY <1>6, <1>8, PutChanged DEF TypeInv
<1>11. /\ Link(tcbs'[h], Q, N, M, sends, conns, S, G, S2, G2) /\ Sendable(r, x)
       /\ t.nxt <= r.nxt
  <2> DEFINE U == tcbs'[h]
  <2>1. Changed(T, U, i, r) /\ U \in Tables /\ t = T[i]
    BY <1>10
  <2>2. Lengths(S) /\ SameBut(S, S, r.inc) /\ S[r.inc] = S[r.inc]
    BY <1>2 DEF Link, SameBut
  <2>3. /\ T[i].sendq = {} /\ x.inc = T[i].inc /\ From(T[i], x) /\ x.seq = T[i].nxt
        /\ x.ack = T[i].rcv /\ r.inc = T[i].inc /\ r.una = T[i].una /\ r.rcv = T[i].rcv
        /\ r.lport = T[i].lport /\ r.rport = T[i].rport
    BY <1>1, <1>4, <1>8, <2>1
  <2>4. Posted(T[i], r, x, sends, sends, S[r.inc], S[r.inc])
    BY <1>4, <1>9, <2>1 DEF Posted
  <2>5. /\ Link(U, Q, N, M, sends, conns, S, G, S2, G2) /\ Sendable(r, x)
        /\ T[i].nxt <= r.nxt
    <3> HIDE DEF T, Q, N, M, S, G, S2, G2, U, t
    <3>1. sends \in 0 .. MaxSends /\ U \in Tables /\ r \in GoodTcb /\ x \in GoodSeg
      BY <1>3, <1>4, <1>8, <2>1
    <3>2. Link(T, Q, N, M, sends, conns, S, G, S2, G2) /\ Changed(T, U, i, r)
      BY <1>2, <2>1
    <3>3. r.sendq = {x} /\ r.nxt = SeqEnd(x)
      BY <1>8
    <3> QED BY <2>2, <2>3, <2>4, <3>1, <3>2, <3>3, LinkPost
  <2> QED BY <2>1, <2>5
<1>12. Advance(t, r)
  <2>1. t.una \in Nat /\ t.rcv \in Nat
    BY <1>3, TcbNats
  <2> QED BY <1>8, <1>11, <2>1 DEF Advance
<1>13. /\ By(sent', h) = S /\ \A g \in Hosts : g # h => By(sent', g) = By(sent, g)
  BY <1>1
<1>14. Link(tcbs'[h], Q, N, M, sends', conns', By(sent', h), G, S2, G2)
  BY <1>1, <1>11, <1>13
<1> QED BY <1>1, <1>4, <1>6, <1>8, <1>9, <1>11, <1>12, <1>13, <1>14, SentStep

\* One more payload is accepted on connection k from h.
LEMMA OneSent ==
    ASSUME TypeInv, NEW k \in 1 .. MaxConnects, NEW h \in Hosts, NEW p \in Nat,
           sent' = [sent EXCEPT ![k][h] = Append(@, p)]
    PROVE  Longer(sent, sent', k, h, p)
<1>1. sent \in [1 .. MaxConnects -> [Hosts -> Seq(1 .. MaxSends)]]
  BY DEF TypeInv, BoundInv
<1>2. sent' = [sent EXCEPT ![k] = [sent[k] EXCEPT ![h] = Append(sent[k][h], p)]]
  BY <1>1
<1>3. sent[k][h] \in Seq(1 .. MaxSends)
  BY <1>1
<1>4. \A l \in 1 .. MaxConnects, g \in Hosts : l # k \/ g # h => sent'[l][g] = sent[l][g]
  BY <1>1, <1>2
<1>5. sent'[k][h] = Append(sent[k][h], p)
  BY <1>1, <1>2
<1>6. /\ Len(sent[k][h]) \in Nat /\ Len(Append(sent[k][h], p)) = Len(sent[k][h]) + 1
      /\ Append(sent[k][h], p)[Len(sent[k][h]) + 1] = p
      /\ \A n \in 1 .. Len(sent[k][h]) : Append(sent[k][h], p)[n] = sent[k][h][n]
  <2> DEFINE g == sent[k][h]
  <2>1. g \in Seq(Nat)
    BY <1>3, SeqMonotonic, Sizes
  <2> HIDE DEF g
  <2>2. /\ Len(g) \in Nat /\ Len(Append(g, p)) = Len(g) + 1
        /\ Append(g, p)[Len(g) + 1] = p
        /\ \A n \in 1 .. Len(g) : Append(g, p)[n] = g[n]
    BY <2>1, AppendProperties, LenProperties
  <2> QED BY <2>2 DEF g
<1> QED BY <1>4, <1>5, <1>6 DEF Longer

LEMMA SendLink ==
    ASSUME NoWrap, TypeInv, TypeInv', LinkInv, FreshInv, StreamIntact,
           NEW h \in Hosts, NEW i \in Slots, NEW l \in Lens, Send(h, i, l)
    PROVE  LinkInv' /\ Advances /\ FreshInv' /\ StreamIntact'
<1> DEFINE t == tcbs[h][i]
           b == IF l > MSS THEN MSS ELSE l
           p == sends + 1
           x == Seg(t, {"ACK"}, b, p)
           r == Tracked(t, x)
           T == tcbs[h]
           Q == tcbs[Peer[h]]
           N == net[h]
           M == net[Peer[h]]
           S == By(sent, h)
           Sx == By(sent', h)
           G == By(got, Peer[h])
           S2 == By(sent, Peer[h])
           G2 == By(got, h)
<1>1. /\ sends < MaxSends /\ t.sendq = {} /\ t.state = "ESTABLISHED"
      /\ Transmit(h, x) /\ Put(h, i, r) /\ sends' = p
      /\ sent' = [sent EXCEPT ![t.inc][h] = Append(@, p)]
      /\ UNCHANGED <<conns, got>>
  BY DEF Send, MaySend
<1>2. Link(T, Q, N, M, sends, conns, S, G, S2, G2)
  BY DEF LinkInv, Linked
<1>3. /\ t \in GoodTcb /\ TcbShape(t, sends) /\ t.inc # 0 /\ sends \in 0 .. MaxSends
      /\ conns \in Nat /\ t.inc <= conns
  <2>1. /\ t \in GoodTcb /\ TcbShape(t, sends) /\ sends \in 0 .. MaxSends
        /\ conns \in Nat /\ t.inc <= conns
    BY <1>2, Sizes DEF Link, Shapes, Tables
  <2> QED BY <1>1, <2>1, GoodTcbFields DEF Unowned
<1>4. p \in Nat /\ p # 0 /\ p \in 0 .. MaxSends /\ sends \in Nat
  BY <1>1, <1>3, Sizes
<1>5. b \in 0 .. MSS /\ b > 0 /\ b <= MSS
  BY InputAssumption, Sizes
<1> HIDE DEF b, p
<1>6. /\ x \in GoodSeg /\ x.flags = {"ACK"} /\ x.len = b /\ x.pay = p /\ x.seq = t.nxt
      /\ x.ack = t.rcv /\ x.inc = t.inc /\ From(t, x)
  <2>1. t \in Tcb /\ {"ACK"} \in SUBSET Flags
    BY <1>3, GoodTcbFields DEF Flags
  <2> HIDE DEF t
  <2> QED BY <1>3, <1>4, <1>5, <2>1, SegFields
<1> HIDE DEF x
<1>7. /\ r \in GoodTcb /\ r.state = t.state /\ r.inc = t.inc /\ r.lport = t.lport
      /\ r.rport = t.rport /\ r.una = t.una /\ r.rcv = t.rcv /\ r.nxt = SeqEnd(x)
      /\ r.sendq = {x}
  BY <1>1, <1>3, <1>6, TrackedFields
<1>8. r.state \notin Unowned
  BY <1>1, <1>7 DEF Unowned
<1> HIDE DEF r
<1>9. t.inc \in 1 .. MaxConnects
  BY <1>3, GoodTcbFields, Sizes
<1>10. /\ \A k \in 1 .. MaxConnects, g \in Hosts : k # t.inc \/ g # h => sent'[k][g] = sent[k][g]
       /\ Len(sent[t.inc][h]) \in Nat /\ Len(sent'[t.inc][h]) = Len(sent[t.inc][h]) + 1
       /\ sent'[t.inc][h][Len(sent[t.inc][h]) + 1] = p
       /\ \A n \in 1 .. Len(sent[t.inc][h]) : sent'[t.inc][h][n] = sent[t.inc][h][n]
  <2> DEFINE k == t.inc
  <2>1. sent' = [sent EXCEPT ![k][h] = Append(@, p)] /\ k \in 1 .. MaxConnects
    BY <1>1, <1>9
  <2> HIDE DEF k
  <2>2. Longer(sent, sent', k, h, p)
    BY <1>4, <2>1, OneSent
  <2> QED BY <2>2 DEF Longer, k
<1>11. Changed(T, tcbs'[h], i, r) /\ tcbs'[h] \in Tables
  BY <1>1, <1>7, PutChanged DEF TypeInv
<1>12. /\ SameBut(S, Sx, t.inc) /\ Lengths(Sx)
       /\ Len(Sx[t.inc]) = Len(S[t.inc]) + 1 /\ Sx[t.inc][Len(Sx[t.inc])] = p
  <2>1. \A k \in 1 .. MaxConnects : Sx[k] = sent'[k][h] /\ S[k] = sent[k][h]
    BY DEF By
  <2>2. \A k \in 1 .. MaxConnects : sent'[k][h] \in Seq(1 .. MaxSends)
    BY DEF TypeInv, BoundInv
  <2> HIDE DEF S, Sx, t
  <2>3. SameBut(S, Sx, t.inc)
    BY <1>10, <2>1 DEF SameBut
  <2>4. Lengths(Sx)
    BY <2>1, <2>2, LenProperties DEF Lengths
  <2> QED BY <1>9, <1>10, <2>1, <2>3, <2>4
<1>13. /\ Link(tcbs'[h], Q, N, M, sends', conns, Sx, G, S2, G2) /\ Sendable(r, x)
       /\ t.nxt <= r.nxt
  <2> DEFINE U == tcbs'[h]
             m == sends'
  <2>1. Changed(T, U, i, r) /\ U \in Tables /\ t = T[i]
    BY <1>11
  <2>2. Lengths(Sx) /\ SameBut(S, Sx, r.inc)
    BY <1>7, <1>12
  <2>3. /\ T[i].sendq = {} /\ x.inc = T[i].inc /\ From(T[i], x) /\ x.seq = T[i].nxt
        /\ x.ack = T[i].rcv /\ r.inc = T[i].inc /\ r.una = T[i].una /\ r.rcv = T[i].rcv
        /\ r.lport = T[i].lport /\ r.rport = T[i].rport
    BY <1>1, <1>6, <1>7, <2>1
  <2>4. m \in 0 .. MaxSends /\ m = sends + 1
    BY <1>1, <1>4 DEF p
  <2>5. /\ Link(U, Q, N, M, m, conns, Sx, G, S2, G2) /\ Sendable(r, x)
        /\ T[i].nxt <= r.nxt
    <3> HIDE DEF T, Q, N, M, S, Sx, G, S2, G2, U, t, m
    <3>1. m \in 0 .. MaxSends /\ U \in Tables /\ r \in GoodTcb /\ x \in GoodSeg
      BY <1>6, <1>7, <2>1, <2>4
    <3>2. Link(T, Q, N, M, sends, conns, S, G, S2, G2) /\ Changed(T, U, i, r)
      BY <1>2, <2>1
    <3>3. r.sendq = {x} /\ r.nxt = SeqEnd(x)
      BY <1>7
    <3>4. Posted(T[i], r, x, sends, m, S[r.inc], Sx[r.inc])
      BY <1>1, <1>5, <1>6, <1>7, <1>12, <2>1, <2>4 DEF Posted
    <3> QED BY <2>2, <2>3, <3>1, <3>2, <3>3, <3>4, LinkPost
  <2> QED BY <2>1, <2>5
<1>14. Advance(t, r)
  <2>1. t.una \in Nat /\ t.rcv \in Nat
    BY <1>3, TcbNats
  <2> QED BY <1>7, <1>13, <2>1 DEF Advance
<1>15. \A g \in Hosts : g # h => By(sent', g) = By(sent, g)
  BY <1>10 DEF By
<1>16. LinkInv' /\ Advances
  <2>1. sends' = sends + 1 /\ conns' = conns
    BY <1>1 DEF p
  <2>2. Link(tcbs'[h], Q, N, M, sends', conns', Sx, G, S2, G2)
    BY <1>13, <2>1
  <2> QED BY <1>1, <1>6, <1>7, <1>8, <1>13, <1>14, <1>15, <2>1, <2>2, SentStep
<1>17. FreshInv'
  <2> SUFFICES ASSUME NEW k \in conns' + 1 .. MaxConnects, NEW g \in Hosts
               PROVE  sent'[k][g] = <<>> /\ got'[k][g] = <<>>
    BY DEF FreshInv
  <2>1. t.inc \in Nat
    BY <1>9
  <2> HIDE DEF t
  <2>2. k \in conns + 1 .. MaxConnects /\ k # t.inc /\ k \in 1 .. MaxConnects
    BY <1>1, <1>3, <2>1, Sizes
  <2> QED BY <1>1, <1>10, <2>2 DEF FreshInv
<1>18. StreamIntact'
  <2> SUFFICES ASSUME NEW k \in 1 .. MaxConnects, NEW g \in Hosts
               PROVE  /\ Len(got'[k][g]) <= Len(sent'[k][Peer[g]])
                      /\ \A n \in 1 .. Len(got'[k][g]) :
                            got'[k][g][n].pay = sent'[k][Peer[g]][n]
    BY DEF StreamIntact
  <2>1. /\ Peer[g] \in Hosts /\ got'[k][g] = got[k][g] /\ Len(got[k][g]) \in Nat
        /\ Len(sent[k][Peer[g]]) \in Nat /\ Len(got[k][g]) <= Len(sent[k][Peer[g]])
        /\ \A n \in 1 .. Len(got[k][g]) : got[k][g][n].pay = sent[k][Peer[g]][n]
    <3>1. Peer[g] \in Hosts
      BY PeerIsHost
    <3>2. got[k][g] \in Seq(Consumed) /\ sent[k][Peer[g]] \in Seq(1 .. MaxSends)
      BY <3>1 DEF TypeInv, BoundInv
    <3> QED BY <1>1, <3>1, <3>2, LenProperties DEF StreamIntact
  <2>2. CASE k # t.inc \/ Peer[g] # h
    <3>1. sent'[k][Peer[g]] = sent[k][Peer[g]]
      BY <1>10, <2>1, <2>2
    <3> QED BY <2>1, <3>1
  <2>3. CASE k = t.inc /\ Peer[g] = h
    <3>1. /\ Len(sent'[k][Peer[g]]) = Len(sent[k][Peer[g]]) + 1
          /\ \A n \in 1 .. Len(sent[k][Peer[g]]) : sent'[k][Peer[g]][n] = sent[k][Peer[g]][n]
      BY <1>10, <2>3
    <3>2. Len(got'[k][g]) <= Len(sent'[k][Peer[g]])
      BY <2>1, <3>1
    <3>3. ASSUME NEW n \in 1 .. Len(got'[k][g])
          PROVE  got'[k][g][n].pay = sent'[k][Peer[g]][n]
      <4>1. n \in 1 .. Len(got[k][g]) /\ n \in 1 .. Len(sent[k][Peer[g]])
        BY <2>1
      <4> QED BY <2>1, <3>1, <4>1
    <3> QED BY <3>2, <3>3
  <2> QED BY <2>2, <2>3
<1> QED BY <1>16, <1>17, <1>18

\* The first slot that tcp_find_exact finds holds a connection of the segment.
LEMMA Found ==
    ASSUME NEW h \in Hosts, NEW s, NEW i, First(FindExact(h, s.dst, s.src), i)
    PROVE  i \in Slots /\ For(tcbs[h][i], s) /\ tcbs[h][i].state \notin Unowned
BY DEF First, FindExact, Valid, For, Unowned

LEMMA MatchedLink ==
    ASSUME NoWrap, TypeInv, TypeInv', LinkInv, FreshInv, StreamIntact,
           NEW h \in Hosts, net[h] # <<>>, NEW i \in Slots,
           NEW s, s = Head(net[h]), For(tcbs[h][i], s), Matched(h, i, s)
    PROVE  LinkInv' /\ Advances /\ FreshInv' /\ StreamIntact'
<1>1. CASE DataInOrder(h, i, s)
  BY <1>1, DataStep
<1>2. CASE ~ DataInOrder(h, i, s)
  <2>1. UNCHANGED hist /\ conns' = conns
    BY <1>2 DEF Matched, SynAck, FinalAck, DataOutOfOrder, PeerCloses, AckOnly, OwnFinAcked,
                LastAck, PeerFinLast, Ignored, envs
  <2>2. FreshInv' /\ StreamIntact'
    BY <2>1, SameHistory
  <2>3. CASE SynAck(h, i, s)
    BY <2>2, <2>3, SynAckStep
  <2>4. CASE FinalAck(h, i, s)
    BY <2>2, <2>4, FinalAckStep
  <2>5. CASE DataOutOfOrder(h, i, s) \/ AckOnly(h, i, s)
    BY <2>2, <2>5, FieldOnlyStep
  <2>6. CASE PeerCloses(h, i, s)
    BY <2>2, <2>6, PeerClosesStep
  <2>7. CASE OwnFinAcked(h, i, s)
    BY <2>2, <2>7, OwnFinStep
  <2>8. CASE LastAck(h, i, s)
    BY <2>2, <2>8, LastAckStep
  <2>9. CASE PeerFinLast(h, i, s)
    BY <2>2, <2>9, PeerFinLastStep
  <2>10. CASE Ignored(h, i, s)
    <3>1. Consume(h) /\ UNCHANGED <<tcbs, sends, conns, sent, got>>
      BY <2>10 DEF Ignored, tvars, envs, hist
    <3> QED BY <2>2, <3>1, DropStep
  <2> QED BY <1>2, <2>3, <2>4, <2>5, <2>6, <2>7, <2>8, <2>9, <2>10 DEF Matched
<1> QED BY <1>1, <1>2

LEMMA ReceiveLink ==
    ASSUME NoWrap, TypeInv, TypeInv', LinkInv, FreshInv, StreamIntact, NEW h \in Hosts, Receive(h)
    PROVE  LinkInv' /\ Advances /\ FreshInv' /\ StreamIntact'
<1> DEFINE s == Head(net[h])
<1>1. net[h] # <<>>
  BY DEF Receive
<1>2. CASE SynToListener(h, s)
  <2>1. UNCHANGED hist /\ conns' = conns
    BY <1>2 DEF SynToListener, envs
  <2>2. FreshInv' /\ StreamIntact'
    BY <2>1, SameHistory
  <2> HIDE DEF s
  <2> QED BY <1>1, <1>2, <2>2, AcceptLink DEF s
<1>3. CASE Unmatched(h, s)
  <2>1. /\ UNCHANGED hist /\ conns' = conns /\ Consume(h)
        /\ UNCHANGED <<tcbs, sends, conns, sent, got>>
    BY <1>3 DEF Unmatched, tvars, envs, hist
  <2> QED BY <1>1, <2>1, SameHistory, DropStep
<1>4. CASE \E i \in Slots : First(FindExact(h, s.dst, s.src), i) /\ Matched(h, i, s)
  <2>1. PICK i \in Slots : First(FindExact(h, s.dst, s.src), i) /\ Matched(h, i, s)
    BY <1>4
  <2>2. For(tcbs[h][i], s)
    BY <2>1, Found
  <2> QED BY <1>1, <2>1, <2>2, MatchedLink
<1> QED BY <1>2, <1>3, <1>4 DEF Receive

LEMMA ApplicationLink ==
    ASSUME NoWrap, TypeInv, TypeInv', LinkInv, FreshInv, StreamIntact, Application
    PROVE  LinkInv' /\ Advances /\ FreshInv' /\ StreamIntact'
<1>1. ASSUME NEW l \in Listens, Listen(l[1], l[2]) PROVE LinkInv' /\ Advances /\ FreshInv' /\ StreamIntact'
  <2>1. l[1] \in Hosts /\ l[2] \in Nat
    BY InputAssumption
  <2>2. UNCHANGED hist /\ conns' = conns
    BY <1>1 DEF Listen, envs
  <2> QED BY <1>1, <2>1, <2>2, SameHistory, ListenLink
<1>2. ASSUME NEW d \in Dials, Connect(d[1], d[2], d[3])
      PROVE  LinkInv' /\ Advances /\ FreshInv' /\ StreamIntact'
  <2>1. d[1] \in Hosts /\ d[2] \in Nat /\ d[3] \in Nat
    BY InputAssumption
  <2>2. UNCHANGED hist /\ conns' = conns + 1
    BY <1>2 DEF Connect
  <2> QED BY <1>2, <2>1, <2>2, SameHistory, ConnectLink
<1>3. ASSUME NEW h \in Hosts, NEW i \in Slots, Close(h, i)
      PROVE  LinkInv' /\ Advances /\ FreshInv' /\ StreamIntact'
  <2>1. UNCHANGED hist /\ conns' = conns
    BY <1>3 DEF Close, envs
  <2> QED BY <1>3, <2>1, SameHistory, CloseLink
<1>4. ASSUME NEW h \in Senders, NEW i \in Slots, NEW n \in Lens, Send(h, i, n)
      PROVE  LinkInv' /\ Advances /\ FreshInv' /\ StreamIntact'
  <2>1. h \in Hosts
    BY InputAssumption
  <2> QED BY <1>4, <2>1, SendLink
<1> QED BY <1>1, <1>2, <1>3, <1>4 DEF Application

\* Steps that touch neither a TCB nor a segment.
LEMMA StillLink ==
    ASSUME TypeInv, LinkInv, FreshInv, StreamIntact,
           UNCHANGED <<tcbs, net, conns, sends, sent, got>>
    PROVE  LinkInv' /\ Advances /\ FreshInv' /\ StreamIntact'
<1>1. FreshInv' /\ StreamIntact'
  BY DEF FreshInv, StreamIntact
<1>2. LinkInv'
  BY DEF LinkInv, Linked, By
<1> QED BY <1>1, <1>2, NoChange DEF TypeInv

LEMMA TimerLink ==
    ASSUME NoWrap, TypeInv, TypeInv', LinkInv, FreshInv, StreamIntact,
           NEW h \in Hosts, NEW i \in Slots,
           Retransmit(h, i) \/ TimerEnds(h, i) \/ TimeWaitExpires(h, i)
    PROVE  LinkInv' /\ Advances /\ FreshInv' /\ StreamIntact'
<1>1. CASE Retransmit(h, i)
  <2>1. UNCHANGED hist /\ conns' = conns
    BY <1>1 DEF Retransmit, envs
  <2> QED BY <1>1, <2>1, SameHistory, RetransmitLink
<1>2. CASE TimerEnds(h, i)
  BY <1>2, StillLink DEF TimerEnds, envs, hist
<1>3. CASE TimeWaitExpires(h, i)
  <2>1. UNCHANGED hist /\ conns' = conns
    BY <1>3 DEF TimeWaitExpires, envs
  <2> QED BY <1>3, <2>1, SameHistory, TimeWaitLink
<1> QED BY <1>1, <1>2, <1>3

LEMMA LinkStep ==
    ASSUME NoWrap, TypeInv, TypeInv', LinkInv, FreshInv, StreamIntact, [Next]_vars
    PROVE  LinkInv' /\ Advances /\ FreshInv' /\ StreamIntact'
<1>1. CASE Application
  BY <1>1, ApplicationLink
<1>2. CASE Flap
  BY <1>2, StillLink DEF Flap, tvars, hist
<1>3. ASSUME NEW h \in Hosts, Receive(h) PROVE LinkInv' /\ Advances /\ FreshInv' /\ StreamIntact'
  BY <1>3, ReceiveLink
<1>4. ASSUME NEW h \in Hosts, Lose(h) PROVE LinkInv' /\ Advances /\ FreshInv' /\ StreamIntact'
  <2>1. /\ UNCHANGED hist /\ conns' = conns /\ Consume(h) /\ net[h] # <<>>
        /\ UNCHANGED <<tcbs, sends, conns, sent, got>>
    BY <1>4 DEF Lose, tvars, hist
  <2> QED BY <2>1, SameHistory, DropStep
<1>5. ASSUME NEW h \in Hosts, NEW i \in Slots,
             Retransmit(h, i) \/ TimerEnds(h, i) \/ TimeWaitExpires(h, i)
      PROVE  LinkInv' /\ Advances /\ FreshInv' /\ StreamIntact'
  BY <1>5, TimerLink
<1>6. CASE UNCHANGED vars
  BY <1>6, StillLink DEF vars, tvars, envs, hist
<1> QED BY <1>1, <1>2, <1>3, <1>4, <1>5, <1>6 DEF Next

LEMMA LinkInit ==
    ASSUME NoWrap, Init
    PROVE  LinkInv /\ FreshInv /\ StreamIntact
<1>1. TypeInv
  BY TypeInit
<1>2. FreshInv
  <2> SUFFICES ASSUME NEW k \in conns + 1 .. MaxConnects, NEW h \in Hosts
               PROVE  sent[k][h] = <<>> /\ got[k][h] = <<>>
    BY DEF FreshInv
  <2>1. k \in 1 .. MaxConnects
    BY DEF Init
  <2> QED BY <2>1 DEF Init
<1>3. StreamIntact
  <2> SUFFICES ASSUME NEW k \in 1 .. MaxConnects, NEW h \in Hosts
               PROVE  /\ Len(got[k][h]) <= Len(sent[k][Peer[h]])
                      /\ \A n \in 1 .. Len(got[k][h]) : got[k][h][n].pay = sent[k][Peer[h]][n]
    BY DEF StreamIntact
  <2>1. got[k][h] = <<>> /\ sent[k][Peer[h]] = <<>>
    BY PeerIsHost DEF Init
  <2> QED BY <2>1
<1>4. ASSUME NEW h \in Hosts PROVE Linked(h)
  <2> DEFINE T == tcbs[h]
             Q == tcbs[Peer[h]]
             N == net[h]
             M == net[Peer[h]]
             S == By(sent, h)
             G == By(got, Peer[h])
             S2 == By(sent, Peer[h])
             G2 == By(got, h)
  <2>1. /\ T \in Tables /\ Q \in Tables /\ N = <<>> /\ M = <<>>
        /\ N \in Seq(GoodSeg) /\ M \in Seq(GoodSeg) /\ sends = 0 /\ conns = 0
        /\ \A i \in Slots : T[i] = Zeroed /\ Q[i] = Zeroed
    BY <1>1, PeerIsHost DEF Init, TypeInv, TcbsInv, NetInv, Tables
  <2>2. Lengths(S) /\ Lengths(G) /\ Lengths(S2) /\ Lengths(G2)
    BY PeerIsHost DEF Init, By, Lengths
  <2>3. sends \in 0 .. MaxSends /\ conns \in 0 .. MaxConnects
    BY <2>1, Sizes
  <2>4. Conns(T) = {} /\ Conns(Q) = {} /\ In(N) = {} /\ In(M) = {}
    BY <2>1, ZeroedFields DEF Conns, In
  <2>5. TcbShape(Zeroed, sends)
    BY <2>3, ZeroedFields, ZeroShape DEF Unowned
  <2> HIDE DEF T, Q, N, M, S, G, S2, G2
  <2>6. Shapes(T, N, sends, conns) /\ Shapes(Q, M, sends, conns)
    BY <2>1, <2>4, <2>5, ZeroedFields DEF Shapes
  <2>7. Len(N) = 0 /\ Len(M) = 0
    BY <2>1
  <2>8. Way(T, Q, N) /\ Way(Q, T, M)
    <3>1. SynsFirst(N) /\ SynsFirst(M)
      BY <2>7 DEF SynsFirst
    <3>2. /\ Distinct(T) /\ Addressed(T, Q, N) /\ Opening(Q, N) /\ NewestLast(Q, N)
          /\ Current(T, N) /\ SameConnection(T, Q) /\ SynsLive(T, Q, N) /\ Partner(T, Q, N)
          /\ Numbers(T, Q, N) /\ Contents(T, Q, N)
      BY <2>4 DEF Distinct, Addressed, Opening, NewestLast, Current, SameConnection, SynsLive,
                  Partner, Numbers, Contents
    <3>3. /\ Distinct(Q) /\ Addressed(Q, T, M) /\ Opening(T, M) /\ NewestLast(T, M)
          /\ Current(Q, M) /\ SameConnection(Q, T) /\ SynsLive(Q, T, M) /\ Partner(Q, T, M)
          /\ Numbers(Q, T, M) /\ Contents(Q, T, M)
      BY <2>4 DEF Distinct, Addressed, Opening, NewestLast, Current, SameConnection, SynsLive,
                  Partner, Numbers, Contents
    <3> QED BY <3>1, <3>2, <3>3 DEF Way
  <2>9. Story(T, Q, S, G) /\ Story(Q, T, S2, G2)
    BY <2>4 DEF Story
  <2>10. Link(T, Q, N, M, sends, conns, S, G, S2, G2)
    BY <2>1, <2>2, <2>3, <2>6, <2>8, <2>9 DEF Link
  <2> QED BY <2>10 DEF Linked, T, Q, N, M, S, G, S2, G2
<1> QED BY <1>2, <1>3, <1>4 DEF LinkInv

\* The inductive invariant of the connections, while no number wraps: every
\* link keeps its shape, its two ends agree and its history is accounted for.
THEOREM LinkInvariant ==
    ASSUME NoWrap
    PROVE  Spec => [](LinkInv /\ FreshInv /\ StreamIntact)
<1>1. Init => LinkInv /\ FreshInv /\ StreamIntact
  BY LinkInit
<1>2. TypeInv /\ TypeInv' /\ (LinkInv /\ FreshInv /\ StreamIntact) /\ [Next]_vars
         => (LinkInv /\ FreshInv /\ StreamIntact)'
  BY LinkStep
<1> QED BY <1>1, <1>2, TypeInvariant, PTL DEF Spec

\* The in-order branch of tcp_receive delivers what tcp_send accepted at the
\* other end, in order and once, under loss, duplication by retransmission and
\* failed ACKs: what rcv_nxt has passed is a beginning of what was sent.
THEOREM StreamCorrect == ASSUME NoWrap PROVE Spec => []StreamIntact
BY LinkInvariant, PTL

\* tcp_sendq_ack and the one-segment window keep snd_una .. snd_nxt and the
\* queue in step: the queued segment is exactly the unacknowledged range.
THEOREM QueueCorrect == ASSUME NoWrap PROVE Spec => []QueueCoversUnacked
<1>1. TypeInv /\ LinkInv => QueueCoversUnacked
  <2> SUFFICES ASSUME TypeInv, LinkInv, NEW h \in Hosts, NEW i \in Slots
               PROVE  LET t == tcbs[h][i]
                      IN IF t.sendq = {} THEN t.una = t.nxt
                         ELSE \A s \in t.sendq : s.seq = t.una /\ SeqEnd(s) = t.nxt
    BY DEF QueueCoversUnacked
  <2> DEFINE t == tcbs[h][i]
  <2>1. t \in GoodTcb /\ TcbShape(t, sends)
    BY DEF LinkInv, Linked, Link, Shapes, Tables
  <2> HIDE DEF t
  <2>2. \A s \in t.sendq : s.seq = t.una /\ SeqEnd(s) = t.nxt
    BY <2>1, SegEnd DEF TcbShape, Queued, GoodTcb
  <2>3. t.sendq = {} => t.una = t.nxt
    BY <2>1 DEF TcbShape
  <2> QED BY <2>2, <2>3 DEF t
<1> QED BY <1>1, LinkInvariant, TypeInvariant, PTL

\* A TCB of the connection of a TCB is in use at its end.
LEMMA OwnerOf ==
    ASSUME LinkInv, NEW h \in Hosts, NEW i \in Slots, tcbs[h][i].inc # 0
    PROVE  i \in Conns(tcbs[h]) /\ tcbs[h][i].inc \in 1 .. MaxConnects
<1>1. tcbs[h] \in Tables /\ TcbShape(tcbs[h][i], sends)
  BY DEF LinkInv, Linked, Link, Shapes
<1>2. i \in Conns(tcbs[h])
  BY <1>1 DEF TcbShape, Conns
<1> QED BY <1>1, <1>2, ConnInc

\* Neither end expects more than the other has sent, nor takes for
\* acknowledged what the other has not received: a SYN-ACK, an ACK or a FIN
\* that was sent before is never mistaken for one of the present connection.
THEOREM NumbersCorrect == ASSUME NoWrap PROVE Spec => []NumbersAgree
<1>1. LinkInv => NumbersAgree
  <2> SUFFICES ASSUME LinkInv, NEW h \in Hosts, NEW i \in Valid(h),
                      NEW j \in Of(Peer[h], tcbs[h][i].inc)
               PROVE  /\ tcbs[h][i].una <= tcbs[Peer[h]][j].rcv
                      /\ tcbs[Peer[h]][j].rcv <= tcbs[h][i].nxt
    BY DEF NumbersAgree
  <2> DEFINE T == tcbs[h]
             Q == tcbs[Peer[h]]
  <2>1. /\ Peer[h] \in Hosts /\ i \in Slots /\ j \in Slots
        /\ T[i].inc # 0 /\ Q[j].inc = T[i].inc
    BY PeerIsHost DEF Of, Valid
  <2>2. i \in Conns(T) /\ j \in Conns(Q)
    BY <2>1, OwnerOf
  <2>3. Numbers(T, Q, net[h]) /\ TcbShape(T[i], sends) /\ T[i] \in GoodTcb
    BY <2>1 DEF LinkInv, Linked, Link, Way, Shapes, Tables
  <2>4. T[i].una <= T[i].nxt /\ T[i].una \in Nat /\ T[i].nxt \in Nat
    BY <2>3, TcbNats DEF TcbShape
  <2>5. Q[j].rcv = T[i].una \/ Q[j].rcv = T[i].nxt
    BY <2>1, <2>2, <2>3 DEF Numbers
  <2> QED BY <2>4, <2>5
<1> QED BY <1>1, LinkInvariant, PTL

\* An end that is ESTABLISHED has not been left alone: the peer's TCB of the
\* same connection is still there and has not passed FIN_WAIT_2.
THEOREM PeerCorrect == ASSUME NoWrap PROVE Spec => []EstablishedHasPeer
<1>1. LinkInv => EstablishedHasPeer
  <2> SUFFICES ASSUME LinkInv, NEW h \in Hosts, NEW i \in Valid(h),
                      tcbs[h][i].state = "ESTABLISHED"
               PROVE  \E j \in Of(Peer[h], tcbs[h][i].inc) :
                         tcbs[Peer[h]][j].state \in
                             {"SYN_RECEIVED", "ESTABLISHED", "FIN_WAIT_1", "FIN_WAIT_2"}
    BY DEF EstablishedHasPeer
  <2>1. i \in Conns(tcbs[h])
    BY DEF Valid, Conns
  <2>2. Partner(tcbs[h], tcbs[Peer[h]], net[h]) /\ tcbs[h] \in Tables
    BY DEF LinkInv, Linked, Link, Way
  <2>3. tcbs[h][i].inc # 0
    BY <2>1, <2>2, ConnInc
  <2>4. PICK j \in Conns(tcbs[Peer[h]]) :
           /\ tcbs[Peer[h]][j].inc = tcbs[h][i].inc
           /\ tcbs[Peer[h]][j].state \in
                  {"SYN_RECEIVED", "ESTABLISHED", "FIN_WAIT_1", "FIN_WAIT_2"}
    BY <2>1, <2>2 DEF Partner, Has
  <2>5. j \in Of(Peer[h], tcbs[h][i].inc)
    BY <2>3, <2>4 DEF Of, Valid, Conns
  <2> QED BY <2>4, <2>5
<1> QED BY <1>1, LinkInvariant, PTL

\* tcp_sendq_ack frees a payload only after the peer's tcp_receive took it:
\* what is neither consumed there nor queued here does not exist.
THEOREM AckedCorrect == ASSUME NoWrap PROVE Spec => []AckedIsConsumed
<1>1. TypeInv /\ LinkInv => AckedIsConsumed
  <2> SUFFICES ASSUME TypeInv, LinkInv, NEW h \in Hosts, NEW i \in Slots,
                      tcbs[h][i].inc # 0, NEW n \in 1 .. Len(sent[tcbs[h][i].inc][h])
               PROVE  \/ n <= Len(got[tcbs[h][i].inc][Peer[h]])
                      \/ \E s \in tcbs[h][i].sendq : s.pay = sent[tcbs[h][i].inc][h][n]
    BY DEF AckedIsConsumed
  <2> DEFINE t == tcbs[h][i]
             a == sent[t.inc][h]
             b == got[t.inc][Peer[h]]
  <2>1. i \in Conns(tcbs[h]) /\ t.inc \in 1 .. MaxConnects
    BY OwnerOf
  <2>2. Sender(t, tcbs[Peer[h]], a, b)
    BY <2>1 DEF LinkInv, Linked, Link, Story, By
  <2>3. Len(a) \in Nat /\ Len(b) \in Nat
    <3>1. a \in Seq(1 .. MaxSends) /\ b \in Seq(Consumed)
      BY <2>1, PeerIsHost DEF TypeInv, BoundInv
    <3> HIDE DEF a, b
    <3> QED BY <3>1, LenProperties
  <2>4. t \in GoodTcb
    BY DEF TypeInv, TcbsInv
  <2> HIDE DEF t, a, b
  <2>5. ASSUME ~ (n <= Len(b)) PROVE \E s \in t.sendq : s.pay = a[n]
    <3>1. n \in 1 .. Len(a)
      BY DEF a, t
    <3>2. n = Len(a) /\ Len(b) # Len(a)
      BY <2>2, <2>3, <2>5, <3>1 DEF Sender
    <3>3. PICK s \in t.sendq : s.len # 0
      BY <2>2, <3>2 DEF Sender
    <3>4. s.len \in Nat
      BY <2>4, SegNats DEF GoodTcb
    <3> QED BY <2>2, <3>2, <3>3, <3>4 DEF Sender
  <2> QED BY <2>5 DEF t, a, b
<1> QED BY <1>1, LinkInvariant, TypeInvariant, PTL

\* No segment, however old, moves snd_una, snd_nxt or rcv_nxt of a connection
\* back.
THEOREM NumbersGrow == ASSUME NoWrap PROVE Spec => NumbersNeverRegress
<1>1. TypeInv /\ TypeInv' /\ (LinkInv /\ FreshInv /\ StreamIntact) /\ [Next]_vars
         => \A h \in Hosts, i \in Slots :
               tcbs[h][i].inc # 0 /\ tcbs'[h][i].inc = tcbs[h][i].inc =>
                  /\ tcbs[h][i].una <= tcbs'[h][i].una
                  /\ tcbs[h][i].nxt <= tcbs'[h][i].nxt
                  /\ tcbs[h][i].rcv <= tcbs'[h][i].rcv
  BY LinkStep DEF Advances, Advance
<1> QED BY <1>1, LinkInvariant, TypeInvariant, PTL DEF Spec, NumbersNeverRegress

=============================================================================
