----------------------------- MODULE ArpProofs -----------------------------
(***************************************************************************)
(* Theorems about the ARP cache and the packets that wait for an answer,   *)
(* for every number of addresses, slots and payloads.                      *)
(***************************************************************************)
EXTENDS Arp, FiniteSetTheorems, SequenceTheorems, TLAPS

Entry == [ip : Addrs, mac : Macs, age : 0 .. Timeout]
Packet == [ip : Addrs, pay : 1 .. MaxPayloads]

\* The cache: an entry holds the MAC address last heard for its address.  That
\* needs that an address has one entry: arp_cache_add refreshes only the first.
CacheInv ==
    /\ entries \in [Slots -> Entry \cup {Free}]
    /\ heard \in [Addrs -> Macs \cup {Free}]
    /\ count = Cardinality(Known)
    /\ \A i, j \in Known : entries[i].ip = entries[j].ip => i = j
    /\ \A i \in Known : entries[i].mac = heard[entries[i].ip]

\* The pending packets and the fates of all payloads.
QueueInv ==
    /\ pending \in [PSlots -> Packet \cup {Free}]
    /\ pendingCount = Cardinality(Waiting)
    /\ fate \in Seq(Fates) /\ Len(fate) <= MaxPayloads
    /\ PayloadHasOneOwner

\* What is left of the types.
RestInv ==
    /\ linkUp \in BOOLEAN /\ ifaceUp \in BOOLEAN /\ flaps \in 0 .. MaxFlaps
    /\ inbox \in Seq(Arrival)
    /\ out \subseteq [ip : Addrs, mac : Macs] /\ answered \subseteq Addrs

ArpInv == CacheInv /\ QueueInv /\ RestInv /\ NothingWaitsForKnown /\ SentToLatestMac

-----------------------------------------------------------------------------
LEMMA FreeIsNoRecord == Free \notin Entry /\ Free \notin Packet
  BY ArpAssumption DEF Entry, Packet

LEMMA SlotSetsFinite ==
    /\ \A S \in SUBSET Slots : IsFiniteSet(S) /\ Cardinality(S) \in Nat
    /\ \A S \in SUBSET PSlots : IsFiniteSet(S) /\ Cardinality(S) \in Nat
<1>1. IsFiniteSet(Slots) /\ IsFiniteSet(PSlots)
  <2>1. CacheSize \in Int /\ MaxPending \in Int /\ 1 \in Int
    BY ArpAssumption
  <2>2. IsFiniteSet(1 .. CacheSize)
    BY <2>1, FS_Interval, Zenon
  <2>3. IsFiniteSet(1 .. MaxPending)
    BY <2>1, FS_Interval, Zenon
  <2>. QED
    BY <2>2, <2>3 DEF Slots, PSlots
<1>. QED
  BY <1>1, FS_Subset, FS_CardinalityType

-----------------------------------------------------------------------------
(***************************************************************************)
(* The cache.                                                              *)
(***************************************************************************)
\* arp_cache_add writes one slot, the address's own or a free one, or none
\* because the cache is full of other addresses.
LEMMA AddWrites ==
    ASSUME CacheInv, NEW ip \in Addrs, NEW mac \in Macs, Add(ip, mac)
    PROVE  \/ \E i \in Slots :
                 /\ entries' = [entries EXCEPT ![i] = [ip |-> ip, mac |-> mac, age |-> 0]]
                 /\ \/ i \in EntriesOf(ip) /\ count' = count
                    \/ i \notin Known /\ EntriesOf(ip) = {} /\ count' = count + 1
           \/ EntriesOf(ip) = {} /\ UNCHANGED cache
<1>1. ASSUME NEW i \in EntriesOf(ip), entries' = Refreshed(i, mac)
      PROVE  entries' = [entries EXCEPT ![i] = [ip |-> ip, mac |-> mac, age |-> 0]]
  <2>1. i \in Slots /\ entries[i] \in Entry /\ entries[i].ip = ip
    BY DEF EntriesOf, Known, CacheInv
  <2>2. PICK e \in Entry : e = entries[i]
    BY <2>1
  <2>3. [[e EXCEPT !.mac = mac] EXCEPT !.age = 0] = [ip |-> ip, mac |-> mac, age |-> 0]
    <3>. DEFINE y == [e EXCEPT !.mac = mac]
    <3>1. y \in Entry /\ y.ip = ip /\ y.mac = mac
      BY <2>1, <2>2 DEF Entry
    <3>2. 0 \in 0 .. Timeout
      BY ArpAssumption
    <3>3. PICK x : x = [y EXCEPT !.age = 0]
      OBVIOUS
    <3>4. x \in Entry /\ x.ip = ip /\ x.mac = mac /\ x.age = 0
      <4>. HIDE DEF y
      <4>. QED
        BY <3>1, <3>2, <3>3 DEF Entry
    <3>5. x = [ip |-> x.ip, mac |-> x.mac, age |-> x.age]
      BY <3>4 DEF Entry
    <3>. QED
      BY <3>3, <3>4, <3>5
  <2>4. entries' = [entries EXCEPT ![i] = [[e EXCEPT !.mac = mac] EXCEPT !.age = 0]]
    BY <1>1, <2>1, <2>2 DEF Refreshed, CacheInv
  <2>. QED
    BY <2>3, <2>4
<1>2. ASSUME NEW i \in EntriesOf(ip), entries' = Refreshed(i, mac), UNCHANGED count
      PROVE  \E j \in Slots :
                /\ entries' = [entries EXCEPT ![j] = [ip |-> ip, mac |-> mac, age |-> 0]]
                /\ j \in EntriesOf(ip) /\ count' = count
  BY <1>1, <1>2 DEF EntriesOf, Known
<1>3. CASE \E i \in EntriesOf(ip) :
              entries' = Refreshed(i, mac) /\ UNCHANGED count
  BY <1>2, <1>3
<1>. QED
  BY <1>3 DEF Add, cache

\* What is learnt for one address leaves the others as they were.
LEMMA AddKeeps ==
    ASSUME CacheInv, NEW ip \in Addrs, NEW mac \in Macs, Add(ip, mac),
           heard' = [heard EXCEPT ![ip] = mac]
    PROVE  /\ CacheInv'
           /\ \A a \in Addrs \ {ip} : (EntriesOf(a))' = EntriesOf(a)
<1>. DEFINE new == [ip |-> ip, mac |-> mac, age |-> 0]
<1>0. new \in Entry /\ new.ip = ip /\ new.mac = mac
  BY ArpAssumption DEF Entry
<1>h. /\ heard' \in [Addrs -> Macs \cup {Free}] /\ heard'[ip] = mac
      /\ \A a \in Addrs \ {ip} : heard'[a] = heard[a]
  BY DEF CacheInv
<1>k. \A i \in Known : entries[i] \in Entry /\ entries[i].ip \in Addrs
  BY DEF CacheInv, Known, Entry
<1>1. ASSUME NEW i \in Slots,
             entries' = [entries EXCEPT ![i] = new],
             \/ i \in EntriesOf(ip) /\ count' = count
             \/ i \notin Known /\ EntriesOf(ip) = {} /\ count' = count + 1
      PROVE  /\ CacheInv'
             /\ \A a \in Addrs \ {ip} : (EntriesOf(a))' = EntriesOf(a)
  <2>. HIDE DEF new
  <2>1. /\ entries' \in [Slots -> Entry \cup {Free}]
        /\ entries'[i] = new /\ \A j \in Slots \ {i} : entries'[j] = entries[j]
    BY <1>0, <1>1 DEF CacheInv
  <2>2. Known' = Known \cup {i}
    BY <1>0, <2>1, FreeIsNoRecord DEF Known
  <2>3. \A j \in Known \ {i} : entries[j].ip # ip
    BY <1>1 DEF EntriesOf, CacheInv
  <2>4. \A j \in Known' : j = i \/ (j \in Known \ {i} /\ entries'[j] = entries[j])
    BY <2>1, <2>2 DEF Known
  <2>5. count' = Cardinality(Known')
    <3>1. IsFiniteSet(Known) /\ Cardinality(Known) \in Nat /\ count = Cardinality(Known)
      BY SlotSetsFinite DEF Known, CacheInv
    <3>2. CASE i \in Known
      <4>1. count' = count /\ Known' = Known
        BY <1>1, <2>2, <3>2
      <4>. QED
        BY <3>1, <4>1
    <3>3. CASE i \notin Known
      <4>1. count' = count + 1
        BY <1>1, <3>3 DEF EntriesOf
      <4>. QED
        BY <2>2, <3>1, <3>3, <4>1, FS_AddElement
    <3>. QED
      BY <3>2, <3>3
  <2>6. \A j, k \in Known' : entries'[j].ip = entries'[k].ip => j = k
    BY <1>0, <2>1, <2>3, <2>4 DEF CacheInv
  <2>7. \A j \in Known' : entries'[j].mac = heard'[entries'[j].ip]
    BY <1>0, <1>h, <1>k, <2>1, <2>3, <2>4 DEF CacheInv
  <2>8. ASSUME NEW a \in Addrs \ {ip} PROVE (EntriesOf(a))' = EntriesOf(a)
    <3>1. i \notin EntriesOf(a)
      BY <1>1 DEF EntriesOf
    <3>. QED
      BY <1>0, <2>1, <2>2, <2>4, <3>1 DEF EntriesOf
  <2>. QED
    BY <1>h, <2>1, <2>5, <2>6, <2>7, <2>8 DEF CacheInv
<1>2. CASE EntriesOf(ip) = {} /\ UNCHANGED cache
  <2>1. entries' = entries /\ count' = count /\ Known' = Known
    BY <1>2 DEF cache, Known
  <2>2. \A i \in Known : entries[i].ip # ip
    BY <1>2 DEF EntriesOf
  <2>3. \A i \in Known : entries[i].mac = heard'[entries[i].ip]
    BY <1>h, <1>k, <2>2 DEF CacheInv
  <2>4. count' = Cardinality(Known')
    BY <2>1 DEF CacheInv
  <2>5. \A a : (EntriesOf(a))' = EntriesOf(a)
    BY <2>1 DEF EntriesOf
  <2>. QED
    BY <1>h, <2>1, <2>3, <2>4, <2>5 DEF CacheInv
<1>. QED
  BY <1>1, <1>2, AddWrites

\* Time passes for all entries at once.
LEMMA TickKeeps ==
    ASSUME CacheInv, Tick
    PROVE  CacheInv' /\ \A a \in Addrs : (EntriesOf(a))' = EntriesOf(a)
<1>1. /\ count' = count /\ heard' = heard
      /\ entries' = [i \in Slots |->
                        IF i \in Known /\ entries[i].age < Timeout
                        THEN [entries[i] EXCEPT !.age = @ + 1] ELSE entries[i]]
  BY DEF Tick
<1>2. ASSUME NEW e \in Entry, e.age < Timeout
      PROVE  /\ [e EXCEPT !.age = @ + 1] \in Entry
             /\ [e EXCEPT !.age = @ + 1].ip = e.ip /\ [e EXCEPT !.age = @ + 1].mac = e.mac
  BY <1>2, ArpAssumption DEF Entry
<1>3. ASSUME NEW i \in Known
      PROVE  /\ entries'[i] \in Entry
             /\ entries'[i].ip = entries[i].ip /\ entries'[i].mac = entries[i].mac
  <2>1. i \in Slots /\ entries[i] \in Entry
    BY DEF Known, CacheInv
  <2>2. CASE entries[i].age < Timeout
    <3>1. entries'[i] = [entries[i] EXCEPT !.age = @ + 1]
      BY <1>1, <2>1, <2>2
    <3>. QED
      BY <1>2, <2>1, <2>2, <3>1
  <2>3. CASE ~(entries[i].age < Timeout)
    BY <1>1, <2>1, <2>3
  <2>. QED
    BY <2>2, <2>3
<1>4. \A i \in Slots \ Known : entries'[i] = Free
  BY <1>1 DEF Known
<1>5. Known' = Known /\ entries' \in [Slots -> Entry \cup {Free}]
  <2>1. Known' = Known
    BY <1>3, <1>4, FreeIsNoRecord DEF Known
  <2>2. DOMAIN entries' = Slots /\ entries' = [i \in Slots |-> entries'[i]]
    BY <1>1
  <2>. QED
    BY <1>3, <1>4, <2>1, <2>2
<1>6. count' = Cardinality(Known')
  BY <1>1, <1>5 DEF CacheInv
<1>7. \A a : (EntriesOf(a))' = EntriesOf(a)
  BY <1>3, <1>5 DEF EntriesOf
<1>8. \A i, j \in Known' : entries'[i].ip = entries'[j].ip => i = j
  BY <1>3, <1>5 DEF CacheInv
<1>9. \A i \in Known' : entries'[i].mac = heard'[entries'[i].ip]
  BY <1>1, <1>3, <1>5 DEF CacheInv
<1>. QED
  BY <1>1, <1>5, <1>6, <1>7, <1>8, <1>9 DEF CacheInv

\* arp_cache_cleanup leaves holes, and entries only of addresses it kept.
LEMMA CleanupKeeps ==
    ASSUME CacheInv, Expire, heard' = heard
    PROVE  CacheInv' /\ \A a \in Addrs : (EntriesOf(a))' \subseteq EntriesOf(a)
<1>1. /\ entries' = [i \in Slots |-> IF i \in Stale THEN Free ELSE entries[i]]
      /\ count' = count - Cardinality(Stale)
  BY DEF Expire
<1>2. /\ Known' = Known \ Stale /\ entries' \in [Slots -> Entry \cup {Free}]
      /\ \A i \in Known' : entries'[i] = entries[i]
  BY <1>1 DEF Known, CacheInv
<1>3. count' = Cardinality(Known')
  <2>1. Known \in SUBSET Slots /\ Stale \in SUBSET Slots /\ Known \cap Stale = Stale
    BY DEF Known, Stale
  <2>2. Cardinality(Known \ Stale) = Cardinality(Known) - Cardinality(Stale)
    BY <2>1, SlotSetsFinite, FS_Difference
  <2>. QED
    BY <1>1, <1>2, <2>2 DEF CacheInv
<1>4. \A a : (EntriesOf(a))' \subseteq EntriesOf(a)
  BY <1>2 DEF EntriesOf
<1>5. /\ \A i, j \in Known' : entries'[i].ip = entries'[j].ip => i = j
      /\ \A i \in Known' : entries'[i].mac = heard'[entries'[i].ip]
  BY <1>2 DEF CacheInv
<1>6. heard' \in [Addrs -> Macs \cup {Free}]
  BY DEF CacheInv
<1>. QED
  BY <1>2, <1>3, <1>4, <1>5, <1>6 DEF CacheInv
-----------------------------------------------------------------------------
(***************************************************************************)
(* The pending packets.                                                    *)
(***************************************************************************)
\* arp_pending_flush: each packet that waited for the address leaves its slot
\* and is sent or freed, and no other packet moves.
LEMMA FlushKeeps ==
    ASSUME QueueInv, linkUp \in BOOLEAN,
           NEW ip \in Addrs, NEW mac \in Macs, Flush(ip, mac)
    PROVE  /\ QueueInv'
           /\ Waiting' = Waiting \ Matching(ip)
           /\ \A i \in Waiting' : pending'[i] = pending[i]
           /\ out' \subseteq {[ip |-> ip, mac |-> mac]}
<1>1. /\ pending' = [i \in PSlots |-> IF i \in Matching(ip) THEN Free ELSE pending[i]]
      /\ pendingCount' = pendingCount - Cardinality(Matching(ip))
      /\ fate' = [p \in DOMAIN fate |->
                     IF \E i \in Matching(ip) : pending[i].pay = p
                     THEN IF linkUp THEN "sent" ELSE "freed"
                     ELSE fate[p]]
  BY DEF Flush, Cleared
<1>2. out' \subseteq {[ip |-> ip, mac |-> mac]}
  BY DEF Flush
<1>3. /\ Waiting' = Waiting \ Matching(ip)
      /\ pending' \in [PSlots -> Packet \cup {Free}]
      /\ \A i \in Waiting' : pending'[i] = pending[i]
  BY <1>1 DEF Waiting, QueueInv
<1>4. pendingCount' = Cardinality(Waiting')
  <2>1. /\ Waiting \in SUBSET PSlots /\ Matching(ip) \in SUBSET PSlots
        /\ Waiting \cap Matching(ip) = Matching(ip)
    BY DEF Waiting, Matching
  <2>2. Cardinality(Waiting \ Matching(ip)) = Cardinality(Waiting) - Cardinality(Matching(ip))
    BY <2>1, SlotSetsFinite, FS_Difference
  <2>. QED
    BY <1>1, <1>3, <2>2 DEF QueueInv
<1>5. DOMAIN fate' = DOMAIN fate /\ fate' \in Seq(Fates) /\ Len(fate') = Len(fate)
  <2>1. DOMAIN fate = 1 .. Len(fate) /\ Len(fate) \in Nat
        /\ \A p \in DOMAIN fate : fate[p] \in Fates
    BY DEF QueueInv
  <2>2. fate' = [p \in 1 .. Len(fate) |-> fate'[p]]
        /\ \A p \in 1 .. Len(fate) : fate'[p] \in Fates
    BY <1>1, <2>1 DEF Fates
  <2>. QED
    BY <2>1, <2>2
<1>6. PayloadHasOneOwner'
  <2>1. ASSUME NEW i \in Waiting'
        PROVE  /\ pending'[i].pay \in DOMAIN fate' /\ fate'[pending'[i].pay] = "queued"
               /\ i \in Waiting /\ pending'[i].pay = pending[i].pay
    <3>1. i \in Waiting /\ i \notin Matching(ip) /\ pending'[i] = pending[i]
      BY <1>3
    <3>2. pending[i].pay \in DOMAIN fate /\ fate[pending[i].pay] = "queued"
      BY <3>1 DEF QueueInv, PayloadHasOneOwner
    <3>3. ~ \E j \in Matching(ip) : pending[j].pay = pending[i].pay
      BY <3>1 DEF QueueInv, PayloadHasOneOwner, Matching
    <3>. QED
      BY <1>1, <3>1, <3>2, <3>3
  <2>2. \A i, j \in Waiting' : pending'[i].pay = pending'[j].pay => i = j
    BY <2>1 DEF QueueInv, PayloadHasOneOwner
  <2>3. ASSUME NEW p \in DOMAIN fate', fate'[p] = "queued"
        PROVE  \E i \in Waiting' : pending'[i].pay = p
    <3>1. p \in DOMAIN fate /\ fate[p] = "queued"
          /\ ~ \E j \in Matching(ip) : pending[j].pay = p
      BY <1>1, <2>3
    <3>2. PICK i \in Waiting : pending[i].pay = p
      BY <3>1 DEF QueueInv, PayloadHasOneOwner
    <3>3. i \in Waiting'
      BY <1>3, <3>1, <3>2
    <3>. QED
      BY <1>3, <3>2, <3>3
  <2>. QED
    BY <2>1, <2>2, <2>3 DEF PayloadHasOneOwner
<1>. QED
  BY <1>2, <1>3, <1>4, <1>5, <1>6 DEF QueueInv

\* ip_output sent the packet or gave it back: it waits nowhere.
LEMMA DoneKeeps ==
    ASSUME QueueInv, UNCHANGED queue, Len(fate) < MaxPayloads,
           NEW f \in {"sent", "returned"}, fate' = Append(fate, f)
    PROVE  QueueInv' /\ Waiting' = Waiting
<1>1. pending' = pending /\ pendingCount' = pendingCount /\ Waiting' = Waiting
  BY DEF queue, Waiting
<1>2. /\ f \in Fates /\ f # "queued" /\ Len(fate) \in Nat /\ fate \in Seq(Fates)
      /\ DOMAIN fate = 1 .. Len(fate)
  BY DEF Fates, QueueInv
<1>3. /\ fate' \in Seq(Fates) /\ Len(fate') = Len(fate) + 1
      /\ \A p \in DOMAIN fate : p \in DOMAIN fate' /\ fate'[p] = fate[p]
      /\ \A p \in DOMAIN fate' : p \in DOMAIN fate \/ fate'[p] = f
  BY <1>2
<1>4. PayloadHasOneOwner'
  <2>1. \A i \in Waiting : /\ pending[i].pay \in DOMAIN fate'
                           /\ fate'[pending[i].pay] = "queued"
    BY <1>3 DEF QueueInv, PayloadHasOneOwner
  <2>2. \A p \in DOMAIN fate' : fate'[p] = "queued" => \E i \in Waiting : pending[i].pay = p
    BY <1>2, <1>3 DEF QueueInv, PayloadHasOneOwner
  <2>3. \A i, j \in Waiting : pending[i].pay = pending[j].pay => i = j
    BY DEF QueueInv, PayloadHasOneOwner
  <2>. QED
    BY <1>1, <2>1, <2>2, <2>3 DEF PayloadHasOneOwner
<1>5. pendingCount' = Cardinality(Waiting')
  BY <1>1 DEF QueueInv
<1>6. Len(fate') <= MaxPayloads
  BY <1>2, <1>3, ArpAssumption
<1>. QED
  BY <1>1, <1>3, <1>4, <1>5, <1>6 DEF QueueInv

\* arp_pending_enqueue: the new packet has a free slot to itself.
LEMMA EnqueueKeeps ==
    ASSUME QueueInv, NEW ip \in Addrs, OutputWaits(ip), Len(fate) < MaxPayloads
    PROVE  /\ QueueInv'
           /\ \A i \in Waiting' : \/ i \in Waiting /\ pending'[i] = pending[i]
                                  \/ pending'[i].ip = ip
<1>. DEFINE pkt == [ip |-> ip, pay |-> Len(fate) + 1]
<1>1. PICK s \in PSlots \ Waiting : pending' = [pending EXCEPT ![s] = pkt]
  BY DEF OutputWaits
<1>2. pendingCount' = pendingCount + 1 /\ fate' = Append(fate, "queued")
  BY DEF OutputWaits
<1>3. /\ Len(fate) \in Nat /\ fate \in Seq(Fates) /\ "queued" \in Fates
      /\ DOMAIN fate = 1 .. Len(fate)
  BY DEF Fates, QueueInv
<1>4. pkt \in Packet /\ pkt.ip = ip /\ pkt.pay = Len(fate) + 1 /\ pkt # Free
  <2>1. pkt \in Packet
    BY <1>3, ArpAssumption DEF Packet
  <2>. QED
    BY <2>1, FreeIsNoRecord
<1>. HIDE DEF pkt
<1>5. /\ pending' \in [PSlots -> Packet \cup {Free}] /\ Waiting' = Waiting \cup {s}
      /\ pending'[s] = pkt /\ \A i \in Waiting : pending'[i] = pending[i]
  BY <1>1, <1>4 DEF QueueInv, Waiting
<1>6. /\ fate' \in Seq(Fates) /\ Len(fate') = Len(fate) + 1
      /\ \A p \in DOMAIN fate : p \in DOMAIN fate' /\ fate'[p] = fate[p]
      /\ Len(fate) + 1 \in DOMAIN fate' /\ fate'[Len(fate) + 1] = "queued"
      /\ \A p \in DOMAIN fate' : p \in DOMAIN fate \/ p = Len(fate) + 1
      /\ Len(fate) + 1 \notin DOMAIN fate
  BY <1>2, <1>3
<1>7. pendingCount' = Cardinality(Waiting')
  <2>1. IsFiniteSet(Waiting) /\ s \notin Waiting
    BY SlotSetsFinite DEF Waiting
  <2>2. Cardinality(Waiting \cup {s}) = Cardinality(Waiting) + 1
    BY <2>1, FS_AddElement
  <2>. QED
    BY <1>2, <1>5, <2>2 DEF QueueInv
<1>8. PayloadHasOneOwner'
  <2>1. \A i \in Waiting : /\ pending[i].pay \in DOMAIN fate
                           /\ fate[pending[i].pay] = "queued"
    BY DEF QueueInv, PayloadHasOneOwner
  <2>2. \A i \in Waiting' : /\ pending'[i].pay \in DOMAIN fate'
                            /\ fate'[pending'[i].pay] = "queued"
    BY <1>4, <1>5, <1>6, <2>1
  <2>3. \A i, j \in Waiting' : pending'[i].pay = pending'[j].pay => i = j
    <3>1. \A i \in Waiting : pending'[i].pay # pkt.pay
      BY <1>4, <1>5, <1>6, <2>1
    <3>. QED
      BY <1>5, <3>1 DEF QueueInv, PayloadHasOneOwner
  <2>4. \A p \in DOMAIN fate' :
           fate'[p] = "queued" => \E i \in Waiting' : pending'[i].pay = p
    BY <1>4, <1>5, <1>6 DEF QueueInv, PayloadHasOneOwner
  <2>. QED
    BY <2>2, <2>3, <2>4 DEF PayloadHasOneOwner
<1>9. Len(fate') <= MaxPayloads
  BY <1>3, <1>6, ArpAssumption
<1>. QED
  BY <1>4, <1>5, <1>6, <1>7, <1>8, <1>9 DEF QueueInv

LEMMA QueueUnchanged ==
    ASSUME QueueInv, UNCHANGED <<queue, fate>>
    PROVE  QueueInv' /\ Waiting' = Waiting /\ pending' = pending
<1>1. pending' = pending /\ pendingCount' = pendingCount /\ Waiting' = Waiting
  BY DEF queue, Waiting
<1>2. pendingCount' = Cardinality(Waiting') /\ PayloadHasOneOwner'
  BY <1>1 DEF QueueInv, PayloadHasOneOwner
<1>. QED
  BY <1>1, <1>2 DEF QueueInv

LEMMA CacheUnchanged ==
    ASSUME CacheInv, UNCHANGED <<cache, heard>>
    PROVE  CacheInv' /\ \A a \in Addrs : (EntriesOf(a))' = EntriesOf(a)
<1>1. entries' = entries /\ count' = count /\ heard' = heard /\ Known' = Known
  BY DEF cache, Known
<1>2. count' = Cardinality(Known') /\ \A a : (EntriesOf(a))' = EntriesOf(a)
  BY <1>1 DEF CacheInv, EntriesOf
<1>. QED
  BY <1>1, <1>2 DEF CacheInv

-----------------------------------------------------------------------------
(***************************************************************************)
(* Both together.                                                          *)
(***************************************************************************)
\* If no address gains an entry, and what waits waited before, then nothing
\* starts to wait for a known address.
LEMMA StillUnknown ==
    ASSUME QueueInv, NothingWaitsForKnown, QueueInv',
           \A a \in Addrs : (EntriesOf(a))' \subseteq EntriesOf(a),
           \A i \in Waiting' : \/ i \in Waiting /\ pending'[i] = pending[i]
                               \/ EntriesOf(pending'[i].ip) = {}
    PROVE  NothingWaitsForKnown'
<1>1. ASSUME NEW i \in Waiting' PROVE (EntriesOf(pending[i].ip))' = {}
  <2>1. pending'[i] \in Packet
    BY DEF Waiting, QueueInv
  <2>2. PICK a \in Addrs : a = pending'[i].ip
    BY <2>1 DEF Packet
  <2>3. EntriesOf(a) = {}
    BY <2>2 DEF NothingWaitsForKnown
  <2>4. (EntriesOf(a))' = {}
    BY <2>3
  <2>. QED
    BY <2>2, <2>4 DEF EntriesOf
<1>. QED
  BY <1>1 DEF NothingWaitsForKnown

\* ip_output never sends to another address than the one last heard, and
\* queues only for an address that is not known.
LEMMA IpOutputKeeps ==
    ASSUME ArpInv, NEW ip \in Addrs, IpOutput(ip) PROVE ArpInv'
<1>1. /\ Len(fate) < MaxPayloads /\ UNCHANGED <<cache, medium, inbox, heard, answered>>
      /\ OutputFails(ip) \/ OutputSends(ip) \/ OutputWaits(ip)
  BY DEF IpOutput
<1>2. /\ CacheInv' /\ \A a \in Addrs : (EntriesOf(a))' = EntriesOf(a)
  BY <1>1, CacheUnchanged DEF ArpInv
<1>3. ASSUME out' \subseteq [ip : Addrs, mac : Macs] PROVE RestInv'
  BY <1>1, <1>3 DEF ArpInv, RestInv, medium
<1>4. CASE OutputFails(ip)
  <2>1. UNCHANGED queue /\ fate' = Append(fate, "returned") /\ out' = {}
    BY <1>4 DEF OutputFails
  <2>2. QueueInv' /\ Waiting' = Waiting
    BY <1>1, <2>1, DoneKeeps DEF ArpInv
  <2>3. NothingWaitsForKnown'
    BY <1>2, <2>1, <2>2, StillUnknown DEF ArpInv, queue
  <2>. QED
    BY <1>2, <1>3, <2>1, <2>2, <2>3 DEF ArpInv, SentToLatestMac
<1>5. CASE OutputSends(ip)
  <2>1. PICK i \in EntriesOf(ip) : out' = {[ip |-> ip, mac |-> entries[i].mac]}
    BY <1>5 DEF OutputSends
  <2>2. i \in Known /\ entries[i].ip = ip /\ entries[i] \in Entry
    BY <2>1 DEF EntriesOf, Known, ArpInv, CacheInv
  <2>3. entries[i].mac = heard[ip] /\ entries[i].mac \in Macs
    BY <2>2 DEF ArpInv, CacheInv, Entry
  <2>4. SentToLatestMac' /\ RestInv'
    BY <1>1, <1>3, <2>1, <2>3 DEF SentToLatestMac
  <2>5. UNCHANGED queue /\ fate' = Append(fate, "sent")
    BY <1>5 DEF OutputSends
  <2>6. QueueInv' /\ Waiting' = Waiting
    BY <1>1, <2>5, DoneKeeps DEF ArpInv
  <2>7. NothingWaitsForKnown'
    BY <1>2, <2>5, <2>6, StillUnknown DEF ArpInv, queue
  <2>. QED
    BY <1>2, <2>4, <2>6, <2>7 DEF ArpInv
<1>6. CASE OutputWaits(ip)
  <2>1. /\ QueueInv'
        /\ \A i \in Waiting' : \/ i \in Waiting /\ pending'[i] = pending[i]
                               \/ pending'[i].ip = ip
    BY <1>1, <1>6, EnqueueKeeps DEF ArpInv
  <2>2. EntriesOf(ip) = {} /\ out' = {}
    BY <1>6 DEF OutputWaits
  <2>3. NothingWaitsForKnown'
    BY <1>2, <2>1, <2>2, StillUnknown DEF ArpInv
  <2>. QED
    BY <1>2, <1>3, <2>1, <2>2, <2>3 DEF ArpInv, SentToLatestMac
<1>. QED
  BY <1>1, <1>4, <1>5, <1>6

\* An answer that is heard takes every packet that waits for the address, also
\* when the cache has no room for it.
LEMMA HandlerKeeps ==
    ASSUME ArpInv, NEW e \in Arrival, ArpHandler(e),
           UNCHANGED medium, inbox' \in Seq(Arrival)
    PROVE  ArpInv'
<1>1. e.ip \in Addrs /\ e.mac \in Macs
  BY DEF Arrival
<1>2. /\ Add(e.ip, e.mac) /\ Flush(e.ip, e.mac) /\ heard' = [heard EXCEPT ![e.ip] = e.mac]
      /\ answered' \subseteq Addrs
  BY <1>1 DEF ArpHandler
<1>3. CacheInv' /\ \A a \in Addrs \ {e.ip} : (EntriesOf(a))' = EntriesOf(a)
  BY <1>1, <1>2, AddKeeps DEF ArpInv
<1>4. /\ QueueInv' /\ Waiting' = Waiting \ Matching(e.ip)
      /\ \A i \in Waiting' : pending'[i] = pending[i]
      /\ out' \subseteq {[ip |-> e.ip, mac |-> e.mac]}
  BY <1>1, <1>2, FlushKeeps DEF ArpInv, RestInv
<1>5. RestInv'
  BY <1>1, <1>2, <1>4 DEF ArpInv, RestInv, medium
<1>6. SentToLatestMac'
  BY <1>1, <1>2, <1>4 DEF ArpInv, CacheInv, SentToLatestMac
<1>7. ASSUME NEW i \in Waiting' PROVE (EntriesOf(pending[i].ip))' = {}
  <2>1. i \in Waiting /\ i \notin Matching(e.ip) /\ pending'[i] = pending[i]
    BY <1>4
  <2>2. pending[i] \in Packet
    BY <2>1 DEF Waiting, ArpInv, QueueInv
  <2>3. PICK a \in Addrs : a = pending'[i].ip
    BY <2>1, <2>2 DEF Packet
  <2>4. a # e.ip /\ EntriesOf(a) = {}
    BY <2>1, <2>3 DEF Matching, ArpInv, NothingWaitsForKnown
  <2>5. (EntriesOf(a))' = {}
    BY <1>3, <2>4
  <2>. QED
    BY <2>3, <2>5 DEF EntriesOf
<1>. QED
  BY <1>3, <1>4, <1>5, <1>6, <1>7 DEF ArpInv, NothingWaitsForKnown
\* A step that leaves the queue alone and teaches no address.
LEMMA QuietKeeps ==
    ASSUME ArpInv, UNCHANGED <<queue, fate>>, CacheInv', RestInv', SentToLatestMac',
           \A a \in Addrs : (EntriesOf(a))' \subseteq EntriesOf(a)
    PROVE  ArpInv'
<1>1. QueueInv' /\ Waiting' = Waiting /\ pending' = pending
  BY QueueUnchanged DEF ArpInv
<1>2. NothingWaitsForKnown'
  BY <1>1, StillUnknown DEF ArpInv
<1>. QED
  BY <1>1, <1>2 DEF ArpInv

LEMMA ArpStep == ArpInv /\ [Next]_vars => ArpInv'
<1>. SUFFICES ASSUME ArpInv, [Next]_vars PROVE ArpInv'
  OBVIOUS
<1>1. ASSUME NEW ip \in Addrs, IpOutput(ip) PROVE ArpInv'
  BY <1>1, IpOutputKeeps
<1>2. ASSUME UNCHANGED <<cache, heard, queue, fate>>, RestInv', SentToLatestMac'
      PROVE  ArpInv'
  <2>1. CacheInv' /\ \A a \in Addrs : (EntriesOf(a))' = EntriesOf(a)
    BY <1>2, CacheUnchanged DEF ArpInv
  <2>. QED
    BY <1>2, <2>1, QuietKeeps
<1>3. ASSUME NEW e \in Arrival, Arrive(e) PROVE ArpInv'
  <2>1. RestInv' /\ SentToLatestMac'
    BY <1>3 DEF Arrive, ArpInv, RestInv, SentToLatestMac, medium
  <2>. QED
    BY <1>2, <1>3, <2>1 DEF Arrive
<1>4. CASE Dispatch
  <2>1. /\ Head(inbox) \in Arrival /\ inbox' \in Seq(Arrival) /\ UNCHANGED medium
    BY <1>4 DEF Dispatch, ArpInv, RestInv
  <2>2. CASE ArpHandler(Head(inbox))
    BY <2>1, <2>2, HandlerKeeps
  <2>3. CASE FrameHandler
    <3>1. RestInv' /\ SentToLatestMac'
      BY <2>1, <2>3 DEF FrameHandler, ArpInv, RestInv, SentToLatestMac, medium
    <3>. QED
      BY <1>2, <2>3, <3>1 DEF FrameHandler
  <2>. QED
    BY <1>4, <2>2, <2>3 DEF Dispatch
<1>5. CASE Tick
  <2>1. CacheInv' /\ \A a \in Addrs : (EntriesOf(a))' = EntriesOf(a)
    BY <1>5, TickKeeps DEF ArpInv
  <2>2. RestInv' /\ SentToLatestMac' /\ UNCHANGED <<queue, fate>>
    BY <1>5 DEF Tick, ArpInv, RestInv, SentToLatestMac, medium
  <2>. QED
    BY <2>1, <2>2, QuietKeeps
<1>6. CASE Cleanup
  <2>1. CacheInv' /\ \A a \in Addrs : (EntriesOf(a))' \subseteq EntriesOf(a)
    BY <1>6, CleanupKeeps DEF ArpInv, Cleanup
  <2>2. RestInv' /\ SentToLatestMac' /\ UNCHANGED <<queue, fate>>
    BY <1>6 DEF Cleanup, ArpInv, RestInv, SentToLatestMac, medium
  <2>. QED
    BY <2>1, <2>2, QuietKeeps
<1>7. CASE Flap
  <2>1. RestInv' /\ SentToLatestMac'
    <3>1. linkUp' \in BOOLEAN /\ ifaceUp' \in BOOLEAN
      BY <1>7 DEF Flap, ArpInv, RestInv
    <3>2. flaps' \in 0 .. MaxFlaps
      BY <1>7, ArpAssumption DEF Flap, ArpInv, RestInv
    <3>. QED
      BY <1>7, <3>1, <3>2 DEF Flap, ArpInv, RestInv, SentToLatestMac
  <2>. QED
    BY <1>2, <1>7, <2>1 DEF Flap
<1>8. CASE UNCHANGED vars
  <2>1. RestInv' /\ SentToLatestMac'
    BY <1>8 DEF vars, ArpInv, RestInv, SentToLatestMac, medium
  <2>. QED
    BY <1>2, <1>8, <2>1 DEF vars, cache, queue
<1>. QED
  BY <1>1, <1>3, <1>4, <1>5, <1>6, <1>7, <1>8 DEF Next

LEMMA ArpInitially == Init => ArpInv
<1>. SUFFICES ASSUME Init PROVE ArpInv
  OBVIOUS
<1>1. Known = {} /\ Waiting = {} /\ Cardinality({}) = 0
  BY FS_EmptySet DEF Init, Known, Waiting
<1>2. CacheInv
  BY <1>1 DEF Init, CacheInv
<1>3. QueueInv
  <2>1. fate \in Seq(Fates) /\ Len(fate) = 0 /\ DOMAIN fate = {}
    BY DEF Init
  <2>. QED
    BY <1>1, <2>1, ArpAssumption DEF Init, QueueInv, PayloadHasOneOwner
<1>4. RestInv /\ SentToLatestMac
  BY ArpAssumption DEF Init, RestInv, SentToLatestMac
<1>. QED
  BY <1>1, <1>2, <1>3, <1>4 DEF ArpInv, NothingWaitsForKnown

LEMMA ArpAlways == Spec => []ArpInv
  BY ArpInitially, ArpStep, PTL DEF Spec

\* Type correctness, with both counters: they equal the valid slots whatever
\* holes arp_cache_cleanup and arp_pending_flush leave.
THEOREM TypeCorrect == Spec => []TypeOK
<1>1. ArpInv => TypeOK
  BY DEF ArpInv, CacheInv, QueueInv, RestInv, TypeOK, Entry, Packet
<1>. QED
  BY <1>1, ArpAlways, PTL

\* A payload ip_output queued is in exactly one slot until it leaves, for any
\* number of payloads, answers and lost links: arp_pending_flush neither
\* loses a packet nor sends or frees one twice.
THEOREM OneOwnerTheorem == Spec => []PayloadHasOneOwner
<1>1. ArpInv => PayloadHasOneOwner
  BY DEF ArpInv, QueueInv
<1>. QED
  BY <1>1, ArpAlways, PTL

\* Nothing waits for an address that a lookup would resolve, so no packet is
\* stuck behind an answer that already came.
THEOREM WaitingTheorem == Spec => []NothingWaitsForKnown
<1>1. ArpInv => NothingWaitsForKnown
  BY DEF ArpInv
<1>. QED
  BY <1>1, ArpAlways, PTL

\* A packet goes to the MAC address last heard for its destination.
THEOREM LatestMacTheorem == Spec => []SentToLatestMac
<1>1. ArpInv => SentToLatestMac
  BY DEF ArpInv
<1>. QED
  BY <1>1, ArpAlways, PTL
=============================================================================
