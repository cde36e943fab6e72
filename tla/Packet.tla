------------------------------- MODULE Packet -------------------------------
(***************************************************************************)
(* The packet buffer (network/packet.c) as offsets from its head, and what *)
(* the header lengths of the protocols leave of its headroom.  Of the      *)
(* bytes, a packet carries what its readers look for: `ip' is the offset   *)
(* at which the last IPv4 header was written and `hdr' that header, `eth'  *)
(* the Ethernet addresses, `body' what the protocols above IP see.  The    *)
(* fields id and layer serve the display and are left out.                 *)
(***************************************************************************)
EXTENDS Integers

PktHeadroom == 64
EthHdrLen   == 14
IpHdrLen    == 20
UdpHdrLen   == 8
IcmpHdrLen  == 8
ArpLen      == 28
QuoteLen    == 8   \* bytes of the original's payload that an error quotes

\* Where an IPv4 header lies that was not copied into this buffer.
Nowhere == -1 - IpHdrLen

\* The layout of 01_packet.md: the visible bytes lie inside the buffer.
LayoutOf(p) ==
    /\ p.data >= 0 /\ p.len >= 0
    /\ p.data + p.len <= PktHeadroom + p.cap

\* packet_create, and the caller that fills the capacity it asked for.
Created(len, body) ==
    [data |-> PktHeadroom, len |-> len, cap |-> len, ip |-> Nowhere,
     hdr |-> [proto |-> "NONE", src |-> 0, dst |-> 0],
     eth |-> [src |-> 0, dst |-> 0], body |-> body]

\* Faulty: does not look at the headroom that is left.
PrependUnchecked(p, n) == TRUE

\* packet_prepend refuses a header that the headroom before data cannot hold.
CanPrepend(p, n) == p.data >= n

Prepended(p, n) == [p EXCEPT !.data = @ - n, !.len = @ + n]

\* packet_strip refuses more than is visible; what it strips stays readable.
CanStrip(p, n) == n <= p.len

Stripped(p, n) == [p EXCEPT !.data = @ + n, !.len = @ - n]

\* packet_clone copies the visible bytes only, under a fresh headroom.
Clone(p) ==
    [p EXCEPT !.data = PktHeadroom, !.cap = p.len,
              !.ip = IF p.ip >= p.data THEN p.ip - p.data + PktHeadroom ELSE Nowhere]

\* What a protocol handler finds IP_HDR_LEN bytes before data is the IPv4
\* header of this packet.
IpBehind(p) == p.ip = p.data - IpHdrLen
=============================================================================
