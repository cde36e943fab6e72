------------------------------ MODULE MCHosts ------------------------------
(* Two hosts on a subnet of two bits, outside which address 4 lies.  Host 1 *)
(* sends, host 2 binds sockets; of the ARP replies, one claims a wrong MAC. *)
EXTENDS Hosts

Sent          == {<<1, 2>>, <<1, 4>>}
Replies       == {<<1, 2, 2>>, <<2, 1, 1>>, <<1, 2, 1>>}
Sockets       == {<<2, port>> : port \in Ports}
Registrations == {<<1, "ICMP", "app">>, <<1, "ICMP", "none">>,
                  <<2, "UDP", "app">>, <<2, "UDP", "none">>, <<2, "OTHER", "app">>}
=============================================================================
