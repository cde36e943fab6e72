----------------------------- MODULE Datagrams -----------------------------
(***************************************************************************)
(* What the hosts promise a user of UDP, and what they do not: a datagram  *)
(* may be lost at any time, but one that a callback is given was sent, is  *)
(* given with the address it was sent from, and is given once.             *)
(***************************************************************************)
EXTENDS Integers

VARIABLES
    flight,  \* datagrams under way, records with their number and source
    held,    \* what the applications were given, as [name, from]
    last     \* the greatest number given to a datagram

dvars == <<flight, held, last>>

DInit == flight = {} /\ held = {} /\ last = 0

\* udp_send.
Post ==
    /\ \E d \in flight' : d.name > last /\ last' = d.name /\ flight' = flight \cup {d}
    /\ UNCHANGED held

\* udp_receive, with a socket for the port.
Receive ==
    \E d \in flight :
        /\ flight' = flight \ {d}
        /\ held' = held \cup {[name |-> d.name, from |-> d.src]}
        /\ UNCHANGED last

\* On the way down, on the wire, in the pending queue or at a closed port; and
\* the application is done with what it was given.
Lose ==
    /\ flight' \subseteq flight /\ held' \subseteq held
    /\ last' >= last

DNext == Post \/ Receive \/ Lose

DSpec == DInit /\ [][DNext]_dvars
=============================================================================
