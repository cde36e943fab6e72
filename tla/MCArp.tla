------------------------------- MODULE MCArp -------------------------------
(* Three addresses and two MACs, with room for two entries and packets. *)
EXTENDS Arp, TLC

CONSTANTS a1, a2, a3, m1, m2

Symmetric == Permutations({a1, a2, a3}) \cup Permutations({m1, m2})
=============================================================================
