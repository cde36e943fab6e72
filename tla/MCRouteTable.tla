---------------------------- MODULE MCRouteTable ----------------------------
(* Two-bit addresses; the second target lies within the first, and two      *)
(* protocols have the same administrative distance.                          *)
EXTENDS RouteTable, TLC

SomeTargets == {<<1, 0>>, <<3, 1>>}
SomeProtos  == {"static", "proto8", "proto9"}
SymVias     == Permutations(Vias)
=============================================================================
