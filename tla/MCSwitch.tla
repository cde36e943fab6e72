------------------------------ MODULE MCSwitch ------------------------------
(* Two ports and one further address, in a table of two slots. *)
EXTENDS Switch

CONSTANTS p1, p2, a, b, x, y

StationOf == [i \in {p1, p2} |-> IF i = p1 THEN a ELSE b]
PortMacOf == [i \in {p1, p2} |-> IF i = p1 THEN x ELSE y]
=============================================================================
