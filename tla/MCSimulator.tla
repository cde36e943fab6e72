---------------------------- MODULE MCSimulator ----------------------------
(* The simulator for TLC: injected packets are the only event type. *)
EXTENDS Simulator

Types1 == {PacketSend}
=============================================================================
