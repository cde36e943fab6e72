------------------------------- MODULE MCTcp -------------------------------
(* A client that connects to a listener, and sends and closes like it. *)
EXTENDS Tcp

CONSTANTS client, server

PeerOf   == [h \in {client, server} |-> IF h = client THEN server ELSE client]
ServerListens == {<<server, 80>>}
ClientDials   == {<<client, 1, 80>>}
TwoDials      == {<<client, 1, 80>>, <<client, 2, 80>>}
=============================================================================
