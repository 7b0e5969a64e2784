------------------------------- MODULE MCPeer -------------------------------
(* A peer and two files, for the cfg files Peer_*.cfg. *)
EXTENDS Peer

CONSTANTS pieces_of_2, short

Lengths == [x \in Files |-> IF x = pieces_of_2 THEN <<2, 2, 2>> ELSE <<1, 0, 1>>]
Counts == [x \in Files |-> IF x = pieces_of_2 THEN {2, 0} ELSE {1}]
=============================================================================
