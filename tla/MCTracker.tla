------------------------------ MODULE MCTracker ------------------------------
(* Two peers and a file, for the cfg files Tracker_*.cfg. *)
EXTENDS Tracker

CONSTANTS p1, p2

SameLen == [p \in Peers |-> 9]
Once == [p \in Peers |-> 1]
P1Twice == [p \in Peers |-> IF p = p1 THEN 2 ELSE 1]
=============================================================================
