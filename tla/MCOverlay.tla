----------------------------- MODULE MCOverlay -----------------------------
(* Three overlay nodes, for the cfg files Overlay_*.cfg. *)
EXTENDS Overlay

Triangle == {{1, 2}, {2, 3}, {1, 3}}
Once == [n \in Nodes |-> 1]
MnpOn1And2 == [m \in Nodes |-> IF m = 3 THEN 0 ELSE 1]
=============================================================================
