------------------------------ MODULE MCRouting ------------------------------
(* Networks of four nodes, the number topology_getNodeNum returns, for the  *)
(* cfg files Routing_*.cfg.                                                 *)
EXTENDS RoutingInvariant, TLC

Both(m, n, c) == <<m, n>> :> c @@ <<n, m>> :> c

\* A triangle where the link from 1 to 3 costs more than the way around it,
\* with a fourth node behind 2.
FourNodes == 1 .. 4
DetourCost == Both(1, 2, 1) @@ Both(2, 3, 1) @@ Both(1, 3, 5) @@ Both(2, 4, 1)

\* A star.
StarCost == Both(2, 1, 1) @@ Both(2, 3, 2) @@ Both(2, 4, 1)

\* The shortest paths, one intermediate node after the other.
MinSum(x, y, z) == IF x < y + z THEN x ELSE y + z
Shortest ==
  LET Via[S \in SUBSET Node] ==
        IF S = {} THEN [m \in Node |-> [n \in Node |-> topology_getCost(n, m)]]
        ELSE LET k == CHOOSE k \in S : TRUE
                 w == Via[S \ {k}]
             IN [m \in Node |-> [n \in Node |-> MinSum(w[m][n], w[m][k], w[k][n])]]
  IN Via[Node]

\* Written out, as TLC would compute Shortest anew in every state.
DetourDist == <<<<0, 1, 2, 2>>, <<1, 0, 1, 1>>, <<2, 1, 0, 2>>, <<2, 1, 2, 0>>>>
StarDist == <<<<0, 1, 3, 2>>, <<1, 0, 2, 1>>, <<3, 2, 0, 3>>, <<2, 1, 3, 0>>>>

ASSUME DistIsShortest == Dist = Shortest

OneToFour == {<<1, 4>>}
ThreeToFour == {<<3, 4>>}
=============================================================================
