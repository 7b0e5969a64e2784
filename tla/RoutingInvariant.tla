-------------------------- MODULE RoutingInvariant --------------------------
(* Why the routes of module Routing contain no cycle.  A cost never goes up, *)
(* so that a row on its way is at best what its sender still has, and a next *)
(* hop, once nearer to the destination, stays nearer.                        *)
EXTENDS Routing

OwnRows == \A n, d \in Node : dv[n][d] = 0 <=> n = d

UpdatesAreOld ==
  \A l \in Link : \A i \in DOMAIN link[l] :
    link[l][i].type = "ROUTE_UPDATE" =>
      \A d \in Node : dv[l[1]][d] <= link[l][i].row[d]

TodoImproves ==
  \A n \in Node : \A b \in todo[n] :
    /\ <<n, b.next>> \in Link
    /\ dv[b.next][b.dest] < b.cost
    /\ b.cost < dv[n][b.dest]
    /\ \A c \in todo[n] : c.dest = b.dest => c = b

RoutesDescend ==
  \A n, d \in Node : \A h \in NextHops(table[n], d) :
    <<n, h>> \in Link /\ dv[h][d] < dv[n][d]

KnownAreRouted ==
  \A n, d \in Node :
    n # d /\ dv[n][d] < INFINITE_COST => NextHops(table[n], d) # {}

UpdatesAreSound ==
  \A l \in Link : \A i \in DOMAIN link[l] :
    link[l][i].type = "ROUTE_UPDATE" =>
      \A d \in Node : link[l][i].row[d] >= Dist[l[1]][d]

TodoIsSound == \A n \in Node : \A b \in todo[n] : b.cost >= Dist[n][b.dest]

\* The inductive invariant: a node that has a cost to a destination has a next
\* hop to it, and the next hop's own cost is lower, whatever is under way; and
\* nothing in the network promises less than a true distance.
RoutingInv ==
  /\ TypeOK
  /\ OwnRows
  /\ UpdatesAreOld
  /\ TodoImproves
  /\ RoutesDescend
  /\ KnownAreRouted
  /\ CostsAreSound
  /\ UpdatesAreSound
  /\ TodoIsSound
=============================================================================
