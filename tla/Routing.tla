------------------------------- MODULE Routing -------------------------------
(* Distance-vector routing by the MNP processes of a network (lab4/network): *)
(* the tables each of them keeps, the updates they broadcast, and the        *)
(* forwarding of the segments the transport gives them.                      *)
(*                                                                           *)
(* On every node pkthandler, routeupdate_daemon and waitTransport run at the *)
(* same time.  dv_mutex is held while an update is handled and while the     *)
(* daemon copies its row; the routing table is read without its mutex, so    *)
(* that waitTransport may look a destination up while pkthandler is half way *)
(* through an update.  The overlay process between an MNP process and its    *)
(* neighbors' keeps the packets of a link in order; it drops those for an    *)
(* MNP process that is not connected to it.                                  *)
EXTENDS RoutingTable

CONSTANTS
  Cost,           \* the links of topology.dat, as pairs, with their costs
  INFINITE_COST,  \* the cost of no link
  LinkCap,        \* bound: packets a link's TCP connections hold
  Late,           \* bound: the nodes where MNP connects after the others' first updates
  Segments,       \* bound: the segments MRT hands over, as source and destination
  Dist            \* the distance from each node to each other, for the properties

Link == DOMAIN Cost
Nbr(n) == {m \in Node : <<n, m>> \in Link}

ASSUME LinkAssumption ==
  /\ Link \subseteq {l \in Node \X Node : l[1] # l[2]}
  /\ \A l \in Link : /\ Cost[l] \in 1 .. INFINITE_COST - 1
                     /\ <<l[2], l[1]>> \in Link
                     /\ Cost[<<l[2], l[1]>>] = Cost[l]
\* The IDs on the lines of topology.dat, and no other, are the nodes.
topology_getNodeArray == {l[1] : l \in Link}
ASSUME NodeArrayAssumption == Node = topology_getNodeArray

ASSUME BoundAssumption ==
  /\ INFINITE_COST \in Nat \ {0}
  /\ LinkCap \in Nat \ {0}
  /\ Late \subseteq Node
  /\ Segments \subseteq {s \in Node \X Node : s[1] # s[2]}

topology_getCost(m, n) ==
  IF m = n THEN 0 ELSE IF <<m, n>> \in Link THEN Cost[<<m, n>>] ELSE INFINITE_COST

\* The length of the shortest paths satisfies this, and is the greatest that does.
ASSUME DistAssumption ==
  /\ Dist \in [Node -> [Node -> 0 .. INFINITE_COST]]
  /\ \A m, n \in Node : Dist[m][n] <= topology_getCost(n, m)
  /\ \A l, m, n \in Node : Dist[l][n] <= Dist[l][m] + Dist[m][n]

VARIABLES
  mnp,        \* each node's MNP process: "off", "on" or "dead"
  dv,         \* its own row of dv_table: its cost to every node
  nbrdv,      \* its rows for its neighbors
  table,      \* its routing_table
  todo,       \* the better routes in the update pkthandler is handling
  link,       \* the packets under way on every link
  unsent,     \* the segments MRT has not handed over yet
  delivered   \* the segments given to the MRT of their destination

vars == <<mnp, dv, nbrdv, table, todo, link, unsent, delivered>>

Row == [Node -> 0 .. INFINITE_COST]
Better == [dest : Node, cost : 0 .. INFINITE_COST, next : Node]
RouteUpdate(row) == [type |-> "ROUTE_UPDATE", row |-> row]
Packet(seg) == [type |-> "MNP", seg |-> seg]
Messages == [type : {"ROUTE_UPDATE"}, row : Row] \cup [type : {"MNP"}, seg : Segments]

TypeOK ==
  /\ mnp \in [Node -> {"off", "on", "dead"}]
  /\ dv \in [Node -> Row]
  /\ nbrdv \in [Link -> Row]
  /\ table \in [Node -> [Slot -> Seq(Entries)]]
  /\ \A n \in Node, slot \in Slot : IsList(slot, table[n][slot])
  /\ todo \in [Node -> SUBSET Better]
  /\ link \in [Link -> Seq(Messages)]
  /\ \A l \in Link : Len(link[l]) <= LinkCap
  /\ unsent \subseteq Segments
  /\ delivered \subseteq Segments

(* dvtable.c: the own row is dv, those of the neighbors are in nbrdv. *)

dvtable_getcost(n, from, to) == IF from = n THEN dv[n][to] ELSE nbrdv[<<n, from>>][to]
\* The cost in the own row.
dvtable_setcost(n, to, cost) == dv' = [dv EXCEPT ![n][to] = cost]

Init ==
  /\ mnp = [n \in Node |-> IF n \in Late THEN "off" ELSE "on"]
  /\ dv = [n \in Node |-> [d \in Node |-> topology_getCost(d, n)]]
  /\ nbrdv = [l \in Link |-> [d \in Node |-> INFINITE_COST]]
  /\ table = [n \in Node |-> routingtable_create(Nbr(n))]
  /\ todo = [n \in Node |-> {}]
  /\ link = [l \in Link |-> << >>]
  /\ unsent = Segments
  /\ delivered = {}

\* The process connects to its overlay process.
Connect(n) ==
  /\ mnp[n] = "off"
  /\ mnp' = [mnp EXCEPT ![n] = "on"]
  /\ UNCHANGED <<dv, nbrdv, table, todo, link, unsent, delivered>>

\* routeupdate_daemon: one copy of the own row to every neighbor.
SendRouteUpdate(n) ==
  /\ mnp[n] = "on"
  /\ todo[n] = {}
  /\ \A m \in Nbr(n) : Len(link[<<n, m>>]) < LinkCap
  /\ link' = [l \in Link |->
                IF l[1] = n THEN Append(link[l], RouteUpdate(dv[n])) ELSE link[l]]
  /\ UNCHANGED <<mnp, dv, nbrdv, table, todo, unsent, delivered>>

\* pkthandler reads the next packet from s; it has finished the one before.
Reads(n, s, type) ==
  /\ mnp[n] = "on"
  /\ todo[n] = {}
  /\ link[<<s, n>>] # << >>
  /\ Head(link[<<s, n>>]).type = type

Lesser(x, y) == IF x < y THEN x ELSE y

\* Mutants of BetterRoutes: the link is free; only the neighbors' entries
\* are looked at.
BetterRoutesFreeLink(n, s, row) ==
  {[dest |-> d, cost |-> row[d], next |-> s] : d \in {d \in Node : row[d] < dv[n][d]}}
BetterRoutesOfNeighbors(n, s, row) ==
  {[dest |-> d, cost |-> dv[n][s] + row[d], next |-> s] :
     d \in {d \in Nbr(n) : dv[n][s] + row[d] < dv[n][d]}}

\* Where s offers n a lower cost than n has.  The cost of s itself is read
\* from n's row; none of the changes this update makes can change it.
BetterRoutes(n, s, row) ==
  LET new_dist(d) == dvtable_getcost(n, n, s) + row[d] IN
  {[dest |-> d, cost |-> new_dist(d), next |-> s] :
     d \in {d \in Node : new_dist(d) < dvtable_getcost(n, n, d)}}

HandleRouteUpdate(n, s) ==
  LET row == Head(link[<<s, n>>]).row
  IN /\ Reads(n, s, "ROUTE_UPDATE")
     /\ link' = [link EXCEPT ![<<s, n>>] = Tail(@)]
     /\ nbrdv' = [nbrdv EXCEPT ![<<n, s>>] = [d \in Node |-> Lesser(row[d], dvtable_getcost(n, s, d))]]
     /\ todo' = [todo EXCEPT ![n] = BetterRoutes(n, s, row)]
     /\ UNCHANGED <<mnp, dv, table, unsent, delivered>>

\* The next of the update's better routes, in the order of the node IDs, which
\* stands for that of the topology file, enters both tables.
Improve(n) ==
  \E b \in todo[n] :
    /\ \A c \in todo[n] : b.dest <= c.dest
    /\ dvtable_setcost(n, b.dest, b.cost)
    /\ table' = [table EXCEPT ![n] = routingtable_setnextnode(@, b.dest, b.next)]
    /\ todo' = [todo EXCEPT ![n] = @ \ {b}]
    /\ UNCHANGED <<mnp, nbrdv, link, unsent, delivered>>

\* The overlay process finds no MNP process to give the packet to.
Discard(n, s) ==
  /\ mnp[n] # "on"
  /\ link[<<s, n>>] # << >>
  /\ link' = [link EXCEPT ![<<s, n>>] = Tail(@)]
  /\ UNCHANGED <<mnp, dv, nbrdv, table, todo, unsent, delivered>>

\* Mutant: compares the wrong end of the header.
DeliverToSource(n, s) ==
  LET seg == Head(link[<<s, n>>]).seg
  IN /\ Reads(n, s, "MNP")
     /\ seg[1] = n
     /\ link' = [link EXCEPT ![<<s, n>>] = Tail(@)]
     /\ delivered' = delivered \cup {seg}
     /\ UNCHANGED <<mnp, dv, nbrdv, table, todo, unsent>>

Deliver(n, s) ==
  LET seg == Head(link[<<s, n>>]).seg
  IN /\ Reads(n, s, "MNP")
     /\ seg[2] = n
     /\ link' = [link EXCEPT ![<<s, n>>] = Tail(@)]
     /\ delivered' = delivered \cup {seg}
     /\ UNCHANGED <<mnp, dv, nbrdv, table, todo, unsent>>

Forward(n, s) ==
  LET seg == Head(link[<<s, n>>]).seg
      list == table[n][makehash(seg[2])]
      hop == <<n, HandlerEntry(list, seg[2]).next>>
  IN /\ Reads(n, s, "MNP")
     /\ seg[2] # n
     /\ list # << >>
     /\ Len(link[hop]) < LinkCap
     /\ link' = [link EXCEPT ![<<s, n>>] = Tail(@), ![hop] = Append(@, Packet(seg))]
     /\ UNCHANGED <<mnp, dv, nbrdv, table, todo, unsent, delivered>>

\* pkthandler follows the NULL pointer of an empty slot.
ForwardFault(n, s) ==
  LET seg == Head(link[<<s, n>>]).seg
  IN /\ Reads(n, s, "MNP")
     /\ seg[2] # n
     /\ table[n][makehash(seg[2])] = << >>
     /\ mnp' = [mnp EXCEPT ![n] = "dead"]
     /\ link' = [link EXCEPT ![<<s, n>>] = Tail(@)]
     /\ UNCHANGED <<dv, nbrdv, table, todo, unsent, delivered>>

\* waitTransport: a segment from the local MRT process.
SendSegment(n, seg) ==
  LET list == table[n][makehash(seg[2])]
      hop == <<n, TransportEntry(list, seg[2]).next>>
  IN /\ mnp[n] = "on"
     /\ seg \in unsent
     /\ seg[1] = n
     /\ list # << >>
     /\ Len(link[hop]) < LinkCap
     /\ link' = [link EXCEPT ![hop] = Append(@, Packet(seg))]
     /\ unsent' = unsent \ {seg}
     /\ UNCHANGED <<mnp, dv, nbrdv, table, todo, delivered>>

SendSegmentFault(n, seg) ==
  /\ mnp[n] = "on"
  /\ seg \in unsent
  /\ seg[1] = n
  /\ table[n][makehash(seg[2])] = << >>
  /\ mnp' = [mnp EXCEPT ![n] = "dead"]
  /\ todo' = [todo EXCEPT ![n] = {}]
  /\ unsent' = unsent \ {seg}
  /\ UNCHANGED <<dv, nbrdv, table, link, delivered>>

Handles(n, s) ==
  \/ HandleRouteUpdate(n, s)
  \/ Discard(n, s)
  \/ Deliver(n, s)
  \/ Forward(n, s)
  \/ ForwardFault(n, s)

Next ==
  \/ \E n \in Node : Connect(n) \/ SendRouteUpdate(n) \/ Improve(n)
  \/ \E n \in Node : \E s \in Nbr(n) : Handles(n, s)
  \/ \E n \in Node, seg \in Segments : SendSegment(n, seg) \/ SendSegmentFault(n, seg)

Spec == Init /\ [][Next]_vars

\* Every thread keeps running.  pkthandler and routeupdate_daemon write to the
\* same connection; a segment that waits for room gets its turn when there is
\* room again and again.
Fairness ==
  \A n \in Node : /\ WF_vars(Connect(n))
                  /\ WF_vars(SendRouteUpdate(n))
                  /\ WF_vars(Improve(n))
                  /\ \A s \in Nbr(n) : WF_vars(Handles(n, s))
                  /\ SF_vars(\E s \in Nbr(n) : Forward(n, s))

FairSpec == Spec /\ Fairness
-----------------------------------------------------------------------------
\* At any moment, in the middle of any exchange of updates, the routes to a
\* destination contain no cycle: in every set of other nodes one has no route
\* into the set.
LoopFree ==
  \A d \in Node : \A S \in SUBSET (Node \ {d}) :
    S # {} => \E n \in S : NextHops(table[n], d) \cap S = {}

\* Where a route leads there is a route further on: pkthandler never finds the
\* slot of a segment in transit empty, if its entry is not missed.
RoutesLead ==
  \A n, d \in Node : \A h \in NextHops(table[n], d) :
    <<n, h>> \in Link /\ (h = d \/ NextHops(table[h], d) # {})

\* No row, own, kept for a neighbor or under way, promises less than any true
\* distance Dist.
CostsAreSound ==
  /\ \A n, d \in Node : dv[n][d] >= Dist[n][d]
  /\ \A l \in Link, d \in Node : nbrdv[l][d] >= Dist[l[2]][d]

\* A step puts seg on link l.
Puts(l, seg) ==
  Len(link'[l]) = Len(link[l]) + 1 /\ link'[l][Len(link'[l])] = Packet(seg)

\* Each hop brings a segment nearer to its destination, by the tables of the
\* nodes at the time of the hop, also while the routes change.
HopsDescend ==
  [][\A l \in Link, seg \in Segments :
       Puts(l, seg) => dv[l[2]][seg[2]] < dv[l[1]][seg[2]]]_vars

SomeDead == \E n \in Node : mnp[n] = "dead"

\* Every node comes to know its distance to every other, whatever the order of
\* the start and of the updates, unless an MNP process dies before.
Converges == <>[](SomeDead \/ dv = Dist)

UnderWay(seg) == \E l \in Link : \E i \in DOMAIN link[l] : link[l][i] = Packet(seg)

\* A segment sent when all MNP processes are connected reaches its destination.
SegmentsArrive ==
  \A seg \in Segments :
    UnderWay(seg) /\ (\A n \in Node : mnp[n] = "on")
      ~> (SomeDead \/ seg \in delivered)
=============================================================================
