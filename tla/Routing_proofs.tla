--------------------------- MODULE Routing_proofs ---------------------------
(***************************************************************************)
(* Proofs about distance-vector routing, for every network, every order of *)
(* the updates and any number of them.                                     *)
(***************************************************************************)
EXTENDS RoutingInvariant, FiniteSetTheorems, SequenceTheorems,
        WellFoundedInduction, TLAPS

-----------------------------------------------------------------------------
(* The lists of the routing table.                                         *)

LEMMA HashIsSlot ==
  ASSUME NEW d \in Node
  PROVE  makehash(d) \in Slot
BY NodeAssumption, SlotsAssumption DEF makehash, Slot

(* routingtable_create makes one entry for each neighbor of the slot.      *)
LEMMA NeighborListIs ==
  ASSUME NEW nbrs \in SUBSET Node, NEW slot \in Slot
  PROVE  LET list == NeighborList(nbrs, slot)
         IN /\ list \in Seq(Entries)
            /\ IsList(slot, list)
            /\ \A i \in DOMAIN list : list[i].dest \in nbrs /\ list[i].next = list[i].dest
            /\ \A m \in nbrs : makehash(m) = slot => At(list, m) # {}
<1> DEFINE own == {m \in nbrs : makehash(m) = slot}
           n == Cardinality(own)
           order == CHOOSE q \in Bijection(1 .. n, own) : TRUE
           list == [i \in 1 .. n |-> Entry(order[i], order[i])]
<1>1. IsFiniteSet(own)
  BY NodeAssumption, FS_Subset
<1>2. n \in Nat /\ Bijection(1 .. n, own) # {}
  BY <1>1, FS_CardinalityType DEF ExistsBijection
<1>3. order \in Bijection(1 .. n, own)
  BY <1>2
<1> HIDE DEF order, n
<1>4. /\ \A i \in 1 .. n : order[i] \in own
      /\ \A i, j \in 1 .. n : order[i] = order[j] => i = j
      /\ \A m \in own : \E i \in 1 .. n : order[i] = m
  BY <1>3 DEF Bijection, Injection, Surjection, IsInjective
<1>5. list \in [1 .. n -> Entries]
  BY <1>4 DEF Entry, Entries
<1>6. list \in Seq(Entries) /\ DOMAIN list = 1 .. n
  BY <1>2, <1>5
<1>7. \A i \in 1 .. n : list[i].dest = order[i] /\ list[i].next = order[i]
  BY DEF Entry
<1>8. \A m \in nbrs : makehash(m) = slot => At(list, m) # {}
  <2> SUFFICES ASSUME NEW m \in own
               PROVE  At(list, m) # {}
    OBVIOUS
  <2>1. PICK i \in 1 .. n : order[i] = m
    BY <1>4
  <2> QED BY <2>1, <1>6, <1>7 DEF At
<1>9. IsList(slot, list)
  <2> HIDE DEF list
  <2> QED BY <1>4, <1>6, <1>7 DEF IsList
<1>10. NeighborList(nbrs, slot) = list
  BY DEF NeighborList, list, order, n
<1> HIDE DEF list
<1> QED BY <1>4, <1>6, <1>7, <1>8, <1>9, <1>10

(* SetInList keeps a list a list of different destinations, and changes    *)
(* what it says of one destination only.                                   *)
LEMMA SetInListIs ==
  ASSUME NEW list \in Seq(Entries), NEW dest \in Node, NEW next \in Node,
         IsList(makehash(dest), list)
  PROVE  LET new == SetInList(list, dest, next)
         IN /\ new \in Seq(Entries)
            /\ IsList(makehash(dest), new)
            /\ NextIn(new, dest) = {next}
            /\ \A d \in Node : d # dest =>
                 NextIn(new, d) = NextIn(list, d)
<1> DEFINE new == SetInList(list, dest, next)
<1>1. Entry(dest, next) \in Entries /\ Entry(dest, next).dest = dest
                                    /\ Entry(dest, next).next = next
  BY DEF Entry, Entries
<1>2. DOMAIN list = 1 .. Len(list) /\ Len(list) \in Nat
  OBVIOUS
<1>3. CASE At(list, dest) = {}
  <2>1. new = Append(list, Entry(dest, next))
    BY <1>3 DEF SetInList
  <2> HIDE DEF new
  <2>2. /\ new \in Seq(Entries)
        /\ DOMAIN new = 1 .. Len(list) + 1
        /\ \A i \in 1 .. Len(list) : new[i] = list[i]
        /\ new[Len(list) + 1] = Entry(dest, next)
    BY <2>1, <1>1, <1>2, AppendProperties
  <2>3. \A i \in 1 .. Len(list) : list[i].dest # dest
    BY <1>2, <1>3 DEF At
  <2>4. At(new, dest) = {Len(list) + 1}
    BY <2>2, <2>3, <1>1, <1>2 DEF At
  <2>5. \A d \in Node : d # dest => At(new, d) = At(list, d)
    BY <2>2, <2>3, <1>1, <1>2 DEF At
  <2>6. IsList(makehash(dest), new)
    BY <2>2, <2>3, <1>1, <1>2 DEF IsList
  <2>7. \A d \in Node : \A i \in At(list, d) : new[i] = list[i]
    BY <2>2, <1>2 DEF At
  <2> QED BY <2>2, <2>4, <2>5, <2>6, <2>7, <1>1 DEF new, NextIn
<1>4. CASE At(list, dest) # {}
  <2>1. new = [i \in DOMAIN list |->
                 IF list[i].dest = dest THEN Entry(dest, next) ELSE list[i]]
    BY <1>4 DEF SetInList
  <2> HIDE DEF new
  <2>2. \A i \in DOMAIN list : list[i] \in Entries
    BY <1>2
  <2>3. new \in Seq(Entries) /\ DOMAIN new = DOMAIN list
    BY <2>1, <2>2, <1>1, <1>2
  <2>4. \A i \in DOMAIN list :
          /\ new[i].dest = list[i].dest
          /\ list[i].dest = dest => new[i].next = next
          /\ list[i].dest # dest => new[i] = list[i]
    BY <2>1, <1>1
  <2>5. \A d \in Node : At(new, d) = At(list, d)
    BY <2>3, <2>4 DEF At
  <2>6. \A i \in At(new, dest) : new[i].next = next
    BY <2>3, <2>4, <2>5 DEF At
  <2>7. \A d \in Node : d # dest => \A i \in At(list, d) : new[i] = list[i]
    BY <2>4 DEF At
  <2>8. IsList(makehash(dest), new)
    BY <2>3, <2>4 DEF IsList
  <2> QED BY <2>3, <2>5, <2>6, <2>7, <2>8, <1>4 DEF new, NextIn
<1> QED BY <1>3, <1>4

IsTable(t) == t \in [Slot -> Seq(Entries)] /\ \A slot \in Slot : IsList(slot, t[slot])

(* routingtable_setnextnode changes the route to dest, and no other.       *)
LEMMA SetNextNodeIs ==
  ASSUME NEW t, IsTable(t), NEW dest \in Node, NEW next \in Node
  PROVE  LET new == routingtable_setnextnode(t, dest, next)
         IN /\ IsTable(new)
            /\ NextHops(new, dest) = {next}
            /\ \A d \in Node : d # dest => NextHops(new, d) = NextHops(t, d)
<1> DEFINE slot == makehash(dest)
           list == SetInList(t[slot], dest, next)
           new == routingtable_setnextnode(t, dest, next)
<1>1. slot \in Slot /\ t[slot] \in Seq(Entries) /\ IsList(slot, t[slot])
  BY HashIsSlot DEF IsTable
<1>2. /\ list \in Seq(Entries)
      /\ IsList(slot, list)
      /\ NextIn(list, dest) = {next}
      /\ \A d \in Node : d # dest =>
           NextIn(list, d) = NextIn(t[slot], d)
  BY <1>1, SetInListIs
<1>3. new = [t EXCEPT ![slot] = list]
  BY DEF routingtable_setnextnode
<1> HIDE DEF list, slot, new
<1>4. IsTable(new)
  BY <1>1, <1>2, <1>3 DEF IsTable
<1>5. new[slot] = list /\ \A s \in Slot : s # slot => new[s] = t[s]
  BY <1>1, <1>3 DEF IsTable
<1>6. NextHops(new, dest) = {next}
  BY <1>2, <1>5 DEF NextHops, slot
<1>7. ASSUME NEW d \in Node, d # dest
      PROVE  NextHops(new, d) = NextHops(t, d)
  <2>1. CASE makehash(d) = slot
    BY <2>1, <1>2, <1>5, <1>7 DEF NextHops
  <2>2. CASE makehash(d) # slot
    BY <2>2, <1>5, HashIsSlot DEF NextHops
  <2> QED BY <2>1, <2>2
<1> QED BY <1>4, <1>6, <1>7 DEF new

(* The entry the loops of network.c stop at is one of the list.            *)
LEMMA StopIs ==
  ASSUME NEW list \in Seq(Entries), list # << >>, NEW seen, seen \subseteq DOMAIN list
  PROVE  \E i \in DOMAIN list : Stop(list, seen) = list[i]
<1>1. Len(list) \in DOMAIN list
  OBVIOUS
<1>2. CASE seen = {}
  BY <1>1, <1>2 DEF Stop
<1>3. CASE seen # {}
  <2>1. (CHOOSE i \in seen : TRUE) \in seen
    BY <1>3
  <2> QED BY <2>1, <1>3 DEF Stop
<1> QED BY <1>2, <1>3

LEMMA LookupsAreEntries ==
  ASSUME NEW list \in Seq(Entries), list # << >>, NEW dest
  PROVE  /\ \E i \in DOMAIN list : HandlerEntry(list, dest) = list[i]
         /\ \E i \in DOMAIN list : TransportEntry(list, dest) = list[i]
BY StopIs DEF HandlerEntry, TransportEntry, At

-----------------------------------------------------------------------------
(* Types.                                                                  *)

LEMMA NbrIsLinked ==
  ASSUME NEW n \in Node, NEW s \in Nbr(n)
  PROVE  s \in Node /\ s # n /\ <<n, s>> \in Link /\ <<s, n>> \in Link
<1>1. s \in Node /\ <<n, s>> \in Link
  BY DEF Nbr
<1> DEFINE l == <<n, s>>
<1>2. l \in Link /\ l[1] = n /\ l[2] = s
  BY <1>1
<1>3. l[1] # l[2] /\ <<l[2], l[1]>> \in Link
  BY <1>2, LinkAssumption
<1> QED BY <1>1, <1>2, <1>3

LEMMA LinkIs ==
  ASSUME NEW l \in Link
  PROVE  /\ l = <<l[1], l[2]>> /\ l[1] \in Node /\ l[2] \in Nbr(l[1])
         /\ l[2] \in Node /\ l[1] # l[2] /\ <<l[2], l[1]>> \in Link
<1>1. l \in Node \X Node /\ l[1] # l[2] /\ <<l[2], l[1]>> \in Link
  BY LinkAssumption
<1>2. PICK m \in Node, n \in Node : l = <<m, n>>
  BY <1>1
<1>3. l[1] = m /\ l[2] = n
  BY <1>2
<1> QED BY <1>1, <1>2, <1>3 DEF Nbr

LEMMA DirectCost ==
  ASSUME NEW m \in Node, NEW n \in Node
  PROVE  /\ topology_getCost(m, n) \in 0 .. INFINITE_COST
         /\ topology_getCost(m, n) = 0 <=> m = n
         /\ m # n /\ <<m, n>> \notin Link => topology_getCost(m, n) = INFINITE_COST
<1>1. CASE <<m, n>> \in Link
  <2> DEFINE l == <<m, n>>
  <2>1. Cost[l] \in 1 .. INFINITE_COST - 1
    BY <1>1, LinkAssumption
  <2> QED BY <1>1, <2>1, BoundAssumption DEF topology_getCost
<1>2. CASE <<m, n>> \notin Link
  BY <1>2, BoundAssumption DEF topology_getCost
<1> QED BY <1>1, <1>2

LEMMA HeadOfLink ==
  ASSUME TypeOK, NEW l \in Link, link[l] # << >>
  PROVE  /\ Head(link[l]) \in Messages
         /\ Head(link[l]) = link[l][1]
         /\ Tail(link[l]) \in Seq(Messages)
         /\ Len(Tail(link[l])) = Len(link[l]) - 1
         /\ \A i \in 1 .. Len(Tail(link[l])) : Tail(link[l])[i] = link[l][i + 1]
         /\ Len(link[l]) \in Nat /\ Len(link[l]) <= LinkCap
<1>1. link[l] \in Seq(Messages) /\ Len(link[l]) <= LinkCap
  BY DEF TypeOK
<1> QED BY <1>1, HeadTailProperties

LEMMA MessageIs ==
  ASSUME NEW m \in Messages
  PROVE  /\ m.type = "ROUTE_UPDATE" => m.row \in Row
         /\ m.type = "MNP" => m.seg \in Segments /\ m.seg[1] \in Node /\ m.seg[2] \in Node
                             /\ m.seg[1] # m.seg[2] /\ m = Packet(m.seg)
<1>1. CASE m \in [type : {"ROUTE_UPDATE"}, row : Row]
  BY <1>1
<1>2. CASE m \in [type : {"MNP"}, seg : Segments]
  <2>1. m.seg \in Segments /\ m = Packet(m.seg)
    BY <1>2 DEF Packet
  <2> QED BY <1>2, <2>1, BoundAssumption
<1> QED BY <1>1, <1>2 DEF Messages

LEMMA InitType == Init => TypeOK
<1> SUFFICES ASSUME Init PROVE TypeOK
  OBVIOUS
<1>1. mnp \in [Node -> {"off", "on", "dead"}]
  BY DEF Init
<1>2. dv \in [Node -> Row]
  BY DirectCost DEF Init, Row
<1>3. nbrdv \in [Link -> Row]
  BY BoundAssumption DEF Init, Row
<1>4. \A n \in Node : IsTable(table[n])
  <2> SUFFICES ASSUME NEW n \in Node
               PROVE  IsTable(table[n])
    OBVIOUS
  <2>1. table[n] = [slot \in Slot |-> NeighborList(Nbr(n), slot)]
    BY DEF Init, routingtable_create
  <2>2. Nbr(n) \in SUBSET Node
    BY DEF Nbr
  <2>3. \A slot \in Slot : /\ NeighborList(Nbr(n), slot) \in Seq(Entries)
                           /\ IsList(slot, NeighborList(Nbr(n), slot))
    BY <2>2, NeighborListIs
  <2> QED BY <2>1, <2>3 DEF IsTable
<1>5. /\ table \in [Node -> [Slot -> Seq(Entries)]]
      /\ \A n \in Node, slot \in Slot : IsList(slot, table[n][slot])
  <2>1. table = [n \in Node |-> table[n]]
    BY DEF Init
  <2> QED BY <1>4, <2>1 DEF IsTable
<1>6. todo \in [Node -> SUBSET Better]
  BY DEF Init
<1>7. link \in [Link -> Seq(Messages)] /\ \A l \in Link : Len(link[l]) <= LinkCap
  BY BoundAssumption DEF Init
<1>8. unsent \subseteq Segments /\ delivered \subseteq Segments
  BY DEF Init
<1> QED BY <1>1, <1>2, <1>3, <1>5, <1>6, <1>7, <1>8 DEF TypeOK

LEMMA BetterRoutesAre ==
  ASSUME TypeOK, NEW n \in Node, NEW s \in Node, NEW row \in Row
  PROVE  /\ BetterRoutes(n, s, row) \subseteq Better
         /\ \A b \in BetterRoutes(n, s, row) :
              /\ b.next = s
              /\ b.cost = dv[n][s] + row[b.dest]
              /\ b.cost < dv[n][b.dest]
         /\ \A b, c \in BetterRoutes(n, s, row) : b.dest = c.dest => b = c
<1>1. \A d \in Node : dv[n][d] \in 0 .. INFINITE_COST /\ row[d] \in 0 .. INFINITE_COST
  BY DEF TypeOK, Row
<1> DEFINE b(d) == [dest |-> d, cost |-> dv[n][s] + row[d], next |-> s]
<1>2. \A d \in Node : dv[n][s] + row[d] < dv[n][d] => b(d) \in Better
  <2> SUFFICES ASSUME NEW d \in Node, dv[n][s] + row[d] < dv[n][d]
               PROVE  dv[n][s] + row[d] \in 0 .. INFINITE_COST
    BY DEF Better
  <2> QED BY <1>1, BoundAssumption
<1>3. \A x \in BetterRoutes(n, s, row) :
        \E d \in Node : x = b(d) /\ dv[n][s] + row[d] < dv[n][d]
  BY DEF BetterRoutes, dvtable_getcost
<1>4. \A d \in Node : b(d).dest = d /\ b(d).cost = dv[n][s] + row[d] /\ b(d).next = s
  OBVIOUS
<1> HIDE DEF b
<1>5. \A x \in BetterRoutes(n, s, row) : x = b(x.dest) /\ x.dest \in Node
                                       /\ dv[n][s] + row[x.dest] < dv[n][x.dest]
  BY <1>3, <1>4
<1> QED BY <1>2, <1>4, <1>5

(* What each step leaves of the links.                                     *)
LEMMA TailTyped ==
  ASSUME TypeOK, NEW l \in Link, link[l] # << >>, link' = [link EXCEPT ![l] = Tail(@)]
  PROVE  link' \in [Link -> Seq(Messages)] /\ \A k \in Link : Len(link'[k]) <= LinkCap
<1>1. Tail(link[l]) \in Seq(Messages) /\ Len(Tail(link[l])) <= LinkCap
  BY HeadOfLink, BoundAssumption
<1>2. link \in [Link -> Seq(Messages)] /\ \A k \in Link : Len(link[k]) <= LinkCap
  BY DEF TypeOK
<1> QED BY <1>1, <1>2

LEMMA AppendTyped ==
  ASSUME NEW f \in [Link -> Seq(Messages)], \A k \in Link : Len(f[k]) <= LinkCap,
         NEW l \in Link, Len(f[l]) < LinkCap, NEW m \in Messages
  PROVE  LET g == [f EXCEPT ![l] = Append(@, m)]
         IN g \in [Link -> Seq(Messages)] /\ \A k \in Link : Len(g[k]) <= LinkCap
<1> DEFINE g == [f EXCEPT ![l] = Append(@, m)]
<1>1. Append(f[l], m) \in Seq(Messages) /\ Len(Append(f[l], m)) = Len(f[l]) + 1
  BY AppendProperties
<1>2. Len(f[l]) + 1 <= LinkCap
  BY BoundAssumption
<1> QED BY <1>1, <1>2

LEMMA SegmentIs ==
  ASSUME NEW seg \in Segments
  PROVE  /\ seg[1] \in Node /\ seg[2] \in Node /\ seg[1] # seg[2]
         /\ Packet(seg) \in Messages
BY BoundAssumption DEF Packet, Messages

(* Where a node sends a segment, the list being one of its routing table.  *)
LEMMA ListsAreLists ==
  ASSUME TypeOK, NEW n \in Node, NEW d \in Node
  PROVE  /\ table[n][makehash(d)] \in Seq(Entries)
         /\ IsList(makehash(d), table[n][makehash(d)])
         /\ IsTable(table[n])
BY HashIsSlot DEF TypeOK, IsTable

LEMMA NextType == TypeOK /\ [Next]_vars => TypeOK'
<1> SUFFICES ASSUME TypeOK, [Next]_vars PROVE TypeOK'
  OBVIOUS
<1> USE DEF TypeOK
<1>1. CASE UNCHANGED vars
  BY <1>1 DEF vars
<1>2. ASSUME NEW n \in Node, Connect(n)
      PROVE  TypeOK'
  BY <1>2 DEF Connect
<1>3. ASSUME NEW n \in Node, SendRouteUpdate(n)
      PROVE  TypeOK'
  <2>1. RouteUpdate(dv[n]) \in Messages
    BY DEF RouteUpdate, Messages
  <2>2. ASSUME NEW l \in Link
        PROVE  link'[l] \in Seq(Messages) /\ Len(link'[l]) <= LinkCap
    <3>1. CASE l[1] = n
      <4>1. l[2] \in Nbr(n) /\ l = <<n, l[2]>>
        BY <3>1, LinkIs
      <4>2. Len(link[l]) < LinkCap /\ link[l] \in Seq(Messages)
        BY <1>3, <4>1 DEF SendRouteUpdate
      <4>3. link'[l] = Append(link[l], RouteUpdate(dv[n]))
        BY <1>3, <3>1 DEF SendRouteUpdate
      <4>4. /\ link'[l] \in Seq(Messages)
            /\ Len(link'[l]) = Len(link[l]) + 1
        BY <2>1, <4>2, <4>3, AppendProperties
      <4> QED BY <4>2, <4>4, BoundAssumption
    <3>2. CASE l[1] # n
      BY <1>3, <3>2 DEF SendRouteUpdate
    <3> QED BY <3>1, <3>2
  <2>3. link' = [l \in Link |-> link'[l]]
    BY <1>3 DEF SendRouteUpdate
  <2> HIDE DEF TypeOK
  <2>4. link' \in [Link -> Seq(Messages)] /\ \A l \in Link : Len(link'[l]) <= LinkCap
    BY <2>2, <2>3
  <2> QED BY <1>3, <2>4 DEF SendRouteUpdate, TypeOK
<1>4. ASSUME NEW n \in Node, Improve(n)
      PROVE  TypeOK'
  <2>1. PICK b \in todo[n] :
          /\ dv' = [dv EXCEPT ![n][b.dest] = b.cost]
          /\ table' = [table EXCEPT ![n] = routingtable_setnextnode(@, b.dest, b.next)]
          /\ todo' = [todo EXCEPT ![n] = @ \ {b}]
          /\ UNCHANGED <<mnp, nbrdv, link, unsent, delivered>>
    BY <1>4 DEF Improve, dvtable_setcost
  <2>2. b.dest \in Node /\ b.cost \in 0 .. INFINITE_COST /\ b.next \in Node
    BY DEF Better
  <2>3. dv' \in [Node -> Row]
    BY <2>1, <2>2 DEF Row
  <2>4. IsTable(routingtable_setnextnode(table[n], b.dest, b.next))
    BY <2>2, SetNextNodeIs DEF IsTable
  <2>5. /\ table' \in [Node -> [Slot -> Seq(Entries)]]
        /\ \A m \in Node, slot \in Slot : IsList(slot, table'[m][slot])
    BY <2>1, <2>4 DEF IsTable
  <2>6. todo' \in [Node -> SUBSET Better]
    BY <2>1
  <2> QED BY <2>1, <2>3, <2>5, <2>6
<1>5. ASSUME NEW n \in Node, NEW s \in Nbr(n), HandleRouteUpdate(n, s)
      PROVE  TypeOK'
  <2> DEFINE l == <<s, n>>
             row == Head(link[l]).row
  <2>1. l \in Link /\ <<n, s>> \in Link /\ s \in Node /\ s # n
    BY NbrIsLinked
  <2>2. link[l] # << >> /\ Head(link[l]).type = "ROUTE_UPDATE"
    BY <1>5 DEF HandleRouteUpdate, Reads
  <2>3. row \in Row
    BY <2>1, <2>2, HeadOfLink, MessageIs
  <2> HIDE DEF row
  <2>4. link' \in [Link -> Seq(Messages)] /\ \A k \in Link : Len(link'[k]) <= LinkCap
    BY <1>5, <2>1, <2>2, TailTyped DEF HandleRouteUpdate
  <2>5. [d \in Node |-> Lesser(row[d], nbrdv[<<n, s>>][d])] \in Row
    BY <2>1, <2>3 DEF Row, Lesser
  <2>6. nbrdv' = [nbrdv EXCEPT ![<<n, s>>] = [d \in Node |-> Lesser(row[d], nbrdv[<<n, s>>][d])]]
    <3>1. nbrdv' = [nbrdv EXCEPT ![<<n, s>>] = [d \in Node |-> Lesser(row[d], dvtable_getcost(n, s, d))]]
      BY <1>5 DEF HandleRouteUpdate, row
    <3> QED BY <2>1, <3>1 DEF dvtable_getcost
  <2>7. nbrdv' \in [Link -> Row]
    BY <2>5, <2>6
  <2>8. todo' \in [Node -> SUBSET Better]
    BY <1>5, <2>1, <2>3, BetterRoutesAre DEF HandleRouteUpdate, row
  <2> QED BY <1>5, <2>4, <2>7, <2>8 DEF HandleRouteUpdate
<1>6. ASSUME NEW n \in Node, NEW s \in Nbr(n), Discard(n, s)
      PROVE  TypeOK'
  <2>1. link' \in [Link -> Seq(Messages)] /\ \A k \in Link : Len(link'[k]) <= LinkCap
    BY <1>6, NbrIsLinked, TailTyped DEF Discard
  <2> QED BY <1>6, <2>1 DEF Discard
<1>7. ASSUME NEW n \in Node, NEW s \in Nbr(n), Deliver(n, s)
      PROVE  TypeOK'
  <2>1. link' \in [Link -> Seq(Messages)] /\ \A k \in Link : Len(link'[k]) <= LinkCap
    BY <1>7, NbrIsLinked, TailTyped DEF Deliver, Reads
  <2>2. Head(link[<<s, n>>]).seg \in Segments
    BY <1>7, NbrIsLinked, HeadOfLink, MessageIs DEF Deliver, Reads
  <2> QED BY <1>7, <2>1, <2>2 DEF Deliver
<1>8. ASSUME NEW n \in Node, NEW s \in Nbr(n), Forward(n, s)
      PROVE  TypeOK'
  <2> DEFINE l == <<s, n>>
             seg == Head(link[l]).seg
             hop == <<n, HandlerEntry(table[n][makehash(seg[2])], seg[2]).next>>
             f == [link EXCEPT ![l] = Tail(@)]
  <2>1. l \in Link /\ s # n /\ link[l] # << >> /\ Head(link[l]).type = "MNP"
    BY <1>8, NbrIsLinked DEF Forward, Reads
  <2>2. seg \in Segments
    BY <2>1, HeadOfLink, MessageIs
  <2> HIDE DEF seg
  <2>3. Packet(seg) \in Messages
    BY <2>2, SegmentIs
  <2>4. f \in [Link -> Seq(Messages)] /\ \A k \in Link : Len(f[k]) <= LinkCap
    <3>1. Tail(link[l]) \in Seq(Messages) /\ Len(Tail(link[l])) <= LinkCap
      BY <2>1, HeadOfLink, BoundAssumption
    <3> QED BY <3>1
  <2>5. /\ Len(link[hop]) < LinkCap
        /\ link' = [link EXCEPT ![l] = Tail(@), ![hop] = Append(@, Packet(seg))]
        /\ UNCHANGED <<mnp, dv, nbrdv, table, todo, unsent, delivered>>
    BY <1>8 DEF Forward, seg
  <2>6. hop # l
    BY <2>1
  <2> HIDE DEF hop, l
  <2>7. \A k \in Link : k # l => f[k] = link[k]
    OBVIOUS
  <2>8. link' \in [Link -> Seq(Messages)] /\ \A k \in Link : Len(link'[k]) <= LinkCap
    <3>1. CASE hop \in Link
      <4>1. f[hop] = link[hop]
        BY <2>6, <2>7, <3>1
      <4>2. link' = [f EXCEPT ![hop] = Append(@, Packet(seg))]
        BY <2>5, <2>6, <4>1
      <4> HIDE DEF f
      <4>3. Len(f[hop]) < LinkCap
        BY <2>5, <4>1
      <4> HIDE DEF TypeOK
      <4> QED BY <2>3, <2>4, <3>1, <4>2, <4>3, AppendTyped
    <3>2. CASE hop \notin Link
      <4>1. link' = f
        BY <2>5, <3>2
      <4> HIDE DEF f
      <4> QED BY <2>4, <4>1
    <3> QED BY <3>1, <3>2
  <2> HIDE DEF f
  <2> QED BY <2>5, <2>8
<1>9. ASSUME NEW n \in Node, NEW s \in Nbr(n), ForwardFault(n, s)
      PROVE  TypeOK'
  <2>1. link' \in [Link -> Seq(Messages)] /\ \A k \in Link : Len(link'[k]) <= LinkCap
    BY <1>9, NbrIsLinked, TailTyped DEF ForwardFault, Reads
  <2> QED BY <1>9, <2>1 DEF ForwardFault
<1>10. ASSUME NEW n \in Node, NEW seg \in Segments, SendSegment(n, seg)
       PROVE  TypeOK'
  <2> DEFINE hop == <<n, TransportEntry(table[n][makehash(seg[2])], seg[2]).next>>
  <2>1. /\ Len(link[hop]) < LinkCap
        /\ link' = [link EXCEPT ![hop] = Append(@, Packet(seg))]
        /\ unsent' = unsent \ {seg}
        /\ UNCHANGED <<mnp, dv, nbrdv, table, todo, delivered>>
    BY <1>10 DEF SendSegment
  <2> HIDE DEF hop
  <2>2. link' \in [Link -> Seq(Messages)] /\ \A k \in Link : Len(link'[k]) <= LinkCap
    <3>1. CASE hop \in Link
      BY <2>1, <3>1, SegmentIs, AppendTyped
    <3>2. CASE hop \notin Link
      <4>1. link' = link
        BY <2>1, <3>2
      <4> QED BY <4>1
    <3> QED BY <3>1, <3>2
  <2> QED BY <2>1, <2>2
<1>11. ASSUME NEW n \in Node, NEW seg \in Segments, SendSegmentFault(n, seg)
       PROVE  TypeOK'
  BY <1>11 DEF SendSegmentFault
<1> HIDE DEF TypeOK
<1> QED BY <1>1, <1>2, <1>3, <1>4, <1>5, <1>6, <1>7, <1>8, <1>9, <1>10, <1>11
        DEF Next, Handles

THEOREM TypeCorrect == Spec => []TypeOK
<1>1. Init => TypeOK
  BY InitType
<1>2. TypeOK /\ [Next]_vars => TypeOK'
  BY NextType
<1> QED BY <1>1, <1>2, PTL DEF Spec

-----------------------------------------------------------------------------
(* What a step does to the packets under way: one it adds to a link is the *)
(* sender's row, or a segment it forwards or sends.                        *)

IsUpdate(m) == m.type = "ROUTE_UPDATE"

LEMMA PacketIsNoUpdate ==
  ASSUME NEW seg
  PROVE  ~IsUpdate(Packet(seg))
BY DEF IsUpdate, Packet

(* The update m was on link l before.                                      *)
WasOn(l, m) == \E j \in DOMAIN link[l] : link[l][j] = m

LEMMA TailWasOn ==
  ASSUME TypeOK, NEW l \in Link, link[l] # << >>
  PROVE  \A i \in DOMAIN Tail(link[l]) : WasOn(l, Tail(link[l])[i])
<1> SUFFICES ASSUME NEW i \in DOMAIN Tail(link[l])
             PROVE  WasOn(l, Tail(link[l])[i])
  OBVIOUS
<1>1. /\ Tail(link[l]) \in Seq(Messages)
      /\ Len(Tail(link[l])) = Len(link[l]) - 1
      /\ \A k \in 1 .. Len(Tail(link[l])) : Tail(link[l])[k] = link[l][k + 1]
      /\ Len(link[l]) \in Nat
  BY HeadOfLink
<1>2. link[l] \in Seq(Messages)
  BY DEF TypeOK
<1>3. i \in 1 .. Len(Tail(link[l])) /\ i + 1 \in DOMAIN link[l]
  BY <1>1, <1>2
<1> QED BY <1>1, <1>3 DEF WasOn

LEMMA UpdatesAreKeptOrSent ==
  ASSUME TypeOK, [Next]_vars, NEW l \in Link, NEW i \in DOMAIN link'[l], IsUpdate(link'[l][i])
  PROVE  WasOn(l, link'[l][i]) \/ link'[l][i] = RouteUpdate(dv[l[1]])
<1>0. link[l] \in Seq(Messages) /\ link \in [Link -> Seq(Messages)]
  BY DEF TypeOK
<1>1. CASE link'[l] = link[l]
  BY <1>1 DEF WasOn
<1>2. ASSUME link[l] # << >>, link'[l] = Tail(link[l])
      PROVE  WasOn(l, link'[l][i])
  BY <1>2, TailWasOn
<1>3. ASSUME NEW m, link'[l] = Append(link[l], m)
      PROVE  WasOn(l, link'[l][i]) \/ link'[l][i] = m
  <2>1. DOMAIN link'[l] = 1 .. Len(link[l]) + 1 /\ Len(link[l]) \in Nat
    BY <1>0, <1>3
  <2>2. CASE i = Len(link[l]) + 1
    BY <1>0, <1>3, <2>1, <2>2
  <2>3. CASE i # Len(link[l]) + 1
    <3>1. i \in DOMAIN link[l] /\ link'[l][i] = link[l][i]
      BY <1>0, <1>3, <2>1, <2>3
    <3> QED BY <3>1 DEF WasOn
  <2> QED BY <2>2, <2>3
<1>4. ASSUME NEW n \in Node, SendRouteUpdate(n)
      PROVE  link'[l] = link[l] \/ (l[1] = n /\ link'[l] = Append(link[l], RouteUpdate(dv[n])))
  BY <1>4 DEF SendRouteUpdate
<1>5. ASSUME NEW n \in Node, NEW s \in Nbr(n), Handles(n, s)
      PROVE  \/ link'[l] = link[l]
             \/ link[l] # << >> /\ link'[l] = Tail(link[l])
             \/ \E seg : link'[l] = Append(link[l], Packet(seg))
  <2>1. CASE HandleRouteUpdate(n, s)
    BY <1>0, <2>1 DEF HandleRouteUpdate, Reads
  <2>2. CASE Discard(n, s)
    BY <1>0, <2>2 DEF Discard
  <2>3. CASE Deliver(n, s)
    BY <1>0, <2>3 DEF Deliver, Reads
  <2>4. CASE Forward(n, s)
    <3> DEFINE seg == Head(link[<<s, n>>]).seg
               hop == <<n, HandlerEntry(table[n][makehash(seg[2])], seg[2]).next>>
    <3>1. hop # <<s, n>>
      BY NbrIsLinked
    <3>2. link' = [link EXCEPT ![<<s, n>>] = Tail(@), ![hop] = Append(@, Packet(seg))]
      BY <2>4 DEF Forward
    <3>3. link[<<s, n>>] # << >>
      BY <2>4 DEF Forward, Reads
    <3> HIDE DEF seg, hop
    <3> QED BY <1>0, <3>1, <3>2, <3>3
  <2>5. CASE ForwardFault(n, s)
    BY <1>0, <2>5 DEF ForwardFault, Reads
  <2> QED BY <1>5, <2>1, <2>2, <2>3, <2>4, <2>5 DEF Handles
<1>6. ASSUME NEW n \in Node, NEW seg \in Segments, SendSegment(n, seg)
      PROVE  link'[l] = link[l] \/ link'[l] = Append(link[l], Packet(seg))
  <2> DEFINE hop == <<n, TransportEntry(table[n][makehash(seg[2])], seg[2]).next>>
  <2>1. link' = [link EXCEPT ![hop] = Append(@, Packet(seg))]
    BY <1>6 DEF SendSegment
  <2> HIDE DEF hop
  <2> QED BY <1>0, <2>1
<1>7. CASE UNCHANGED link
  BY <1>1, <1>7
<1>8. CASE \E n \in Node : SendRouteUpdate(n)
  BY <1>1, <1>3, <1>4, <1>8
<1>9. CASE \E n \in Node : \E s \in Nbr(n) : Handles(n, s)
  BY <1>1, <1>2, <1>3, <1>5, <1>9, PacketIsNoUpdate
<1>10. CASE \E n \in Node, seg \in Segments : SendSegment(n, seg)
  BY <1>1, <1>3, <1>6, <1>10, PacketIsNoUpdate
<1>11. \/ UNCHANGED link
       \/ \E n \in Node : SendRouteUpdate(n)
       \/ \E n \in Node : \E s \in Nbr(n) : Handles(n, s)
       \/ \E n \in Node, seg \in Segments : SendSegment(n, seg)
  BY DEF Next, vars, Connect, Improve, dvtable_setcost, SendSegmentFault
<1> QED BY <1>7, <1>8, <1>9, <1>10, <1>11

-----------------------------------------------------------------------------
(* The invariant.                                                          *)

LEMMA Costs ==
  ASSUME TypeOK
  PROVE  /\ \A n, d \in Node : dv[n][d] \in Nat /\ dv[n][d] <= INFINITE_COST
         /\ \A n \in Node : \A b \in todo[n] : b.dest \in Node /\ b.next \in Node /\ b.cost \in Nat
         /\ \A l \in Link : \A i \in DOMAIN link[l] :
              IsUpdate(link[l][i]) => /\ link[l][i].row \in Row
                                      /\ \A d \in Node : link[l][i].row[d] \in Nat
         /\ \A n, d \in Node : Dist[n][d] \in Nat
<1>1. /\ \A n, d \in Node : dv[n][d] \in Nat /\ dv[n][d] <= INFINITE_COST
      /\ \A n, d \in Node : Dist[n][d] \in Nat
  <2>1. INFINITE_COST \in Nat
    BY BoundAssumption
  <2>2. \A n, d \in Node : dv[n][d] \in 0 .. INFINITE_COST
    BY DEF TypeOK, Row
  <2>3. \A n, d \in Node : Dist[n][d] \in 0 .. INFINITE_COST
    BY DistAssumption
  <2> QED BY <2>1, <2>2, <2>3
<1>2. \A n \in Node : \A b \in todo[n] : b.dest \in Node /\ b.next \in Node /\ b.cost \in Nat
  BY BoundAssumption DEF TypeOK, Better
<1>3. ASSUME NEW l \in Link, NEW i \in DOMAIN link[l], IsUpdate(link[l][i])
      PROVE  link[l][i].row \in Row /\ \A d \in Node : link[l][i].row[d] \in Nat
  <2>1. link[l][i] \in Messages
    BY DEF TypeOK
  <2>2. link[l][i].row \in Row
    BY <1>3, <2>1, MessageIs DEF IsUpdate
  <2> QED BY <2>2, BoundAssumption DEF Row
<1> QED BY <1>1, <1>2, <1>3

LEMMA InitInv == Init => RoutingInv
<1> SUFFICES ASSUME Init PROVE RoutingInv
  OBVIOUS
<1>1. TypeOK
  BY InitType
<1>2. \A n, d \in Node : dv[n][d] = topology_getCost(d, n)
  BY DEF Init
<1>3. OwnRows
  <2> SUFFICES ASSUME NEW n \in Node, NEW d \in Node
               PROVE  dv[n][d] = 0 <=> n = d
    BY DEF OwnRows
  <2>1. topology_getCost(d, n) = 0 <=> d = n
    BY DirectCost
  <2> QED BY <1>2, <2>1
<1>4. /\ \A l \in Link : DOMAIN link[l] = {}
      /\ \A n \in Node : todo[n] = {}
  BY DEF Init
<1>5. ASSUME NEW n \in Node, NEW d \in Node
      PROVE  /\ \A h \in NextHops(table[n], d) : h = d /\ d \in Nbr(n)
             /\ d \in Nbr(n) => NextHops(table[n], d) # {}
  <2> DEFINE list == NeighborList(Nbr(n), makehash(d))
  <2>1. table[n][makehash(d)] = list
    BY HashIsSlot DEF Init, routingtable_create
  <2>2. /\ \A i \in DOMAIN list : list[i].dest \in Nbr(n) /\ list[i].next = list[i].dest
        /\ \A m \in Nbr(n) : makehash(m) = makehash(d) => At(list, m) # {}
    BY HashIsSlot, NeighborListIs DEF Nbr
  <2>3. NextHops(table[n], d) = NextIn(list, d)
    BY <2>1 DEF NextHops
  <2> HIDE DEF list
  <2> QED BY <2>2, <2>3 DEF NextIn, At
<1>6. RoutesDescend
  <2> SUFFICES ASSUME NEW n \in Node, NEW d \in Node, NEW h \in NextHops(table[n], d)
               PROVE  <<n, h>> \in Link /\ dv[h][d] < dv[n][d]
    BY DEF RoutesDescend
  <2>1. h = d /\ d # n /\ <<n, d>> \in Link
    BY <1>5, NbrIsLinked
  <2>2. dv[d][d] = 0 /\ dv[n][d] # 0 /\ dv[n][d] \in Nat
    BY <1>1, <1>3, <2>1, Costs DEF OwnRows
  <2> QED BY <2>1, <2>2
<1>7. KnownAreRouted
  <2> SUFFICES ASSUME NEW n \in Node, NEW d \in Node, n # d, dv[n][d] < INFINITE_COST
               PROVE  NextHops(table[n], d) # {}
    BY DEF KnownAreRouted
  <2>1. <<d, n>> \in Link
    <3>1. CASE <<d, n>> \notin Link
      BY <3>1, <1>2, DirectCost, BoundAssumption
    <3> QED BY <3>1
  <2>2. d \in Nbr(n)
    <3> DEFINE l == <<d, n>>
    <3>1. <<l[2], l[1]>> \in Link
      BY <2>1, LinkAssumption
    <3> QED BY <3>1 DEF Nbr
  <2> QED BY <1>5, <2>2
<1>8. CostsAreSound
  <2>1. \A n, d \in Node : dv[n][d] >= Dist[n][d]
    <3> SUFFICES ASSUME NEW n \in Node, NEW d \in Node
                 PROVE  dv[n][d] >= Dist[n][d]
      OBVIOUS
    <3>1. Dist[n][d] <= dv[n][d]
      BY <1>2, DistAssumption
    <3> QED BY <3>1, <1>1, Costs
  <2>2. \A l \in Link, d \in Node : nbrdv[l][d] >= Dist[l[2]][d]
    <3> SUFFICES ASSUME NEW l \in Link, NEW d \in Node
                 PROVE  nbrdv[l][d] >= Dist[l[2]][d]
      OBVIOUS
    <3>1. nbrdv[l][d] = INFINITE_COST
      BY DEF Init
    <3>2. Dist[l[2]][d] \in 0 .. INFINITE_COST
      BY LinkIs, DistAssumption
    <3> QED BY <3>1, <3>2, BoundAssumption
  <2> QED BY <2>1, <2>2 DEF CostsAreSound
<1> QED BY <1>1, <1>3, <1>4, <1>6, <1>7, <1>8
        DEF RoutingInv, UpdatesAreOld, TodoImproves, UpdatesAreSound, TodoIsSound

(* A cost never goes up.                                                   *)
LEMMA CostsFall ==
  ASSUME RoutingInv, [Next]_vars
  PROVE  \A n, d \in Node : dv'[n][d] \in Nat /\ dv'[n][d] <= dv[n][d]
<1>1. CASE UNCHANGED dv
  BY <1>1, Costs DEF RoutingInv
<1>2. CASE \E n \in Node : Improve(n)
  <2> PICK n \in Node : Improve(n)
    BY <1>2
  <2>1. PICK b \in todo[n] : dv' = [dv EXCEPT ![n][b.dest] = b.cost]
    BY DEF Improve, dvtable_setcost
  <2>2. b.cost < dv[n][b.dest] /\ b.cost \in Nat /\ b.dest \in Node
    BY Costs DEF RoutingInv, TodoImproves
  <2>3. \A m, d \in Node : dv'[m][d] = IF m = n /\ d = b.dest THEN b.cost ELSE dv[m][d]
    BY <2>1, <2>2 DEF RoutingInv, TypeOK, Row
  <2>4. \A m, d \in Node : dv[m][d] \in Nat
    BY Costs DEF RoutingInv
  <2> QED BY <2>2, <2>3, <2>4
<1>3. UNCHANGED dv \/ \E n \in Node : Improve(n)
  <2>1. CASE \E n \in Node : Connect(n) \/ SendRouteUpdate(n) \/ Improve(n)
    BY <2>1 DEF Connect, SendRouteUpdate
  <2>2. CASE \E n \in Node : \E s \in Nbr(n) : Handles(n, s)
    <3>1. PICK n \in Node : \E s \in Nbr(n) : Handles(n, s)
      BY <2>2
    <3>2. PICK s \in Nbr(n) : Handles(n, s)
      BY <3>1
    <3>3. CASE HandleRouteUpdate(n, s) \/ Discard(n, s) \/ Deliver(n, s)
      BY <3>3 DEF HandleRouteUpdate, Discard, Deliver
    <3>4. CASE Forward(n, s)
      BY <3>4 DEF Forward
    <3>5. CASE ForwardFault(n, s)
      BY <3>5 DEF ForwardFault
    <3> QED
      BY <3>2, <3>3, <3>4, <3>5 DEF Handles
  <2>3. CASE \E n \in Node, seg \in Segments : SendSegment(n, seg) \/ SendSegmentFault(n, seg)
    BY <2>3 DEF SendSegment, SendSegmentFault
  <2>4. CASE UNCHANGED vars
    BY <2>4 DEF vars
  <2> QED BY <2>1, <2>2, <2>3, <2>4 DEF Next
<1> QED BY <1>1, <1>2, <1>3

LEMMA UpdatesStayOld ==
  ASSUME RoutingInv, [Next]_vars
  PROVE  UpdatesAreOld' /\ UpdatesAreSound'
<1> SUFFICES ASSUME NEW l \in Link, NEW i \in DOMAIN link'[l], IsUpdate(link'[l][i]),
                    NEW d \in Node
             PROVE  /\ dv'[l[1]][d] <= link'[l][i].row[d]
                    /\ link'[l][i].row[d] >= Dist[l[1]][d]
  BY DEF UpdatesAreOld, UpdatesAreSound, IsUpdate
<1>1. /\ l[1] \in Node /\ dv'[l[1]][d] \in Nat /\ dv[l[1]][d] \in Nat
      /\ dv'[l[1]][d] <= dv[l[1]][d]
  BY LinkIs, CostsFall, Costs DEF RoutingInv
<1>2. CASE WasOn(l, link'[l][i])
  <2>1. PICK j \in DOMAIN link[l] : link[l][j] = link'[l][i]
    BY <1>2 DEF WasOn
  <2>2. /\ dv[l[1]][d] <= link[l][j].row[d]
        /\ link[l][j].row[d] >= Dist[l[1]][d]
        /\ link[l][j].row[d] \in Nat
    BY <2>1, Costs DEF RoutingInv, UpdatesAreOld, UpdatesAreSound, IsUpdate
  <2> QED BY <1>1, <2>1, <2>2
<1>3. CASE link'[l][i] = RouteUpdate(dv[l[1]])
  <2>1. link'[l][i].row[d] = dv[l[1]][d]
    BY <1>3 DEF RouteUpdate
  <2>2. dv[l[1]][d] >= Dist[l[1]][d]
    BY <1>1 DEF RoutingInv, CostsAreSound
  <2> QED BY <1>1, <2>1, <2>2
<1> QED BY <1>2, <1>3, UpdatesAreKeptOrSent DEF RoutingInv

(* The steps that leave the costs and the routes alone.                    *)
LEMMA QuietKeeps ==
  ASSUME RoutingInv, [Next]_vars, UNCHANGED <<dv, nbrdv, table>>,
         \A n \in Node : todo'[n] \subseteq todo[n]
  PROVE  RoutingInv'
<1>1. TypeOK'
  BY NextType DEF RoutingInv
<1>2. OwnRows' /\ RoutesDescend' /\ KnownAreRouted' /\ CostsAreSound'
  BY DEF RoutingInv, OwnRows, RoutesDescend, KnownAreRouted, CostsAreSound
<1>3. TodoImproves' /\ TodoIsSound'
  BY DEF RoutingInv, TodoImproves, TodoIsSound
<1> QED BY <1>1, <1>2, <1>3, UpdatesStayOld DEF RoutingInv

LEMMA HandleRouteUpdateKeeps ==
  ASSUME RoutingInv, [Next]_vars, NEW n \in Node, NEW s \in Nbr(n), HandleRouteUpdate(n, s)
  PROVE  RoutingInv'
<1> DEFINE l == <<s, n>>
           row == Head(link[l]).row
<1>1. l \in Link /\ <<n, s>> \in Link /\ s \in Node /\ s # n /\ l[1] = s
  BY NbrIsLinked
<1>2. /\ link[l] # << >> /\ Head(link[l]).type = "ROUTE_UPDATE"
      /\ nbrdv' = [nbrdv EXCEPT ![<<n, s>>] = [d \in Node |-> Lesser(row[d], nbrdv[<<n, s>>][d])]]
      /\ todo' = [todo EXCEPT ![n] = BetterRoutes(n, s, row)]
      /\ UNCHANGED <<dv, table>>
  <2>1. /\ link[l] # << >> /\ Head(link[l]).type = "ROUTE_UPDATE"
        /\ nbrdv' = [nbrdv EXCEPT ![<<n, s>>] = [d \in Node |-> Lesser(row[d], dvtable_getcost(n, s, d))]]
        /\ todo' = [todo EXCEPT ![n] = BetterRoutes(n, s, row)]
        /\ UNCHANGED <<dv, table>>
    BY DEF HandleRouteUpdate, Reads
  <2> HIDE DEF row
  <2> QED BY <1>1, <2>1 DEF dvtable_getcost
<1>3. 1 \in DOMAIN link[l] /\ Head(link[l]) = link[l][1]
  <2>1. link[l] \in Seq(Messages)
    BY <1>1 DEF RoutingInv, TypeOK
  <2> QED BY <1>2, <2>1
<1>4. row \in Row /\ \A d \in Node : row[d] \in Nat
  BY <1>1, <1>2, <1>3, Costs DEF RoutingInv, IsUpdate
<1>5. \A d \in Node : dv[s][d] <= row[d] /\ row[d] >= Dist[s][d]
  BY <1>1, <1>2, <1>3 DEF RoutingInv, UpdatesAreOld, UpdatesAreSound
<1>6. TypeOK /\ TypeOK'
  BY NextType DEF RoutingInv
<1> HIDE DEF row
<1>7. /\ \A m, d \in Node : dv[m][d] \in Nat
      /\ \A m, d \in Node : Dist[m][d] \in Nat
  BY <1>6, Costs
<1>8. dv[n][s] >= 1 /\ dv[n][s] >= Dist[n][s]
  BY <1>1, <1>7 DEF RoutingInv, OwnRows, CostsAreSound
<1>9. ASSUME NEW b \in BetterRoutes(n, s, row)
      PROVE  /\ <<n, b.next>> \in Link
             /\ dv[b.next][b.dest] < b.cost
             /\ b.cost < dv[n][b.dest]
             /\ b.cost >= Dist[n][b.dest]
             /\ \A c \in BetterRoutes(n, s, row) : c.dest = b.dest => c = b
  <2>1. /\ b.next = s
        /\ b.cost = dv[n][s] + row[b.dest]
        /\ b.cost < dv[n][b.dest]
        /\ b.dest \in Node
        /\ \A c \in BetterRoutes(n, s, row) : c.dest = b.dest => c = b
    BY <1>1, <1>4, <1>6, BetterRoutesAre DEF Better
  <2>2. Dist[n][b.dest] <= Dist[n][s] + Dist[s][b.dest]
    BY <1>1, <2>1, DistAssumption
  <2>3. /\ dv[s][b.dest] <= row[b.dest] /\ row[b.dest] >= Dist[s][b.dest]
        /\ row[b.dest] \in Nat /\ dv[s][b.dest] \in Nat /\ dv[n][s] \in Nat
        /\ Dist[n][b.dest] \in Nat /\ Dist[n][s] \in Nat /\ Dist[s][b.dest] \in Nat
    BY <1>1, <1>4, <1>5, <1>7, <2>1
  <2> QED BY <1>1, <1>8, <2>1, <2>2, <2>3
<1>10. \A m \in Node : todo'[m] = IF m = n THEN BetterRoutes(n, s, row) ELSE todo[m]
  BY <1>2, <1>6 DEF TypeOK
<1>11. TodoImproves' /\ TodoIsSound'
  <2> SUFFICES ASSUME NEW m \in Node, NEW b \in todo'[m]
               PROVE  /\ <<m, b.next>> \in Link
                      /\ dv[b.next][b.dest] < b.cost
                      /\ b.cost < dv[m][b.dest]
                      /\ b.cost >= Dist[m][b.dest]
                      /\ \A c \in todo'[m] : c.dest = b.dest => c = b
    BY <1>2 DEF TodoImproves, TodoIsSound
  <2>1. CASE m = n
    BY <1>9, <1>10, <2>1
  <2>2. CASE m # n
    BY <1>10, <2>2 DEF RoutingInv, TodoImproves, TodoIsSound
  <2> QED BY <2>1, <2>2
<1>12. CostsAreSound'
  <2> SUFFICES ASSUME NEW k \in Link, NEW d \in Node
               PROVE  nbrdv'[k][d] >= Dist[k[2]][d]
    BY <1>2 DEF RoutingInv, CostsAreSound
  <2>1. nbrdv[k][d] >= Dist[k[2]][d]
    BY DEF RoutingInv, CostsAreSound
  <2>2. CASE k = <<n, s>>
    <3>1. k[2] = s
      BY <2>2
    <3>2. nbrdv'[k][d] = Lesser(row[d], nbrdv[k][d])
      BY <1>2, <1>6, <2>2 DEF TypeOK
    <3> QED BY <1>5, <2>1, <3>1, <3>2 DEF Lesser
  <2>3. CASE k # <<n, s>>
    BY <1>2, <1>6, <2>1, <2>3 DEF TypeOK
  <2> QED BY <2>2, <2>3
<1>13. OwnRows' /\ RoutesDescend' /\ KnownAreRouted'
  BY <1>2 DEF RoutingInv, OwnRows, RoutesDescend, KnownAreRouted
<1> QED BY <1>6, <1>11, <1>12, <1>13, UpdatesStayOld DEF RoutingInv

LEMMA ImproveKeeps ==
  ASSUME RoutingInv, [Next]_vars, NEW n \in Node, Improve(n)
  PROVE  RoutingInv'
<1>1. PICK b \in todo[n] :
        /\ dv' = [dv EXCEPT ![n][b.dest] = b.cost]
        /\ table' = [table EXCEPT ![n] = routingtable_setnextnode(@, b.dest, b.next)]
        /\ todo' = [todo EXCEPT ![n] = @ \ {b}]
        /\ UNCHANGED <<mnp, nbrdv, link, unsent, delivered>>
  BY DEF Improve, dvtable_setcost
<1>2. TypeOK /\ TypeOK'
  BY NextType DEF RoutingInv
<1>3. b.dest \in Node /\ b.next \in Node /\ b.cost \in Nat
  BY <1>2, Costs
<1>4. /\ <<n, b.next>> \in Link
      /\ dv[b.next][b.dest] < b.cost
      /\ b.cost < dv[n][b.dest]
      /\ b.cost >= Dist[n][b.dest]
      /\ \A c \in todo[n] : c.dest = b.dest => c = b
  BY DEF RoutingInv, TodoImproves, TodoIsSound
<1>5. /\ \A m, d \in Node : dv[m][d] \in Nat
      /\ \A m, d \in Node : dv'[m][d] \in Nat /\ dv'[m][d] <= dv[m][d]
      /\ \A m \in Node : \A c \in todo[m] : c.dest \in Node /\ c.next \in Node /\ c.cost \in Nat
  BY <1>2, Costs, CostsFall
<1>6. \A m, d \in Node : dv'[m][d] = IF m = n /\ d = b.dest THEN b.cost ELSE dv[m][d]
  BY <1>1, <1>2, <1>3 DEF TypeOK, Row
<1>7. \A m, d \in Node :
        NextHops(table'[m], d) = IF m = n /\ d = b.dest THEN {b.next} ELSE NextHops(table[m], d)
  <2> DEFINE new == routingtable_setnextnode(table[n], b.dest, b.next)
  <2>1. IsTable(table[n])
    BY <1>2 DEF TypeOK, IsTable
  <2>2. /\ NextHops(new, b.dest) = {b.next}
        /\ \A d \in Node : d # b.dest => NextHops(new, d) = NextHops(table[n], d)
    BY <1>3, <2>1, SetNextNodeIs
  <2> HIDE DEF new
  <2>3. \A m \in Node : table'[m] = IF m = n THEN new ELSE table[m]
    BY <1>1, <1>2 DEF TypeOK, new
  <2> QED BY <2>2, <2>3
<1>8. \A m \in Node : todo'[m] = IF m = n THEN todo[n] \ {b} ELSE todo[m]
  BY <1>1, <1>2 DEF TypeOK
<1>9. OwnRows'
  <2>1. b.cost # 0 /\ b.dest # n
    BY <1>3, <1>4, <1>5 DEF RoutingInv, OwnRows
  <2> QED BY <1>6, <2>1 DEF RoutingInv, OwnRows
<1>10. TodoImproves'
  <2> SUFFICES ASSUME NEW m \in Node, NEW c \in todo'[m]
               PROVE  /\ <<m, c.next>> \in Link
                      /\ dv'[c.next][c.dest] < c.cost
                      /\ c.cost < dv'[m][c.dest]
                      /\ \A e \in todo'[m] : e.dest = c.dest => e = c
    BY DEF TodoImproves
  <2>1. c \in todo[m] /\ (m = n => c # b)
    BY <1>8
  <2>2. /\ <<m, c.next>> \in Link
        /\ dv[c.next][c.dest] < c.cost
        /\ c.cost < dv[m][c.dest]
        /\ \A e \in todo[m] : e.dest = c.dest => e = c
    BY <2>1 DEF RoutingInv, TodoImproves
  <2>3. dv'[m][c.dest] = dv[m][c.dest]
    BY <1>4, <1>5, <1>6, <2>1
  <2>4. dv'[c.next][c.dest] < c.cost
    BY <1>5, <2>1, <2>2
  <2> QED BY <1>8, <2>2, <2>3, <2>4
<1>11. RoutesDescend'
  <2> SUFFICES ASSUME NEW m \in Node, NEW d \in Node, NEW h \in NextHops(table'[m], d)
               PROVE  <<m, h>> \in Link /\ dv'[h][d] < dv'[m][d]
    BY DEF RoutesDescend
  <2>1. CASE m = n /\ d = b.dest
    BY <1>3, <1>4, <1>5, <1>6, <1>7, <2>1
  <2>2. CASE ~(m = n /\ d = b.dest)
    <3>1. h \in NextHops(table[m], d)
      BY <1>7, <2>2
    <3>2. <<m, h>> \in Link /\ dv[h][d] < dv[m][d]
      BY <3>1 DEF RoutingInv, RoutesDescend
    <3>3. h \in Node
      <4> DEFINE k == <<m, h>>
      <4>1. k \in Link /\ k[2] = h
        BY <3>2
      <4> QED BY <4>1, LinkIs
    <3>4. dv'[m][d] = dv[m][d]
      BY <1>6, <2>2
    <3> QED BY <1>5, <3>2, <3>3, <3>4
  <2> QED BY <2>1, <2>2
<1>12. KnownAreRouted'
  BY <1>6, <1>7 DEF RoutingInv, KnownAreRouted
<1>13. CostsAreSound'
  BY <1>1, <1>4, <1>6 DEF RoutingInv, CostsAreSound
<1>14. TodoIsSound'
  BY <1>8 DEF RoutingInv, TodoIsSound
<1> QED BY <1>2, <1>9, <1>10, <1>11, <1>12, <1>13, <1>14, UpdatesStayOld DEF RoutingInv

(* Costs never rise, next hops are nearer, and no promise is too good: the *)
(* invariant of every run of the network.                                  *)
THEOREM RoutingInvariantHolds == Spec => []RoutingInv
<1>1. Init => RoutingInv
  BY InitInv
<1>2. RoutingInv /\ [Next]_vars => RoutingInv'
  <2> SUFFICES ASSUME RoutingInv, [Next]_vars
               PROVE  RoutingInv'
    OBVIOUS
  <2>1. CASE UNCHANGED vars
    BY <2>1, QuietKeeps DEF vars
  <2>2. ASSUME NEW n \in Node, Connect(n)
        PROVE  RoutingInv'
    BY <2>2, QuietKeeps DEF Connect
  <2>3. ASSUME NEW n \in Node, SendRouteUpdate(n)
        PROVE  RoutingInv'
    BY <2>3, QuietKeeps DEF SendRouteUpdate
  <2>4. ASSUME NEW n \in Node, Improve(n)
        PROVE  RoutingInv'
    BY <2>4, ImproveKeeps
  <2>5. ASSUME NEW n \in Node, NEW s \in Nbr(n), Handles(n, s)
        PROVE  RoutingInv'
    <3>1. CASE HandleRouteUpdate(n, s)
      BY <3>1, HandleRouteUpdateKeeps
    <3>2. CASE Discard(n, s)
      BY <3>2, QuietKeeps DEF Discard
    <3>3. CASE Deliver(n, s)
      BY <3>3, QuietKeeps DEF Deliver
    <3>4. CASE Forward(n, s)
      BY <3>4, QuietKeeps DEF Forward
    <3>5. CASE ForwardFault(n, s)
      BY <3>5, QuietKeeps DEF ForwardFault
    <3> QED BY <2>5, <3>1, <3>2, <3>3, <3>4, <3>5 DEF Handles
  <2>6. ASSUME NEW n \in Node, NEW seg \in Segments, SendSegment(n, seg)
        PROVE  RoutingInv'
    BY <2>6, QuietKeeps DEF SendSegment
  <2>7. ASSUME NEW n \in Node, NEW seg \in Segments, SendSegmentFault(n, seg)
        PROVE  RoutingInv'
    <3>1. todo' = [todo EXCEPT ![n] = {}] /\ UNCHANGED <<dv, nbrdv, table>>
      BY <2>7 DEF SendSegmentFault, RoutingInv, TypeOK
    <3>2. \A m \in Node : todo'[m] \subseteq todo[m]
      BY <3>1 DEF RoutingInv, TypeOK
    <3> QED BY <3>1, <3>2, QuietKeeps
  <2> QED BY <2>1, <2>2, <2>3, <2>4, <2>5, <2>6, <2>7 DEF Next
<1> QED BY <1>1, <1>2, PTL DEF Spec

-----------------------------------------------------------------------------
(* What the invariant gives.                                               *)

(* The routes to a destination contain no cycle: of any set of nodes, the  *)
(* routes of one with the lowest cost leave the set.                       *)
THEOREM LoopFreedom == Spec => []LoopFree
<1>1. RoutingInv => LoopFree
  <2> SUFFICES ASSUME RoutingInv, NEW d \in Node, NEW S \in SUBSET (Node \ {d}), S # {}
               PROVE  \E n \in S : NextHops(table[n], d) \cap S = {}
    BY DEF LoopFree
  <2>1. \A n \in Node : dv[n][d] \in Nat
    BY Costs DEF RoutingInv
  <2> DEFINE T == {dv[n][d] : n \in S}
  <2>2. T \subseteq Nat /\ T # {}
    BY <2>1
  <2> HIDE DEF T
  <2>3. PICK x \in T : \A y \in T : <<y, x>> \notin OpToRel(<, Nat)
    BY <2>2, WFMin, NatLessThanWellFounded
  <2>4. \A y \in T : ~(y < x)
    BY <2>2, <2>3 DEF OpToRel
  <2>5. PICK n \in S : dv[n][d] = x
    BY DEF T
  <2>6. ASSUME NEW h \in NextHops(table[n], d), h \in S
        PROVE  FALSE
    <3>1. dv[h][d] < dv[n][d]
      BY DEF RoutingInv, RoutesDescend
    <3>2. dv[h][d] \in T
      BY <2>6 DEF T
    <3> QED BY <2>4, <2>5, <3>1, <3>2
  <2> QED BY <2>6
<1> QED BY <1>1, RoutingInvariantHolds, PTL

(* A next hop is a neighbor, and is the destination or has a next hop: its *)
(* cost is lower than one that is at most INFINITE_COST.                   *)
THEOREM NoBlackHoles == Spec => []RoutesLead
<1>1. RoutingInv => RoutesLead
  <2> SUFFICES ASSUME RoutingInv, NEW n \in Node, NEW d \in Node, NEW h \in NextHops(table[n], d)
               PROVE  <<n, h>> \in Link /\ (h = d \/ NextHops(table[h], d) # {})
    BY DEF RoutesLead
  <2>1. <<n, h>> \in Link /\ dv[h][d] < dv[n][d]
    BY DEF RoutingInv, RoutesDescend
  <2>2. h \in Node
    <3> DEFINE k == <<n, h>>
    <3>1. k \in Link /\ k[2] = h
      BY <2>1
    <3> QED BY <3>1, LinkIs
  <2>3. dv[h][d] < INFINITE_COST
    <3>1. /\ dv[h][d] \in Nat /\ dv[n][d] \in Nat /\ dv[n][d] <= INFINITE_COST
          /\ INFINITE_COST \in Nat
      BY <2>2, Costs, BoundAssumption DEF RoutingInv
    <3> QED BY <2>1, <3>1
  <2> QED BY <2>1, <2>2, <2>3 DEF RoutingInv, KnownAreRouted
<1> QED BY <1>1, RoutingInvariantHolds, PTL

(* No table and no stored row promises less than a true distance.          *)
THEOREM Soundness == Spec => []CostsAreSound
<1>1. RoutingInv => CostsAreSound
  BY DEF RoutingInv
<1> QED BY <1>1, RoutingInvariantHolds, PTL

(* Where no two nodes share a slot, the loops of network.c find the entry  *)
(* of a destination, and each hop brings a segment nearer to it.           *)
OneNodePerSlot == \A m, n \in Node : makehash(m) = makehash(n) => m = n

LEMMA LookupsFind ==
  ASSUME OneNodePerSlot, TypeOK, NEW n \in Node, NEW d \in Node,
         table[n][makehash(d)] # << >>
  PROVE  LET list == table[n][makehash(d)]
         IN /\ HandlerEntry(list, d).next \in NextHops(table[n], d)
            /\ TransportEntry(list, d).next \in NextHops(table[n], d)
<1> DEFINE list == table[n][makehash(d)]
<1>1. list \in Seq(Entries) /\ IsList(makehash(d), list)
  BY ListsAreLists
<1>2. \A i \in DOMAIN list : list[i].dest = d
  <2> HIDE DEF list
  <2>1. \A i \in DOMAIN list : list[i].dest \in Node
    <3>1. \A i \in DOMAIN list : list[i] \in Entries
      BY <1>1
    <3> QED BY <3>1 DEF Entries
  <2>2. \A i \in DOMAIN list : makehash(list[i].dest) = makehash(d)
    BY <1>1 DEF IsList
  <2> QED BY <2>1, <2>2 DEF OneNodePerSlot
<1>3. \A i \in DOMAIN list : list[i].next \in NextHops(table[n], d)
  BY <1>2 DEF NextHops, NextIn, At
<1> HIDE DEF list
<1>4. list # << >>
  BY DEF list
<1> QED BY <1>1, <1>3, <1>4, LookupsAreEntries DEF list

LEMMA HopIsNearer ==
  ASSUME RoutingInv, NEW n \in Node, NEW d \in Node, NEW h \in NextHops(table[n], d)
  PROVE  <<n, h>> \in Link /\ dv[h][d] < dv[n][d]
BY DEF RoutingInv, RoutesDescend

(* A link that keeps its packets, or loses the first, gets none.           *)
LEMMA NothingPut ==
  ASSUME TypeOK, NEW l \in Link, NEW seg,
         link'[l] = link[l] \/ (link[l] # << >> /\ link'[l] = Tail(link[l]))
  PROVE  ~Puts(l, seg)
<1>1. Len(link[l]) \in Nat /\ (link[l] # << >> => Len(Tail(link[l])) = Len(link[l]) - 1)
  <2>1. link[l] \in Seq(Messages)
    BY DEF TypeOK
  <2> QED BY <2>1, HeadTailProperties
<1>2. Len(link'[l]) # Len(link[l]) + 1
  <2>1. CASE link'[l] = link[l]
    BY <1>1, <2>1
  <2>2. CASE link[l] # << >> /\ link'[l] = Tail(link[l])
    BY <1>1, <2>2
  <2> QED BY <2>1, <2>2
<1> QED BY <1>2 DEF Puts

LEMMA PutIsLast ==
  ASSUME TypeOK, NEW l \in Link, NEW seg, NEW m, link'[l] = Append(link[l], m), Puts(l, seg)
  PROVE  m = Packet(seg)
<1>1. link[l] \in Seq(Messages)
  BY DEF TypeOK
<1> QED BY <1>1 DEF Puts

THEOREM EveryHopDescends ==
  ASSUME OneNodePerSlot
  PROVE  Spec => HopsDescend
<1> DEFINE Descends == \A l \in Link, seg \in Segments :
                         Puts(l, seg) => dv[l[2]][seg[2]] < dv[l[1]][seg[2]]
<1>1. RoutingInv /\ [Next]_vars => [Descends]_vars
  <2> SUFFICES ASSUME RoutingInv, Next,
                      NEW l \in Link, NEW seg \in Segments, Puts(l, seg)
               PROVE  dv[l[2]][seg[2]] < dv[l[1]][seg[2]]
    OBVIOUS
  <2>0. TypeOK /\ link \in [Link -> Seq(Messages)]
    BY DEF RoutingInv, TypeOK
  <2>1. link'[l] # link[l] /\ ~(link[l] # << >> /\ link'[l] = Tail(link[l]))
    BY <2>0, NothingPut
  <2>2. ASSUME NEW n \in Node, NEW h, h \in NextHops(table[n], seg[2]), l = <<n, h>>
        PROVE  dv[l[2]][seg[2]] < dv[l[1]][seg[2]]
    BY <2>2, SegmentIs, HopIsNearer
  <2>3. ASSUME NEW n \in Node, SendRouteUpdate(n)
        PROVE  FALSE
    <3>1. link'[l] = Append(link[l], RouteUpdate(dv[n]))
      BY <2>1, <2>3 DEF SendRouteUpdate
    <3>2. RouteUpdate(dv[n]) = Packet(seg)
      BY <2>0, <3>1, PutIsLast
    <3> QED BY <3>2 DEF RouteUpdate, Packet
  <2>4. ASSUME NEW n \in Node, NEW s \in Nbr(n), Forward(n, s)
        PROVE  dv[l[2]][seg[2]] < dv[l[1]][seg[2]]
    <3> DEFINE fwd == Head(link[<<s, n>>]).seg
               list == table[n][makehash(fwd[2])]
               h == HandlerEntry(list, fwd[2]).next
               hop == <<n, h>>
    <3>1. <<s, n>> \in Link /\ s # n
      BY NbrIsLinked
    <3>2. /\ link[<<s, n>>] # << >>
          /\ Head(link[<<s, n>>]).type = "MNP"
          /\ list # << >>
          /\ link' = [link EXCEPT ![<<s, n>>] = Tail(@), ![hop] = Append(@, Packet(fwd))]
      BY <2>4 DEF Forward, Reads
    <3>3. fwd \in Segments
      BY <2>0, <3>1, <3>2, HeadOfLink, MessageIs
    <3>4. hop # <<s, n>>
      BY <3>1
    <3> HIDE DEF fwd
    <3>5. h \in NextHops(table[n], fwd[2])
      BY <2>0, <3>2, <3>3, SegmentIs, LookupsFind
    <3> HIDE DEF h, list
    <3>6. l = hop /\ link'[l] = Append(link[l], Packet(fwd))
      BY <2>0, <2>1, <3>2, <3>4
    <3>7. Packet(fwd) = Packet(seg)
      BY <2>0, <3>6, PutIsLast
    <3>8. fwd = seg
      BY <3>7 DEF Packet
    <3> QED BY <2>2, <3>5, <3>6, <3>8
  <2>5. ASSUME NEW n \in Node, NEW sent \in Segments, SendSegment(n, sent)
        PROVE  dv[l[2]][seg[2]] < dv[l[1]][seg[2]]
    <3> DEFINE list == table[n][makehash(sent[2])]
               h == TransportEntry(list, sent[2]).next
               hop == <<n, h>>
    <3>1. list # << >> /\ link' = [link EXCEPT ![hop] = Append(@, Packet(sent))]
      BY <2>5 DEF SendSegment
    <3>2. h \in NextHops(table[n], sent[2])
      BY <2>0, <3>1, SegmentIs, LookupsFind
    <3> HIDE DEF h, list
    <3>3. l = hop /\ link'[l] = Append(link[l], Packet(sent))
      BY <2>0, <2>1, <3>1
    <3>4. Packet(sent) = Packet(seg)
      BY <2>0, <3>3, PutIsLast
    <3>5. sent = seg
      BY <3>4 DEF Packet
    <3> QED BY <2>2, <3>2, <3>3, <3>5
  <2>6. ASSUME NEW n \in Node, NEW s \in Nbr(n),
               HandleRouteUpdate(n, s) \/ Discard(n, s) \/ Deliver(n, s) \/ ForwardFault(n, s)
        PROVE  FALSE
    <3>1. link[<<s, n>>] # << >> /\ link' = [link EXCEPT ![<<s, n>>] = Tail(@)]
      BY <2>6 DEF HandleRouteUpdate, Discard, Deliver, ForwardFault, Reads
    <3> QED BY <2>0, <2>1, <3>1
  <2>7. ASSUME UNCHANGED link
        PROVE  FALSE
    BY <2>1, <2>7
  <2> QED BY <2>3, <2>4, <2>5, <2>6, <2>7
          DEF Next, Handles, Connect, Improve, dvtable_setcost, SendSegmentFault
<1> HIDE DEF Descends
<1>2. Spec => [][Descends]_vars
  BY <1>1, RoutingInvariantHolds, PTL DEF Spec
<1> QED BY <1>2 DEF HopsDescend, Descends
=============================================================================
