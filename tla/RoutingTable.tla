---------------------------- MODULE RoutingTable ----------------------------
(* The routing table of the MNP process (network/routing_table.c): an array *)
(* of slots, each a linked list of entries, here a sequence.  A node's slot *)
(* is its ID modulo the number of slots.  Nothing removes an entry, and an  *)
(* entry never changes its destination, so a list holds a destination once. *)
(* A list is read in four places, and they do not all read it the same way. *)
EXTENDS Integers, FiniteSets, Sequences, Functions

CONSTANTS
  Node,     \* the node IDs: the last part of an IP address
  Slots     \* MAX_ROUTINGTABLE_SLOTS

ASSUME NodeAssumption == Node \subseteq Nat /\ IsFiniteSet(Node)
ASSUME SlotsAssumption == Slots \in Nat \ {0}

\* The code's -1.
NoNode == -1
ASSUME NoNodeAssumption == NoNode \notin Node

makehash(node) == node % Slots
Slot == 0 .. Slots - 1

Entry(dest, next) == [dest |-> dest, next |-> next]
Entries == [dest : Node, next : Node]

\* The places in a list where an entry for dest is.
At(list, dest) == {i \in DOMAIN list : list[i].dest = dest}

\* The destinations of a list belong to its slot and are all different.
IsList(slot, list) ==
  /\ \A i \in DOMAIN list : makehash(list[i].dest) = slot
  /\ \A i, j \in DOMAIN list : list[i].dest = list[j].dest => i = j

\* The list of the neighbors' entries in a slot, in the order of the topology
\* file, which is any order.
NeighborList(nbrs, slot) ==
  LET own == {m \in nbrs : makehash(m) = slot}
      order == CHOOSE q \in Bijection(1 .. Cardinality(own), own) : TRUE
  IN [i \in 1 .. Cardinality(own) |-> Entry(order[i], order[i])]

\* Mutant: all slots NULL, without the direct links.
routingtable_createEmpty(nbrs) == [slot \in Slot |-> << >>]

routingtable_create(nbrs) == [slot \in Slot |-> NeighborList(nbrs, slot)]

\* Mutant: without the search for an entry.
SetInListAppends(list, dest, next) == Append(list, Entry(dest, next))

\* Change the entry for dest, or append one.
SetInList(list, dest, next) ==
  IF At(list, dest) = {}
  THEN Append(list, Entry(dest, next))
  ELSE [i \in DOMAIN list |->
          IF list[i].dest = dest THEN Entry(dest, next) ELSE list[i]]

\* Mutant: the arguments swapped.
routingtable_setnextnodeSwapped(table, dest, next) ==
  LET slot == makehash(next)
  IN [table EXCEPT ![slot] = SetInList(table[slot], next, dest)]

routingtable_setnextnode(table, dest, next) ==
  LET slot == makehash(dest)
  IN [table EXCEPT ![slot] = SetInList(table[slot], dest, next)]

\* routingtable_getnextnode leaves its loop before it looks at the last entry.
routingtable_getnextnode(table, dest) ==
  LET list == table[makehash(dest)]
      seen == At(list, dest) \ {Len(list)}
  IN IF seen = {} THEN NoNode ELSE list[CHOOSE i \in seen : TRUE].next

\* The two loops of network.c take the entry where they stop: pkthandler's
\* moves on before it compares and misses the first entry, waitTransport's
\* compares before it moves on; at the end of the list both stop at the last
\* entry, whatever its destination.  An empty slot is a NULL pointer.
Stop(list, seen) == list[IF seen = {} THEN Len(list) ELSE CHOOSE i \in seen : TRUE]
HandlerEntry(list, dest) == Stop(list, At(list, dest) \ {1})
TransportEntry(list, dest) == Stop(list, At(list, dest))

\* What the table says of dest: one next hop, or none.
NextIn(list, dest) == {list[i].next : i \in At(list, dest)}
NextHops(table, dest) == NextIn(table[makehash(dest)], dest)
=============================================================================
