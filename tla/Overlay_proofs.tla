---------------------------- MODULE Overlay_proofs ----------------------------
(* Proofs about the overlay process, for every topology, number of starts,  *)
(* of MNP processes and of descriptors: the types, and that an entry of the *)
(* neighbor table never leads to another process than its neighbor's, if no *)
(* connection is accepted between a close and the store that follows it;    *)
(* and that all neighbors are connected when the listeners start.           *)
EXTENDS Overlay, FiniteSetTheorems, SequenceTheorems, TLAPS

(* Types. *)

LEMMA ConnType ==
  ASSUME NEW from \in Nodes \cup {MNP}, NEW to \in Nodes, NEW k \in Nat
  PROVE  Conn(from, to, k) \in Conns
  BY DEF Conn, Conns

LEMMA OtherEndType ==
  ASSUME NEW n, NEW c \in Conns
  PROVE  OtherEnd(n, c) \in Nodes \cup {MNP}
  BY DEF Conns, OtherEnd

LEMMA BiggerIsFinite ==
  ASSUME NEW n \in Nodes
  PROVE  Cardinality(Bigger(n)) \in Nat
<1>1. Bigger(n) \subseteq Nodes
  BY DEF Bigger, Nbrs
<1>2. IsFiniteSet(Bigger(n))
  BY <1>1, OverlayAssumption, FS_Subset
<1> QED BY <1>2, FS_CardinalityType

\* What is popped from a queue of connections, and what is left.
LEMMA PopType ==
  ASSUME NEW q \in Seq(Conns), q # <<>>
  PROVE  Head(q) \in Conns /\ Tail(q) \in Seq(Conns)
  BY HeadTailProperties

LEMMA InitType == Init => TypeOK
  BY DEF Init, TypeOK, Conns

LEMMA EndType ==
  ASSUME TypeOK, NEW n \in Nodes, End(n)
  PROVE  TypeOK'
  BY EmptySeq DEF TypeOK, End

LEMMA StartType ==
  ASSUME TypeOK, NEW n \in Nodes, Start(n)
  PROVE  TypeOK'
<1>1. starts' \in [Nodes -> Nat] /\ main' \in [Nodes -> {"off", "sleep", "connect", "running", "ended"}]
  BY DEF TypeOK, Start
<1>2. big_nbr' \in [Nodes -> Nat]
  BY BiggerIsFinite DEF TypeOK, Start
<1>3. nt' \in [Nodes -> [Nodes -> Fds \cup {None}]] /\ network_conn' \in [Nodes -> Fds \cup {None}]
  BY DEF TypeOK, Start, nt_create
<1>4. waiting' \in [Nodes -> {"none", "start", "accept", "done"}]
  BY DEF TypeOK, Start
<1> QED BY <1>1, <1>2, <1>3, <1>4 DEF TypeOK, Start, mnpVars

LEMMA AcceptType ==
  ASSUME TypeOK, NEW n \in Nodes, Accept(n)
  PROVE  TypeOK'
<1>1. PICK d \in Fds :
        /\ file' = [file EXCEPT ![n][d] = Head(backlog[n])]
        /\ nt_addconn(n, Head(backlog[n]).from, d)
  BY DEF Accept
<1>2. Head(backlog[n]) \in Conns /\ Tail(backlog[n]) \in Seq(Conns)
  BY PopType DEF Accept, TypeOK
<1>3. nt' \in [Nodes -> [Nodes -> Fds \cup {None}]]
  BY <1>1 DEF nt_addconn, Nbrs, TypeOK
<1>4. file' \in [Nodes -> [Fds -> Conns \cup {Free}]]
  BY <1>1, <1>2 DEF TypeOK
<1>5. backlog' \in [Nodes -> Seq(Conns)] /\ big_nbr' \in [Nodes -> Nat]
  BY <1>2 DEF Accept, TypeOK
<1> QED BY <1>3, <1>4, <1>5 DEF Accept, TypeOK, netVars, mnpVars

LEMMA ConnectType ==
  ASSUME TypeOK, NEW n \in Nodes, NEW m \in Nodes, ConnectNbr(n, m)
  PROVE  TypeOK'
<1> DEFINE c == Conn(n, m, starts[n])
<1>1. c \in Conns
  BY ConnType DEF TypeOK
<1>2. PICK d \in Fds : file' = [file EXCEPT ![n][d] = c] /\ nt_addconn(n, m, d)
  BY DEF ConnectNbr
<1>3. backlog' = [backlog EXCEPT ![m] = Append(@, c)]
  BY DEF ConnectNbr
<1> HIDE DEF c
<1>4. nt' \in [Nodes -> [Nodes -> Fds \cup {None}]]
  BY <1>2 DEF nt_addconn, Nbrs, TypeOK
<1>5. file' \in [Nodes -> [Fds -> Conns \cup {Free}]]
  BY <1>1, <1>2 DEF TypeOK
<1>6. backlog' \in [Nodes -> Seq(Conns)]
  BY <1>1, <1>3, AppendProperties DEF TypeOK
<1> QED BY <1>4, <1>5, <1>6 DEF ConnectNbr, TypeOK, netVars, mnpVars

LEMMA ThreadType ==
  ASSUME TypeOK, NEW n \in Nodes, Listen(n) \/ StopListening(n) \/ WakeUp(n) \/ Join(n)
  PROVE  TypeOK'
<1>1. CASE Listen(n)
  BY <1>1 DEF Listen, TypeOK, tableVars, netVars, mnpVars
<1>2. CASE StopListening(n)
  BY <1>2, EmptySeq DEF StopListening, TypeOK, tableVars, netVars, mnpVars
<1>3. CASE WakeUp(n)
  BY <1>3 DEF WakeUp, Smaller, Nbrs, TypeOK, tableVars, netVars, mnpVars
<1>4. CASE Join(n)
  BY <1>4 DEF Join, TypeOK, startVars, mnpVars
<1> QED BY <1>1, <1>2, <1>3, <1>4

LEMMA ListenerType ==
  ASSUME TypeOK, NEW n \in Nodes, NEW m \in Nodes, Listener(n, m)
  PROVE  TypeOK'
<1>1. CASE Forward(n, m)
  BY <1>1 DEF Forward, Received, TypeOK, startVars, tableVars, netVars, mnpVars
<1>2. CASE ForwardBreaks(n, m)
  BY <1>2, EndType DEF ForwardBreaks
<1>3. CASE HangUp(n, m)
  BY <1>3 DEF HangUp, TypeOK, startVars, netVars, mnpVars
<1>4. CASE Forget(n, m)
  BY <1>4 DEF Forget, TypeOK, startVars, netVars, mnpVars
<1> QED BY <1>1, <1>2, <1>3, <1>4 DEF Listener

LEMMA NetworkType ==
  ASSUME TypeOK, NEW n \in Nodes, NEW m \in Nodes,
         AcceptMnp(n) \/ TakePacket(n) \/ SendTo(n, m) \/ SendBreaks(n, m) \/ CloseMnp(n)
  PROVE  TypeOK'
<1>1. CASE AcceptMnp(n)
  <2>1. Head(calls[n]) \in Conns /\ Tail(calls[n]) \in Seq(Conns)
    BY <1>1, PopType DEF AcceptMnp, TypeOK
  <2>2. PICK d \in Fds :
          /\ file' = [file EXCEPT ![n][d] = Head(calls[n])]
          /\ network_conn' = [network_conn EXCEPT ![n] = d]
    BY <1>1 DEF AcceptMnp
  <2>3. file' \in [Nodes -> [Fds -> Conns \cup {Free}]]
    BY <2>1, <2>2 DEF TypeOK
  <2>4. network_conn' \in [Nodes -> Fds \cup {None}]
    BY <2>2 DEF TypeOK
  <2>5. calls' \in [Nodes -> Seq(Conns)]
    BY <1>1, <2>1 DEF AcceptMnp, TypeOK
  <2> QED BY <1>1, <2>3, <2>4, <2>5 DEF AcceptMnp, TypeOK, startVars
<1>2. CASE TakePacket(n)
  <2>1. out' \in [Nodes -> SUBSET Nodes]
    <3>1. Nbrs(n) \subseteq Nodes
      BY DEF Nbrs
    <3>2. PICK s \in SUBSET Nodes : out' = [out EXCEPT ![n] = s]
      <4>1. CASE out' = [out EXCEPT ![n] = Nbrs(n)]
        BY <3>1, <4>1
      <4>2. CASE \E i \in Nbrs(n) : out' = [out EXCEPT ![n] = {i}]
        BY <3>1, <4>2
      <4> QED BY <1>2, <4>1, <4>2 DEF TakePacket
    <3> QED BY <3>2 DEF TypeOK
  <2> QED BY <1>2, <2>1 DEF TakePacket, TypeOK, startVars, tableVars, mnpVars
<1>3. CASE SendTo(n, m)
  <2>1. pkts' \subseteq Nodes \X (Nodes \cup {MNP})
    <3>1. CASE Delivers(n, nt[n][m])
      <4>1. nt[n][m] \in Fds
        BY <3>1 DEF Delivers, NoConn, TypeOK
      <4>2. file[n][nt[n][m]] \in Conns
        BY <3>1, <4>1 DEF Delivers, NoConn, TypeOK
      <4> DEFINE o == OtherEnd(n, file[n][nt[n][m]])
      <4>3. o \in Nodes \cup {MNP}
        BY <4>2, OtherEndType
      <4>4. pkts' = pkts \cup {<<n, o>>}
        BY <1>3, <3>1 DEF SendTo
      <4> HIDE DEF o
      <4>5. pkts \subseteq Nodes \X (Nodes \cup {MNP})
        BY DEF TypeOK
      <4>6. <<n, o>> \in Nodes \X (Nodes \cup {MNP})
        BY <4>3
      <4> QED BY <4>4, <4>5, <4>6
    <3>2. CASE ~Delivers(n, nt[n][m])
      BY <1>3, <3>2 DEF SendTo, TypeOK
    <3> QED BY <3>1, <3>2
  <2>2. out' \in [Nodes -> SUBSET Nodes] /\ net' \in [Nodes -> {"none", "accept", "recv", "send"}]
    BY <1>3 DEF SendTo, TypeOK
  <2> QED BY <1>3, <2>1, <2>2 DEF SendTo, TypeOK, startVars, tableVars, mnpVars
<1>4. CASE SendBreaks(n, m)
  BY <1>4, EndType DEF SendBreaks
<1>5. CASE CloseMnp(n)
  BY <1>5 DEF CloseMnp, TypeOK, startVars, mnpVars
<1> QED BY <1>1, <1>2, <1>3, <1>4, <1>5

LEMMA MnpType ==
  ASSUME TypeOK, NEW n \in Nodes, StartMnp(n) \/ EndMnp(n)
  PROVE  TypeOK'
<1>1. CASE StartMnp(n)
  <2> DEFINE c == Conn(MNP, n, mnps[n] + 1)
  <2>1. c \in Conns
    <3>1. mnps[n] + 1 \in Nat /\ MNP \in Nodes \cup {MNP}
      BY DEF TypeOK
    <3> QED BY <3>1, ConnType
  <2>2. calls' = [calls EXCEPT ![n] = Append(@, c)]
    BY <1>1 DEF StartMnp
  <2> HIDE DEF c
  <2>3. calls' \in [Nodes -> Seq(Conns)]
    BY <2>1, <2>2, AppendProperties DEF TypeOK
  <2>4. mnp' \in [Nodes -> Nat] /\ mnps' \in [Nodes -> Nat]
    BY <1>1 DEF StartMnp, TypeOK
  <2> QED BY <1>1, <2>3, <2>4 DEF StartMnp, TypeOK, startVars, tableVars, netVars
<1>2. CASE EndMnp(n)
  BY <1>2 DEF EndMnp, TypeOK, startVars, tableVars, netVars
<1> QED BY <1>1, <1>2

\* Every step is one of these.
LEMMA StepIsOf ==
  ASSUME Next
  PROVE  \E n, m \in Nodes :
           \/ Start(n) \/ Accept(n) \/ ConnectNbr(n, m) \/ Listener(n, m)
           \/ Listen(n) \/ StopListening(n) \/ WakeUp(n) \/ Join(n)
           \/ AcceptMnp(n) \/ TakePacket(n) \/ SendTo(n, m) \/ SendBreaks(n, m) \/ CloseMnp(n)
           \/ StartMnp(n) \/ EndMnp(n)
           \/ End(n)
  BY DEF Next, Waiter, Main, Network, Refused, overlay_stop

LEMMA NextType ==
  ASSUME TypeOK, [Next]_vars
  PROVE  TypeOK'
<1>1. CASE Next
  <2>1. PICK n, m \in Nodes :
           \/ Start(n) \/ Accept(n) \/ ConnectNbr(n, m) \/ Listener(n, m)
           \/ Listen(n) \/ StopListening(n) \/ WakeUp(n) \/ Join(n)
           \/ AcceptMnp(n) \/ TakePacket(n) \/ SendTo(n, m) \/ SendBreaks(n, m) \/ CloseMnp(n)
           \/ StartMnp(n) \/ EndMnp(n)
           \/ End(n)
    BY <1>1, StepIsOf
  <2> QED BY <2>1, StartType, AcceptType, ConnectType, ListenerType, ThreadType, NetworkType,
             MnpType, EndType
<1>2. CASE UNCHANGED vars
  BY <1>2 DEF vars, startVars, tableVars, netVars, mnpVars, TypeOK
<1> QED BY <1>1, <1>2

\* Every variable of the overlay processes keeps its type.
THEOREM TypeCorrect == Spec => []TypeOK
<1>1. Init => TypeOK
  BY InitType
<1>2. TypeOK /\ [Next]_vars => TypeOK'
  BY NextType
<1> QED BY <1>1, <1>2, PTL DEF Spec

(* Descriptors.  The inductive invariant, for a node n. *)

\* An entry of the neighbor table leads to that neighbor.
EntryIsToNeighbor(n) ==
  \A m \in Nbrs(n) : ~NoConn(n, nt[n][m]) => OtherEnd(n, file[n][nt[n][m]]) = m

\* An entry whose descriptor is not open is about to be cleared: the kernel
\* would give that descriptor to the next connection.
FreedIsClosed(n) ==
  \A m \in Nbrs(n) :
    nt[n][m] # None /\ file[n][nt[n][m]] = Free => listener[n][m] = "closed"

\* Only a running process has listeners and serves an MNP process.
NotYetServing(n) ==
  main[n] # "running" => net[n] = "none" /\ \A m \in Nodes : listener[n][m] = "none"

ListensToNbrs(n) == \A m \in Nodes \ Nbrs(n) : listener[n][m] = "none"

\* While an MNP process is served, network_conn is its connection.
ServesMnp(n) ==
  net[n] \in {"recv", "send"} =>
    /\ network_conn[n] \in Fds /\ file[n][network_conn[n]] # Free
    /\ file[n][network_conn[n]].from = MNP

CallsAreFromMnp(n) == \A i \in 1 .. Len(calls[n]) : calls[n][i].from = MNP

Sound(n) ==
  /\ EntryIsToNeighbor(n) /\ FreedIsClosed(n) /\ NotYetServing(n)
  /\ ListensToNbrs(n) /\ ServesMnp(n) /\ CallsAreFromMnp(n)

IInv == TypeOK /\ \A n \in Nodes : Sound(n)

LEMMA NbrFacts ==
  ASSUME NEW n \in Nodes, NEW m \in Nbrs(n)
  PROVE  m \in Nodes /\ m # n /\ m # MNP /\ n # MNP
  BY OverlayAssumption DEF Nbrs, MNP

LEMMA FreeIsNoConn == Free \notin Conns
  BY OverlayAssumption DEF Free, Conn, Conns

\* What a step of another node leaves alone.
LEMMA SoundElsewhere ==
  ASSUME NEW n \in Nodes, Sound(n),
         main'[n] = main[n], nt'[n] = nt[n], listener'[n] = listener[n], file'[n] = file[n],
         network_conn'[n] = network_conn[n], net'[n] = net[n], calls'[n] = calls[n]
  PROVE  Sound(n)'
  BY DEF Sound, EntryIsToNeighbor, FreedIsClosed, NotYetServing, ListensToNbrs, ServesMnp,
     CallsAreFromMnp, NoConn

\* The end of a process leaves no entry and nobody to use one.
LEMMA EndSound ==
  ASSUME TypeOK, NEW n \in Nodes, End(n)
  PROVE  Sound(n)'
<1>1. /\ main'[n] = "ended" /\ net'[n] = "none" /\ calls'[n] = <<>>
      /\ \A m \in Nodes : nt'[n][m] = None /\ listener'[n][m] = "none"
  BY DEF End, TypeOK
<1>2. EntryIsToNeighbor(n)' /\ FreedIsClosed(n)'
  BY <1>1, NbrFacts DEF EntryIsToNeighbor, FreedIsClosed, NoConn
<1>3. NotYetServing(n)' /\ ListensToNbrs(n)' /\ ServesMnp(n)'
  BY <1>1 DEF NotYetServing, ListensToNbrs, ServesMnp
<1>4. CallsAreFromMnp(n)'
  BY <1>1 DEF CallsAreFromMnp
<1> QED BY <1>2, <1>3, <1>4 DEF Sound

LEMMA StartSound ==
  ASSUME TypeOK, NEW n \in Nodes, Sound(n), Start(n)
  PROVE  Sound(n)'
<1>1. /\ main'[n] = "sleep" /\ net' = net /\ calls' = calls /\ listener' = listener
      /\ \A m \in Nodes : nt'[n][m] = None
  BY DEF Start, TypeOK, nt_create, mnpVars
<1>2. EntryIsToNeighbor(n)' /\ FreedIsClosed(n)'
  BY <1>1, NbrFacts DEF EntryIsToNeighbor, FreedIsClosed, NoConn
<1>3. net[n] = "none" /\ \A m \in Nodes : listener[n][m] = "none"
  BY DEF Sound, NotYetServing, Start
<1>4. NotYetServing(n)' /\ ListensToNbrs(n)' /\ ServesMnp(n)'
  BY <1>1, <1>3 DEF NotYetServing, ListensToNbrs, ServesMnp
<1>5. CallsAreFromMnp(n)'
  BY <1>1 DEF CallsAreFromMnp, Sound
<1> QED BY <1>2, <1>4, <1>5 DEF Sound

\* The descriptor of a new connection is in no entry ...
LEMMA NewFdIsInNoEntry ==
  ASSUME TypeOK, NEW n \in Nodes, Sound(n), NEW d \in Fds, file[n][d] = Free,
         \A m \in Nbrs(n) : listener[n][m] # "closed"
  PROVE  \A m \in Nbrs(n) : nt[n][m] # d
<1>1. d # None
  BY DEF Fds, None
<1> QED BY <1>1 DEF Sound, FreedIsClosed

\* ... so that it may be entered for the neighbor the connection is to.
LEMMA NewConn ==
  ASSUME TypeOK, NEW n \in Nodes, Sound(n), NEW d \in Fds, file[n][d] = Free,
         \A m \in Nbrs(n) : listener[n][m] # "closed",
         NEW c \in Conns, file' = [file EXCEPT ![n][d] = c],
         \/ nt' = nt
         \/ \E m \in Nbrs(n) : OtherEnd(n, c) = m /\ nt' = [nt EXCEPT ![n][m] = d],
         listener' = listener
  PROVE  EntryIsToNeighbor(n)' /\ FreedIsClosed(n)'
<1>1. \A m \in Nbrs(n) : nt[n][m] # d
  BY NewFdIsInNoEntry
<1>2. file'[n][d] = c /\ c # Free /\ \A e \in Fds \ {d} : file'[n][e] = file[n][e]
  BY FreeIsNoConn DEF TypeOK
<1> SUFFICES ASSUME NEW m \in Nbrs(n)
             PROVE  /\ ~NoConn(n, nt[n][m])' => OtherEnd(n, file[n][nt[n][m]])' = m
                    /\ (nt[n][m] # None /\ file[n][nt[n][m]] = Free => listener[n][m] = "closed")'
  BY DEF EntryIsToNeighbor, FreedIsClosed
<1>3. m \in Nodes /\ nt[n][m] \in Fds \cup {None}
  BY NbrFacts DEF TypeOK
<1>4. CASE nt'[n][m] = nt[n][m]
  <2>1. nt[n][m] # None => file'[n][nt[n][m]] = file[n][nt[n][m]]
    BY <1>1, <1>2, <1>3
  <2>2. /\ ~NoConn(n, nt[n][m]) => OtherEnd(n, file[n][nt[n][m]]) = m
        /\ nt[n][m] # None /\ file[n][nt[n][m]] = Free => listener[n][m] = "closed"
    BY DEF Sound, EntryIsToNeighbor, FreedIsClosed
  <2> QED BY <1>4, <2>1, <2>2 DEF NoConn, OtherEnd
<1>5. CASE nt'[n][m] # nt[n][m]
  <2>1. PICK i \in Nbrs(n) : OtherEnd(n, c) = i /\ nt' = [nt EXCEPT ![n][i] = d]
    BY <1>5
  <2>2. i = m /\ nt'[n][m] = d
    BY <1>3, <1>5, <2>1, NbrFacts DEF TypeOK
  <2> QED BY <1>2, <2>1, <2>2 DEF OtherEnd, NoConn
<1> QED BY <1>4, <1>5

LEMMA AcceptSound ==
  ASSUME CloseIsQuick, TypeOK, NEW n \in Nodes, Sound(n), Accept(n)
  PROVE  Sound(n)'
<1> DEFINE c == Head(backlog[n])
<1>1. PICK d \in Fds :
        NewFd(n, d) /\ file' = [file EXCEPT ![n][d] = c] /\ nt_addconn(n, c.from, d)
  BY DEF Accept
<1>2. c \in Conns
  BY PopType DEF Accept, TypeOK
<1>3. \A m \in Nbrs(n) : listener[n][m] # "closed"
  BY DEF Accept, Settled
<1>4. /\ main' = main /\ listener' = listener /\ network_conn' = network_conn
      /\ net' = net /\ calls' = calls
  BY DEF Accept, netVars, mnpVars
<1> HIDE DEF c
<1>5. nt' = nt \/ \E m \in Nbrs(n) : OtherEnd(n, c) = m /\ nt' = [nt EXCEPT ![n][m] = d]
  BY <1>1, NbrFacts DEF nt_addconn, OtherEnd
<1>6. file[n][d] = Free
  BY <1>1 DEF NewFd
<1>7. EntryIsToNeighbor(n)' /\ FreedIsClosed(n)'
  BY <1>1, <1>2, <1>3, <1>4, <1>5, <1>6, NewConn
<1>8. ServesMnp(n)'
  <2>1. \A e \in Fds : file[n][e] # Free => file'[n][e] = file[n][e]
    BY <1>1, <1>6 DEF TypeOK
  <2> QED BY <1>4, <2>1 DEF Sound, ServesMnp
<1> QED BY <1>4, <1>7, <1>8 DEF Sound, NotYetServing, ListensToNbrs, CallsAreFromMnp

LEMMA ConnectSound ==
  ASSUME TypeOK, NEW n \in Nodes, NEW m \in Nodes, Sound(n), ConnectNbr(n, m)
  PROVE  Sound(n)'
<1> DEFINE c == Conn(n, m, starts[n])
<1>1. PICK d \in Fds : NewFd(n, d) /\ file' = [file EXCEPT ![n][d] = c] /\ nt_addconn(n, m, d)
  BY DEF ConnectNbr
<1>2. c \in Conns /\ OtherEnd(n, c) = m
  BY ConnType DEF TypeOK, OtherEnd, Conn
<1>3. net[n] = "none" /\ \A i \in Nodes : listener[n][i] = "none"
  BY DEF ConnectNbr, Sound, NotYetServing
<1>4. main' = main /\ listener' = listener /\ net' = net /\ calls' = calls
  BY DEF ConnectNbr, netVars, mnpVars
<1> HIDE DEF c
<1>5. nt' = nt \/ \E i \in Nbrs(n) : OtherEnd(n, c) = i /\ nt' = [nt EXCEPT ![n][i] = d]
  BY <1>1, <1>2 DEF nt_addconn
<1>6. file[n][d] = Free
  BY <1>1 DEF NewFd
<1>7. \A i \in Nbrs(n) : listener[n][i] # "closed"
  BY <1>3, NbrFacts
<1>8. EntryIsToNeighbor(n)' /\ FreedIsClosed(n)'
  BY <1>1, <1>2, <1>4, <1>5, <1>6, <1>7, NewConn
<1>9. ServesMnp(n)'
  BY <1>3, <1>4 DEF ServesMnp
<1> QED BY <1>4, <1>8, <1>9 DEF Sound, NotYetServing, ListensToNbrs, CallsAreFromMnp

\* A descriptor of the MNP process is in no entry.
LEMMA MnpIsInNoEntry ==
  ASSUME TypeOK, NEW n \in Nodes, Sound(n), net[n] \in {"recv", "send"}
  PROVE  \A m \in Nbrs(n) : nt[n][m] # network_conn[n]
<1> SUFFICES ASSUME NEW m \in Nbrs(n), nt[n][m] = network_conn[n]
             PROVE  FALSE
  OBVIOUS
<1>1. ~NoConn(n, nt[n][m])
  BY DEF Sound, ServesMnp, NoConn, Fds, None
<1>2. OtherEnd(n, file[n][nt[n][m]]) = MNP
  BY NbrFacts DEF Sound, ServesMnp, OtherEnd
<1> QED BY <1>1, <1>2, NbrFacts DEF Sound, EntryIsToNeighbor

\* close(nt[i].conn): no other entry has this descriptor, nor has waitNetwork.
LEMMA HangUpSound ==
  ASSUME TypeOK, NEW n \in Nodes, NEW m \in Nodes, Sound(n), HangUp(n, m)
  PROVE  Sound(n)'
<1>1. /\ main' = main /\ nt' = nt /\ network_conn' = network_conn /\ net' = net
      /\ calls' = calls /\ listener' = [listener EXCEPT ![n][m] = "closed"]
  BY DEF HangUp, startVars, netVars, mnpVars
<1>2. main[n] = "running" /\ m \in Nbrs(n)
  BY DEF HangUp, Sound, NotYetServing, ListensToNbrs
<1>3. NotYetServing(n)' /\ ListensToNbrs(n)' /\ CallsAreFromMnp(n)'
  BY <1>1, <1>2 DEF Sound, NotYetServing, ListensToNbrs, CallsAreFromMnp, TypeOK
<1>4. /\ listener'[n][m] = "closed"
      /\ \A i \in Nbrs(n) \ {m} : listener'[n][i] = listener[n][i]
  BY <1>1, NbrFacts DEF TypeOK
<1>5. CASE NoConn(n, nt[n][m])
  <2>1. file' = file
    BY <1>5 DEF HangUp
  <2>2. EntryIsToNeighbor(n)' /\ FreedIsClosed(n)' /\ ServesMnp(n)'
    BY <1>1, <1>4, <2>1 DEF Sound, EntryIsToNeighbor, FreedIsClosed, ServesMnp, NoConn
  <2> QED BY <1>3, <2>2 DEF Sound
<1>6. CASE ~NoConn(n, nt[n][m])
  <2> DEFINE d == nt[n][m]
  <2>1. d \in Fds /\ d # None /\ file' = [file EXCEPT ![n][d] = Free]
    <3>1. nt[n][m] \in Fds \cup {None}
      BY <1>1, <1>2, NbrFacts DEF TypeOK
    <3> QED BY <1>6, <3>1 DEF HangUp, NoConn
  <2>2. file'[n][d] = Free /\ \A e \in Fds \ {d} : file'[n][e] = file[n][e]
    BY <2>1 DEF TypeOK
  <2>3. \A i \in Nbrs(n) \ {m} : nt[n][i] # d
    BY <1>2, <1>6 DEF Sound, EntryIsToNeighbor
  <2>4. net[n] \in {"recv", "send"} => network_conn[n] # d
    BY <1>2, MnpIsInNoEntry
  <2> HIDE DEF d
  <2>5. EntryIsToNeighbor(n)' /\ FreedIsClosed(n)'
    <3> SUFFICES ASSUME NEW i \in Nbrs(n)
                 PROVE  /\ ~NoConn(n, nt[n][i])' => OtherEnd(n, file[n][nt[n][i]])' = i
                        /\ (nt[n][i] # None /\ file[n][nt[n][i]] = Free => listener[n][i] = "closed")'
      BY DEF EntryIsToNeighbor, FreedIsClosed
    <3>1. CASE i = m
      BY <1>1, <1>4, <2>2, <3>1 DEF NoConn, d
    <3>2. CASE i # m
      <4>1. nt[n][i] \in Fds \cup {None} /\ nt[n][i] # d
        BY <2>3, <3>2, NbrFacts DEF TypeOK
      <4>2. /\ ~NoConn(n, nt[n][i]) => OtherEnd(n, file[n][nt[n][i]]) = i
            /\ nt[n][i] # None /\ file[n][nt[n][i]] = Free => listener[n][i] = "closed"
        BY DEF Sound, EntryIsToNeighbor, FreedIsClosed
      <4> QED BY <1>1, <1>4, <2>2, <3>2, <4>1, <4>2 DEF NoConn, OtherEnd
    <3> QED BY <3>1, <3>2
  <2>6. ServesMnp(n)'
    BY <1>1, <2>2, <2>4 DEF Sound, ServesMnp
  <2> QED BY <1>3, <2>5, <2>6 DEF Sound
<1> QED BY <1>5, <1>6

LEMMA ListenerSound ==
  ASSUME TypeOK, NEW n \in Nodes, NEW m \in Nodes, Sound(n), Listener(n, m)
  PROVE  Sound(n)'
<1>1. CASE Forward(n, m)
  BY <1>1, SoundElsewhere DEF Forward, startVars, tableVars, netVars, mnpVars
<1>2. CASE ForwardBreaks(n, m)
  BY <1>2, EndSound DEF ForwardBreaks
<1>3. CASE HangUp(n, m)
  BY <1>3, HangUpSound
<1>4. CASE Forget(n, m)
  <2>1. /\ main' = main /\ file' = file /\ network_conn' = network_conn /\ net' = net
        /\ calls' = calls
        /\ nt' = [nt EXCEPT ![n][m] = None] /\ listener' = [listener EXCEPT ![n][m] = "done"]
    BY <1>4 DEF Forget, startVars, netVars, mnpVars
  <2>2. main[n] = "running" /\ m \in Nbrs(n)
    BY <1>4 DEF Forget, Sound, NotYetServing, ListensToNbrs
  <2>3. nt'[n][m] = None /\ \A i \in Nbrs(n) \ {m} :
          nt'[n][i] = nt[n][i] /\ listener'[n][i] = listener[n][i]
    BY <2>1, NbrFacts DEF TypeOK
  <2>4. EntryIsToNeighbor(n)' /\ FreedIsClosed(n)'
    BY <2>1, <2>3 DEF Sound, EntryIsToNeighbor, FreedIsClosed, NoConn
  <2>5. NotYetServing(n)' /\ ListensToNbrs(n)'
    BY <2>1, <2>2 DEF Sound, NotYetServing, ListensToNbrs, TypeOK
  <2> QED BY <2>1, <2>4, <2>5 DEF Sound, ServesMnp, CallsAreFromMnp
<1> QED BY <1>1, <1>2, <1>3, <1>4 DEF Listener

LEMMA ThreadSound ==
  ASSUME TypeOK, NEW n \in Nodes, Sound(n),
         Listen(n) \/ StopListening(n) \/ WakeUp(n) \/ Join(n)
  PROVE  Sound(n)'
<1>1. CASE Listen(n)
  BY <1>1, SoundElsewhere DEF Listen, tableVars, netVars, mnpVars
<1>2. CASE StopListening(n)
  BY <1>2, SoundElsewhere DEF StopListening, tableVars, netVars, mnpVars
<1>3. CASE WakeUp(n)
  <2>1. /\ nt' = nt /\ listener' = listener /\ file' = file /\ network_conn' = network_conn
        /\ net' = net /\ calls' = calls
    BY <1>3 DEF WakeUp, tableVars, netVars, mnpVars
  <2>2. main[n] # "running"
    BY <1>3 DEF WakeUp
  <2> QED BY <2>1, <2>2 DEF Sound, EntryIsToNeighbor, FreedIsClosed, NotYetServing, ListensToNbrs,
                            ServesMnp, CallsAreFromMnp, NoConn
<1>4. CASE Join(n)
  <2>1. /\ nt' = nt /\ file' = file /\ network_conn' = network_conn /\ calls' = calls
        /\ main'[n] = "running" /\ net'[n] = "accept"
        /\ \A m \in Nodes : listener'[n][m] = IF m \in Nbrs(n) THEN "recv" ELSE "none"
    BY <1>4 DEF Join, mnpVars, TypeOK
  <2>2. \A m \in Nodes : listener[n][m] = "none"
    BY <1>4 DEF Join, Sound, NotYetServing
  <2>3. \A m \in Nbrs(n) : ~(nt[n][m] # None /\ file[n][nt[n][m]] = Free)
    BY <2>2, NbrFacts DEF Sound, FreedIsClosed
  <2>4. EntryIsToNeighbor(n)' /\ FreedIsClosed(n)'
    BY <2>1, <2>3 DEF Sound, EntryIsToNeighbor, FreedIsClosed, NoConn
  <2>5. NotYetServing(n)' /\ ListensToNbrs(n)' /\ ServesMnp(n)'
    BY <2>1 DEF NotYetServing, ListensToNbrs, ServesMnp
  <2> QED BY <2>1, <2>4, <2>5 DEF Sound, CallsAreFromMnp
<1> QED BY <1>1, <1>2, <1>3, <1>4

LEMMA AcceptMnpSound ==
  ASSUME CloseIsQuick, TypeOK, NEW n \in Nodes, Sound(n), AcceptMnp(n)
  PROVE  Sound(n)'
<1> DEFINE c == Head(calls[n])
<1>1. PICK d \in Fds :
        /\ NewFd(n, d) /\ file' = [file EXCEPT ![n][d] = c]
        /\ network_conn' = [network_conn EXCEPT ![n] = d]
  BY DEF AcceptMnp
<1>2. c \in Conns /\ c.from = MNP /\ calls[n] \in Seq(Conns) /\ calls[n] # <<>>
  BY PopType DEF AcceptMnp, TypeOK, Sound, CallsAreFromMnp
<1>3. \A m \in Nbrs(n) : listener[n][m] # "closed"
  BY DEF AcceptMnp, Settled
<1>4. main' = main /\ nt' = nt /\ listener' = listener /\ net'[n] = "recv" /\ main[n] = "running"
  BY DEF AcceptMnp, Sound, NotYetServing, TypeOK
<1>5. CallsAreFromMnp(n)'
  <2>1. calls'[n] = Tail(calls[n])
    BY DEF AcceptMnp, TypeOK
  <2>2. /\ Len(Tail(calls[n])) = Len(calls[n]) - 1
        /\ \A i \in 1 .. Len(calls[n]) - 1 : Tail(calls[n])[i] = calls[n][i + 1]
    BY <1>2, HeadTailProperties
  <2>3. \A i \in 1 .. Len(calls[n]) - 1 : i + 1 \in 1 .. Len(calls[n])
    BY <1>2, LenProperties
  <2> QED BY <2>1, <2>2, <2>3 DEF Sound, CallsAreFromMnp
<1> HIDE DEF c
<1>6. file[n][d] = Free
  BY <1>1 DEF NewFd
<1>7. EntryIsToNeighbor(n)' /\ FreedIsClosed(n)'
  BY <1>1, <1>2, <1>3, <1>4, <1>6, NewConn
<1>8. network_conn'[n] = d /\ file'[n][d] = c /\ c # Free
  BY <1>1, <1>2, FreeIsNoConn DEF TypeOK
<1>9. ServesMnp(n)'
  BY <1>2, <1>8 DEF ServesMnp
<1> QED BY <1>4, <1>5, <1>7, <1>9 DEF Sound, NotYetServing, ListensToNbrs

LEMMA CloseMnpSound ==
  ASSUME TypeOK, NEW n \in Nodes, Sound(n), CloseMnp(n)
  PROVE  Sound(n)'
<1> DEFINE d == network_conn[n]
<1>1. /\ main' = main /\ nt' = nt /\ listener' = listener /\ calls' = calls
      /\ net'[n] = "accept" /\ main[n] = "running" /\ net[n] = "recv"
  BY DEF CloseMnp, startVars, mnpVars, Sound, NotYetServing, TypeOK
<1>2. d \in Fds /\ file' = [file EXCEPT ![n][d] = Free]
  BY <1>1 DEF CloseMnp, Sound, ServesMnp
<1>3. \A e \in Fds \ {d} : file'[n][e] = file[n][e]
  BY <1>2 DEF TypeOK
<1>4. \A m \in Nbrs(n) : nt[n][m] # d
  BY <1>1, MnpIsInNoEntry
<1> HIDE DEF d
<1>5. EntryIsToNeighbor(n)' /\ FreedIsClosed(n)'
  <2> SUFFICES ASSUME NEW m \in Nbrs(n)
               PROVE  /\ ~NoConn(n, nt[n][m])' => OtherEnd(n, file[n][nt[n][m]])' = m
                      /\ (nt[n][m] # None /\ file[n][nt[n][m]] = Free => listener[n][m] = "closed")'
    BY DEF EntryIsToNeighbor, FreedIsClosed
  <2>1. nt[n][m] \in Fds \cup {None} /\ nt[n][m] # d
    BY <1>4, NbrFacts DEF TypeOK
  <2>2. /\ ~NoConn(n, nt[n][m]) => OtherEnd(n, file[n][nt[n][m]]) = m
        /\ nt[n][m] # None /\ file[n][nt[n][m]] = Free => listener[n][m] = "closed"
    BY DEF Sound, EntryIsToNeighbor, FreedIsClosed
  <2> QED BY <1>1, <1>3, <2>1, <2>2 DEF NoConn, OtherEnd
<1>6. NotYetServing(n)' /\ ListensToNbrs(n)' /\ ServesMnp(n)' /\ CallsAreFromMnp(n)'
  BY <1>1 DEF Sound, NotYetServing, ListensToNbrs, ServesMnp, CallsAreFromMnp
<1> QED BY <1>5, <1>6 DEF Sound

LEMMA StartMnpSound ==
  ASSUME TypeOK, NEW n \in Nodes, Sound(n), StartMnp(n)
  PROVE  Sound(n)'
<1> DEFINE c == Conn(MNP, n, mnps[n] + 1)
<1>1. c \in Conns /\ c.from = MNP
  <2>1. mnps[n] + 1 \in Nat /\ MNP \in Nodes \cup {MNP}
    BY DEF TypeOK
  <2> QED BY <2>1, ConnType DEF Conn
<1>2. /\ main' = main /\ nt' = nt /\ listener' = listener /\ file' = file
      /\ network_conn' = network_conn /\ net' = net
  BY DEF StartMnp, tableVars, netVars
<1>3. calls'[n] = Append(calls[n], c)
  BY DEF StartMnp, TypeOK
<1> HIDE DEF c
<1>4. CallsAreFromMnp(n)'
  <2>1. calls[n] \in Seq(Conns)
    BY DEF TypeOK
  <2>2. /\ Len(Append(calls[n], c)) = Len(calls[n]) + 1
        /\ \A i \in 1 .. Len(calls[n]) : Append(calls[n], c)[i] = calls[n][i]
        /\ Append(calls[n], c)[Len(calls[n]) + 1] = c
    BY <1>1, <2>1, AppendProperties
  <2>3. \A i \in 1 .. Len(calls[n]) + 1 : i \in 1 .. Len(calls[n]) \/ i = Len(calls[n]) + 1
    BY <2>1, LenProperties
  <2> QED BY <1>1, <1>3, <2>2, <2>3 DEF Sound, CallsAreFromMnp
<1> QED BY <1>2, <1>4 DEF Sound, EntryIsToNeighbor, FreedIsClosed, NotYetServing, ListensToNbrs,
                          ServesMnp, NoConn

LEMMA ServingSound ==
  ASSUME TypeOK, NEW n \in Nodes, NEW m \in Nodes, Sound(n),
         TakePacket(n) \/ SendTo(n, m) \/ EndMnp(n)
  PROVE  Sound(n)'
<1>1. CASE EndMnp(n)
  BY <1>1, SoundElsewhere DEF EndMnp, tableVars, netVars
<1>2. CASE TakePacket(n) \/ SendTo(n, m)
  <2>1. /\ main' = main /\ nt' = nt /\ listener' = listener /\ file' = file
        /\ network_conn' = network_conn /\ calls' = calls
    BY <1>2 DEF TakePacket, SendTo, tableVars, mnpVars
  <2>2. net[n] \in {"recv", "send"} /\ main[n] = "running"
    BY <1>2 DEF TakePacket, SendTo, Sound, NotYetServing
  <2> QED BY <2>1, <2>2 DEF Sound, EntryIsToNeighbor, FreedIsClosed, NotYetServing, ListensToNbrs,
                            ServesMnp, CallsAreFromMnp, NoConn
<1> QED BY <1>1, <1>2

LEMMA NextSound ==
  ASSUME CloseIsQuick, IInv, [Next]_vars, NEW k \in Nodes
  PROVE  Sound(k)'
<1>1. CASE Next
  <2>1. PICK n, m \in Nodes :
           \/ Start(n) \/ Accept(n) \/ ConnectNbr(n, m) \/ Listener(n, m)
           \/ Listen(n) \/ StopListening(n) \/ WakeUp(n) \/ Join(n)
           \/ AcceptMnp(n) \/ TakePacket(n) \/ SendTo(n, m) \/ SendBreaks(n, m) \/ CloseMnp(n)
           \/ StartMnp(n) \/ EndMnp(n)
           \/ End(n)
    BY <1>1, StepIsOf
  <2>2. TypeOK /\ Sound(n) /\ Sound(k)
    BY DEF IInv
  <2>3. CASE k = n
    <3>1. Sound(n)'
      BY <2>1, <2>2, StartSound, AcceptSound, ConnectSound, ListenerSound, ThreadSound,
         AcceptMnpSound, CloseMnpSound, StartMnpSound, ServingSound, EndSound DEF SendBreaks
    <3> QED BY <2>3, <3>1
  <2>4. CASE k # n
    <3>1. /\ main'[k] = main[k] /\ nt'[k] = nt[k] /\ listener'[k] = listener[k]
          /\ file'[k] = file[k] /\ network_conn'[k] = network_conn[k] /\ net'[k] = net[k]
          /\ calls'[k] = calls[k]
      <4>1. CASE Start(n)
        BY <2>2, <2>4, <4>1 DEF Start, nt_create, mnpVars, TypeOK
      <4>2. CASE Accept(n)
        <5>1. PICK d \in Fds, c \in Conns :
                file' = [file EXCEPT ![n][d] = c] /\ nt_addconn(n, c.from, d)
          BY <2>2, <4>2, PopType DEF Accept, TypeOK
        <5>2. file'[k] = file[k] /\ nt'[k] = nt[k]
          BY <2>2, <2>4, <5>1 DEF nt_addconn, TypeOK
        <5> QED BY <4>2, <5>2 DEF Accept, netVars, mnpVars
      <4>3. CASE ConnectNbr(n, m)
        <5>1. PICK d \in Fds :
                file' = [file EXCEPT ![n][d] = Conn(n, m, starts[n])] /\ nt_addconn(n, m, d)
          BY <4>3 DEF ConnectNbr
        <5>2. file'[k] = file[k] /\ nt'[k] = nt[k]
          BY <2>2, <2>4, <5>1 DEF nt_addconn, TypeOK
        <5> QED BY <4>3, <5>2 DEF ConnectNbr, netVars, mnpVars
      <4>4. CASE End(n) \/ SendBreaks(n, m) \/ ForwardBreaks(n, m)
        <5>1. End(n)
          BY <4>4 DEF SendBreaks, ForwardBreaks
        <5>2. main'[k] = main[k] /\ file'[k] = file[k] /\ calls'[k] = calls[k]
          BY <2>2, <2>4, <5>1 DEF End, TypeOK
        <5>3. nt'[k] = nt[k] /\ listener'[k] = listener[k] /\ net'[k] = net[k]
          BY <2>2, <2>4, <5>1 DEF End, TypeOK
        <5> QED BY <5>1, <5>2, <5>3 DEF End
      <4>5. CASE Forward(n, m)
        BY <4>5 DEF Forward, tableVars, netVars, mnpVars
      <4>6. CASE HangUp(n, m) \/ Forget(n, m)
        <5>1. CASE HangUp(n, m)
          BY <2>2, <2>4, <5>1 DEF HangUp, netVars, mnpVars, TypeOK
        <5>2. CASE Forget(n, m)
          BY <2>2, <2>4, <5>2 DEF Forget, netVars, mnpVars, TypeOK
        <5> QED BY <4>6, <5>1, <5>2
      <4>7. CASE Listen(n) \/ StopListening(n) \/ WakeUp(n) \/ Join(n)
        <5>1. CASE Listen(n) \/ StopListening(n)
          BY <5>1 DEF Listen, StopListening, tableVars, netVars, mnpVars
        <5>2. CASE WakeUp(n)
          BY <2>2, <2>4, <5>2 DEF WakeUp, tableVars, netVars, mnpVars, TypeOK
        <5>3. CASE Join(n)
          BY <2>2, <2>4, <5>3 DEF Join, mnpVars, TypeOK
        <5> QED BY <4>7, <5>1, <5>2, <5>3
      <4>8. CASE AcceptMnp(n)
        <5>1. PICK d \in Fds :
                /\ file' = [file EXCEPT ![n][d] = Head(calls[n])]
                /\ network_conn' = [network_conn EXCEPT ![n] = d]
          BY <4>8 DEF AcceptMnp
        <5>2. file'[k] = file[k] /\ network_conn'[k] = network_conn[k]
          BY <2>2, <2>4, <5>1 DEF TypeOK
        <5>3. net'[k] = net[k] /\ calls'[k] = calls[k]
          BY <2>2, <2>4, <4>8 DEF AcceptMnp, TypeOK
        <5> QED BY <4>8, <5>2, <5>3 DEF AcceptMnp
      <4>9. CASE TakePacket(n) \/ SendTo(n, m) \/ CloseMnp(n)
        <5>1. CASE TakePacket(n)
          BY <2>2, <2>4, <5>1 DEF TakePacket, tableVars, mnpVars, TypeOK
        <5>2. CASE SendTo(n, m)
          BY <2>2, <2>4, <5>2 DEF SendTo, tableVars, mnpVars, TypeOK
        <5>3. CASE CloseMnp(n)
          BY <2>2, <2>4, <5>3 DEF CloseMnp, mnpVars, TypeOK
        <5> QED BY <4>9, <5>1, <5>2, <5>3
      <4>10. CASE StartMnp(n) \/ EndMnp(n)
        <5>1. CASE StartMnp(n)
          BY <2>2, <2>4, <5>1 DEF StartMnp, tableVars, netVars, TypeOK
        <5>2. CASE EndMnp(n)
          BY <5>2 DEF EndMnp, tableVars, netVars
        <5> QED BY <4>10, <5>1, <5>2
      <4> QED BY <2>1, <4>1, <4>2, <4>3, <4>4, <4>5, <4>6, <4>7, <4>8, <4>9, <4>10 DEF Listener
    <3> QED BY <2>2, <3>1, SoundElsewhere
  <2> QED BY <2>3, <2>4
<1>2. CASE UNCHANGED vars
  BY <1>2, SoundElsewhere DEF IInv, vars, tableVars, netVars, mnpVars
<1> QED BY <1>1, <1>2

LEMMA InitSound ==
  ASSUME Init, NEW n \in Nodes
  PROVE  Sound(n)
<1>1. EntryIsToNeighbor(n) /\ FreedIsClosed(n)
  BY NbrFacts DEF Init, EntryIsToNeighbor, FreedIsClosed, NoConn
<1>2. NotYetServing(n) /\ ListensToNbrs(n) /\ ServesMnp(n)
  BY DEF Init, NotYetServing, ListensToNbrs, ServesMnp
<1>3. CallsAreFromMnp(n)
  BY EmptySeq DEF Init, CallsAreFromMnp
<1> QED BY <1>1, <1>2, <1>3 DEF Sound

\* A packet is never written to another process than the neighbor's it is for,
\* however descriptors are used again after a neighbor, the MNP process or the
\* process itself has ended, if no connection is accepted between
\* close(nt[i].conn) and nt[i].conn = -1 (overlay.c 224-225).
THEOREM EntriesLeadToNeighbors == CloseIsQuick => (Spec => []ConnIsToNeighbor)
<1> SUFFICES ASSUME CloseIsQuick
             PROVE  Spec => []ConnIsToNeighbor
  OBVIOUS
<1>1. Init => IInv
  BY InitType, InitSound DEF IInv
<1>2. IInv /\ [Next]_vars => IInv'
  BY NextType, NextSound DEF IInv
<1>3. IInv => ConnIsToNeighbor
  BY DEF IInv, Sound, EntryIsToNeighbor, ConnIsToNeighbor
<1> QED BY <1>1, <1>2, <1>3, PTL DEF Spec

(* Start-up: at Join every neighbor has an entry, if the processes that     *)
(* connect to others start once.  The inductive invariant, for a node n.    *)

Starting(n) == main[n] \in {"sleep", "connect"}

\* The bigger neighbors waitNbrs has accepted.
Entered(n) == {m \in Bigger(n) : nt[n][m] # None}

\* The process of m has connected to n, or never will.
Past(m, n) ==
  main[m] \in {"running", "ended"} \/ (main[m] = "connect" /\ n \notin todo[m])

StartsAreCounted(n) == starts[n] <= MaxStarts[n] /\ (main[n] # "off" => starts[n] > 0)

\* connectNbrs has an entry for each neighbor it is done with.
SmallerAreEntered(n) ==
  /\ todo[n] \subseteq Smaller(n)
  /\ main[n] = "connect" => \A m \in Smaller(n) \ todo[n] : nt[n][m] # None

\* big_nbr is the number of bigger neighbors without an entry.
WaitsForTheRest(n) ==
  Starting(n) =>
    /\ big_nbr[n] + Cardinality(Entered(n)) = Cardinality(Bigger(n))
    /\ waiting[n] = "done" => big_nbr[n] = 0

Callers(q) == {q[i].from : i \in 1 .. Len(q)}
CallsOnce(q) == \A i, j \in 1 .. Len(q) : q[i].from = q[j].from => i = j

\* Who waits in the backlog will not come again and is not in the table.
BacklogIsNew(n) ==
  /\ CallsOnce(backlog[n])
  /\ \A m \in Callers(backlog[n]) :
       m \in Bigger(n) /\ Past(m, n) /\ (Starting(n) => nt[n][m] = None)

EnteredArePast(n) == Starting(n) => \A m \in Entered(n) : Past(m, n)

Joins(n) ==
  /\ StartsAreCounted(n) /\ SmallerAreEntered(n) /\ WaitsForTheRest(n)
  /\ BacklogIsNew(n) /\ EnteredArePast(n)

JoinInv == TypeOK /\ \A n \in Nodes : NotYetServing(n) /\ Joins(n)

\* A process that connects to a neighbor is not started again.
ConnectsOnce == \A n \in Nodes : Smaller(n) # {} => MaxStarts[n] <= 1

startUpVars == <<main, starts, big_nbr, waiting, backlog, todo, nt, listener>>

\* The steps that change what the start-up is about.
StartUpStep(n, m) ==
  \/ Start(n) \/ Accept(n) \/ ConnectNbr(n, m) \/ Listen(n) \/ StopListening(n) \/ WakeUp(n)
  \/ Join(n) \/ HangUp(n, m) \/ Forget(n, m) \/ (main[n] # "off" /\ End(n))

LEMMA StartUpStepIsOf ==
  ASSUME [Next]_vars, \A n \in Nodes : NotYetServing(n)
  PROVE  UNCHANGED startUpVars \/ \E n, m \in Nodes : StartUpStep(n, m)
<1>1. CASE Next
  <2>1. PICK n \in Nodes :
          \/ Start(n) \/ Waiter(n) \/ Main(n) \/ Network(n) \/ TakePacket(n)
          \/ \E m \in Nodes : Listener(n, m)
          \/ overlay_stop(n) \/ StartMnp(n) \/ EndMnp(n)
    BY <1>1 DEF Next
  <2>2. CASE Start(n) \/ Waiter(n) \/ overlay_stop(n)
    BY <2>2 DEF Waiter, overlay_stop, StartUpStep
  <2>3. CASE Main(n)
    BY <2>3 DEF Main, Refused, StartUpStep
  <2>4. CASE Network(n)
    <3>1. PICK m \in Nodes : AcceptMnp(n) \/ CloseMnp(n) \/ SendTo(n, m) \/ SendBreaks(n, m)
      BY <2>4 DEF Network
    <3>2. CASE SendBreaks(n, m)
      <4>1. main[n] = "running"
        BY <3>2 DEF SendBreaks, NotYetServing
      <4> QED BY <3>2, <4>1 DEF SendBreaks, StartUpStep
    <3>3. CASE AcceptMnp(n) \/ CloseMnp(n) \/ SendTo(n, m)
      BY <3>3 DEF AcceptMnp, CloseMnp, SendTo, startUpVars, startVars, tableVars
    <3> QED BY <3>1, <3>2, <3>3
  <2>5. CASE \E m \in Nodes : Listener(n, m)
    <3>1. PICK m \in Nodes : Listener(n, m)
      BY <2>5
    <3>2. CASE ForwardBreaks(n, m)
      <4>1. main[n] = "running"
        BY <3>2 DEF ForwardBreaks, NotYetServing
      <4> QED BY <3>2, <4>1 DEF ForwardBreaks, StartUpStep
    <3>3. CASE Forward(n, m)
      BY <3>3 DEF Forward, startUpVars, startVars, tableVars
    <3> QED BY <3>1, <3>2, <3>3 DEF Listener, StartUpStep
  <2>6. CASE TakePacket(n) \/ StartMnp(n) \/ EndMnp(n)
    BY <2>6 DEF TakePacket, StartMnp, EndMnp, startUpVars, startVars, tableVars
  <2> QED BY <2>1, <2>2, <2>3, <2>4, <2>5, <2>6
<1>2. CASE UNCHANGED vars
  BY <1>2 DEF vars, startUpVars, startVars, tableVars
<1> QED BY <1>1, <1>2

\* Only a running process has listeners and serves an MNP process, whether or
\* not connections are accepted between a close and its store.
LEMMA NextNotYetServing ==
  ASSUME TypeOK, \A n \in Nodes : NotYetServing(n), [Next]_vars, NEW k \in Nodes
  PROVE  NotYetServing(k)'
<1>1. CASE Next
  <2>1. PICK n, m \in Nodes :
           \/ Start(n) \/ Accept(n) \/ ConnectNbr(n, m) \/ Listener(n, m)
           \/ Listen(n) \/ StopListening(n) \/ WakeUp(n) \/ Join(n)
           \/ AcceptMnp(n) \/ TakePacket(n) \/ SendTo(n, m) \/ SendBreaks(n, m) \/ CloseMnp(n)
           \/ StartMnp(n) \/ EndMnp(n)
           \/ End(n)
    BY <1>1, StepIsOf
  <2>2. NotYetServing(n) /\ NotYetServing(k)
    OBVIOUS
  <2>3. CASE Start(n) \/ WakeUp(n) \/ Join(n)
    <3>1. CASE Start(n)
      BY <2>2, <3>1 DEF Start, NotYetServing, TypeOK
    <3>2. CASE WakeUp(n)
      BY <2>2, <3>2 DEF WakeUp, tableVars, netVars, NotYetServing, TypeOK
    <3>3. CASE Join(n)
      BY <2>2, <3>3 DEF Join, NotYetServing, TypeOK
    <3> QED BY <2>3, <3>1, <3>2, <3>3
  <2>4. CASE Accept(n) \/ ConnectNbr(n, m) \/ Listen(n) \/ StopListening(n)
    BY <2>2, <2>4 DEF Accept, ConnectNbr, Listen, StopListening, tableVars, netVars, NotYetServing
  <2>5. CASE End(n) \/ SendBreaks(n, m) \/ ForwardBreaks(n, m)
    <3>1. End(n)
      BY <2>5 DEF SendBreaks, ForwardBreaks
    <3>2. \A i \in Nodes : net'[n] = "none" /\ listener'[n][i] = "none"
      BY <3>1 DEF End, TypeOK
    <3>3. k # n => main'[k] = main[k] /\ net'[k] = net[k] /\ listener'[k] = listener[k]
      BY <3>1 DEF End, TypeOK
    <3> QED BY <2>2, <3>2, <3>3 DEF NotYetServing
  <2>6. CASE Forward(n, m) \/ StartMnp(n) \/ EndMnp(n)
    BY <2>2, <2>6 DEF Forward, StartMnp, EndMnp, tableVars, netVars, NotYetServing
  <2>7. CASE HangUp(n, m) \/ Forget(n, m)
    <3>1. main[n] = "running" /\ main' = main /\ net' = net
      BY <2>2, <2>7 DEF HangUp, Forget, netVars, NotYetServing
    <3>2. k # n => listener'[k] = listener[k]
      BY <2>7 DEF HangUp, Forget, TypeOK
    <3> QED BY <2>2, <3>1, <3>2 DEF NotYetServing
  <2>8. CASE AcceptMnp(n) \/ TakePacket(n) \/ SendTo(n, m) \/ CloseMnp(n)
    <3>1. main[n] = "running" /\ main' = main /\ listener' = listener
      BY <2>2, <2>8 DEF AcceptMnp, TakePacket, SendTo, CloseMnp, tableVars, NotYetServing
    <3>2. k # n => net'[k] = net[k]
      <4>1. \E x : net' = [net EXCEPT ![n] = x]
        BY <2>8 DEF AcceptMnp, TakePacket, SendTo, CloseMnp
      <4> QED BY <4>1 DEF TypeOK
    <3> QED BY <2>2, <3>1, <3>2 DEF NotYetServing
  <2> QED BY <2>1, <2>3, <2>4, <2>5, <2>6, <2>7, <2>8 DEF Listener
<1>2. CASE UNCHANGED vars
  BY <1>2 DEF vars, tableVars, netVars, NotYetServing
<1> QED BY <1>1, <1>2

LEMMA SizesAreKnown ==
  ASSUME TypeOK, NEW n \in Nodes
  PROVE  /\ IsFiniteSet(Entered(n)) /\ IsFiniteSet(Bigger(n))
         /\ Cardinality(Entered(n)) \in Nat /\ Cardinality(Bigger(n)) \in Nat
<1>1. Bigger(n) \subseteq Nodes /\ Entered(n) \subseteq Bigger(n)
  BY DEF Bigger, Nbrs, Entered
<1>2. IsFiniteSet(Bigger(n))
  BY <1>1, OverlayAssumption, FS_Subset
<1>3. IsFiniteSet(Entered(n))
  BY <1>1, <1>2, FS_Subset
<1> QED BY <1>2, <1>3, FS_CardinalityType

LEMMA BothSides ==
  ASSUME NEW n \in Nodes, NEW m \in Nodes
  PROVE  /\ m \in Bigger(n) <=> n \in Smaller(m)
         /\ m \in Bigger(n) => m \in Nbrs(n) /\ m \notin Smaller(n)
         /\ m \in Smaller(n) => m \in Nbrs(n) /\ m \notin Bigger(n)
<1>1. n \in Nat /\ m \in Nat
  BY OverlayAssumption
<1>2. {n, m} = {m, n}
  OBVIOUS
<1> QED BY <1>1, <1>2 DEF Bigger, Smaller, Nbrs

\* A connection leaves the backlog ...
LEMMA PopCaller ==
  ASSUME NEW q \in Seq(Conns), q # <<>>, CallsOnce(q)
  PROVE  /\ CallsOnce(Tail(q)) /\ Head(q).from \in Callers(q)
         /\ Callers(Tail(q)) \subseteq Callers(q) \ {Head(q).from}
<1>1. /\ Len(q) \in Nat /\ Len(q) > 0 /\ Head(q) = q[1] /\ Len(Tail(q)) = Len(q) - 1
      /\ \A i \in 1 .. Len(Tail(q)) : Tail(q)[i] = q[i + 1]
  BY HeadTailProperties, EmptySeq, LenProperties
<1>2. CallsOnce(Tail(q))
  <2> SUFFICES ASSUME NEW i \in 1 .. Len(Tail(q)), NEW j \in 1 .. Len(Tail(q)),
                      Tail(q)[i].from = Tail(q)[j].from
               PROVE  i = j
    BY DEF CallsOnce
  <2>1. i + 1 \in 1 .. Len(q) /\ j + 1 \in 1 .. Len(q) /\ q[i + 1].from = q[j + 1].from
    BY <1>1
  <2>2. i + 1 = j + 1
    BY <2>1 DEF CallsOnce
  <2> QED BY <1>1, <2>2
<1>3. Head(q).from \in Callers(q)
  BY <1>1 DEF Callers
<1>4. ASSUME NEW i \in 1 .. Len(Tail(q))
      PROVE  Tail(q)[i].from \in Callers(q) \ {Head(q).from}
  <2>1. i + 1 \in 1 .. Len(q) /\ 1 \in 1 .. Len(q) /\ i + 1 # 1
    BY <1>1
  <2>2. q[i + 1].from # q[1].from
    BY <2>1 DEF CallsOnce
  <2> QED BY <1>1, <2>1, <2>2 DEF Callers
<1> QED BY <1>2, <1>3, <1>4 DEF Callers

\* ... or enters it.
LEMMA PushCaller ==
  ASSUME NEW q \in Seq(Conns), NEW c \in Conns, CallsOnce(q), c.from \notin Callers(q)
  PROVE  CallsOnce(Append(q, c)) /\ Callers(Append(q, c)) \subseteq Callers(q) \cup {c.from}
<1>1. /\ Len(q) \in Nat /\ Len(Append(q, c)) = Len(q) + 1 /\ Append(q, c)[Len(q) + 1] = c
      /\ \A i \in 1 .. Len(q) : Append(q, c)[i] = q[i]
  BY AppendProperties, LenProperties
<1>2. \A i \in 1 .. Len(q) : q[i].from # c.from
  BY DEF Callers
<1>3. ASSUME NEW i \in 1 .. Len(Append(q, c)), NEW j \in 1 .. Len(Append(q, c)),
             Append(q, c)[i].from = Append(q, c)[j].from
      PROVE  i = j
  <2>1. (i \in 1 .. Len(q) \/ i = Len(q) + 1) /\ (j \in 1 .. Len(q) \/ j = Len(q) + 1)
    BY <1>1
  <2> QED BY <1>1, <1>2, <1>3, <2>1 DEF CallsOnce
<1>4. ASSUME NEW i \in 1 .. Len(Append(q, c))
      PROVE  Append(q, c)[i].from \in Callers(q) \cup {c.from}
  <2>1. i \in 1 .. Len(q) \/ i = Len(q) + 1
    BY <1>1
  <2> QED BY <1>1, <2>1 DEF Callers
<1> QED BY <1>3, <1>4 DEF CallsOnce, Callers

\* A process that connects to others starts only while it is "off".
LEMMA StartIsFirst ==
  ASSUME ConnectsOnce, TypeOK, NEW n \in Nodes, StartsAreCounted(n), Start(n), Smaller(n) # {}
  PROVE  main[n] = "off"
<1>1. starts[n] \in Nat /\ MaxStarts[n] \in Nat /\ MaxStarts[n] <= 1 /\ starts[n] < MaxStarts[n]
  BY OverlayAssumption DEF TypeOK, Start, ConnectsOnce
<1> QED BY <1>1 DEF StartsAreCounted, Start

\* Who has connected to a neighbor, or never will, stays so.
LEMMA PastStays ==
  ASSUME ConnectsOnce, JoinInv, NEW n \in Nodes, NEW m \in Nodes, StartUpStep(n, m),
         NEW k \in Nodes, NEW j \in Bigger(k), Past(j, k)
  PROVE  Past(j, k)'
<1>1. j \in Nodes /\ k \in Smaller(j)
  BY BothSides DEF Bigger, Nbrs
<1>2. TypeOK /\ Joins(n)
  BY DEF JoinInv
<1>3. CASE Start(n)
  <2>1. CASE j = n
    <3>1. main[n] = "off"
      BY <1>1, <1>2, <1>3, <2>1, StartIsFirst DEF Joins
    <3> QED BY <2>1, <3>1 DEF Past
  <2>2. CASE j # n
    BY <1>1, <1>2, <1>3, <2>2 DEF Start, Past, TypeOK
  <2> QED BY <2>1, <2>2
<1>4. CASE Accept(n) \/ Listen(n) \/ StopListening(n) \/ HangUp(n, m) \/ Forget(n, m)
  BY <1>4 DEF Accept, Listen, StopListening, HangUp, Forget, startVars, Past
<1>5. CASE ConnectNbr(n, m)
  BY <1>1, <1>2, <1>5 DEF ConnectNbr, Past, TypeOK
<1>6. CASE WakeUp(n)
  BY <1>1, <1>2, <1>6 DEF WakeUp, Past, TypeOK
<1>7. CASE Join(n)
  BY <1>1, <1>2, <1>7 DEF Join, startVars, Past, TypeOK
<1>8. CASE End(n)
  BY <1>1, <1>2, <1>8 DEF End, Past, TypeOK
<1> QED BY <1>3, <1>4, <1>5, <1>6, <1>7, <1>8 DEF StartUpStep

\* A step that leaves a node's part of the start-up alone.
LEMMA JoinsElsewhere ==
  ASSUME NEW k \in Nodes, Joins(k), \A j \in Bigger(k) : Past(j, k) => Past(j, k)',
         main'[k] = main[k], starts'[k] = starts[k], big_nbr'[k] = big_nbr[k],
         waiting'[k] = waiting[k], backlog'[k] = backlog[k], todo'[k] = todo[k],
         nt'[k] = nt[k], listener'[k] = listener[k]
  PROVE  Joins(k)'
<1>1. Entered(k)' = Entered(k) /\ (Starting(k)' <=> Starting(k))
  BY DEF Entered, Starting
<1>2. StartsAreCounted(k)' /\ SmallerAreEntered(k)' /\ WaitsForTheRest(k)'
  BY <1>1 DEF Joins, StartsAreCounted, SmallerAreEntered, WaitsForTheRest
<1>3. BacklogIsNew(k)'
  BY <1>1 DEF Joins, BacklogIsNew, CallsOnce, Callers
<1>4. EnteredArePast(k)'
  BY <1>1 DEF Joins, EnteredArePast, Entered
<1> QED BY <1>2, <1>3, <1>4 DEF Joins

LEMMA StartJoins ==
  ASSUME ConnectsOnce, JoinInv, NEW n \in Nodes, Start(n)
  PROVE  Joins(n)'
<1>1. TypeOK /\ Joins(n)
  BY DEF JoinInv
<1>2. /\ main'[n] = "sleep" /\ starts'[n] = starts[n] + 1 /\ starts[n] < MaxStarts[n]
      /\ big_nbr'[n] = Cardinality(Bigger(n)) /\ waiting'[n] = "start" /\ backlog' = backlog
      /\ todo' = todo /\ listener' = listener /\ nt'[n] = [m \in Nodes |-> None]
  BY <1>1 DEF Start, nt_create, TypeOK
<1>3. starts[n] \in Nat /\ MaxStarts[n] \in Nat
  BY <1>1, OverlayAssumption DEF TypeOK
<1>4. StartsAreCounted(n)' /\ SmallerAreEntered(n)'
  BY <1>1, <1>2, <1>3 DEF Joins, StartsAreCounted, SmallerAreEntered, Start
<1>5. Entered(n)' = {}
  <2> SUFFICES ASSUME NEW m \in Bigger(n) PROVE nt'[n][m] = None
    BY DEF Entered
  <2> QED BY <1>2 DEF Bigger, Nbrs
<1>6. EnteredArePast(n)'
  BY <1>5 DEF EnteredArePast
<1>7. Cardinality(Entered(n)') = 0 /\ Cardinality(Bigger(n)) \in Nat
  BY <1>1, <1>5, FS_EmptySet, SizesAreKnown
<1>8. WaitsForTheRest(n)'
  BY <1>2, <1>7 DEF WaitsForTheRest, Entered
<1>9. BacklogIsNew(n)'
  <2>1. CallsOnce(backlog[n]) /\ \A m \in Callers(backlog[n]) : m \in Bigger(n) /\ Past(m, n)
    BY <1>1 DEF Joins, BacklogIsNew
  <2>2. \A m \in Callers(backlog[n]) : Past(m, n)'
    BY <2>1, PastStays DEF StartUpStep
  <2>3. \A m \in Callers(backlog[n]) : nt'[n][m] = None
    BY <1>2, <2>1 DEF Bigger, Nbrs
  <2> QED BY <1>2, <2>1, <2>2, <2>3 DEF BacklogIsNew, CallsOnce, Callers
<1> QED BY <1>4, <1>6, <1>8, <1>9 DEF Joins

LEMMA EndJoins ==
  ASSUME JoinInv, NEW n \in Nodes, main[n] # "off", End(n)
  PROVE  Joins(n)'
<1>1. TypeOK /\ Joins(n)
  BY DEF JoinInv
<1>2. /\ main'[n] = "ended" /\ starts'[n] = starts[n] /\ backlog'[n] = <<>> /\ todo'[n] = {}
      /\ listener'[n] = [m \in Nodes |-> "none"]
  BY <1>1 DEF End, TypeOK
<1>3. StartsAreCounted(n)' /\ SmallerAreEntered(n)'
  BY <1>1, <1>2 DEF Joins, StartsAreCounted, SmallerAreEntered
<1>4. WaitsForTheRest(n)' /\ EnteredArePast(n)'
  BY <1>2 DEF WaitsForTheRest, EnteredArePast, Starting
<1>5. BacklogIsNew(n)'
  <2>1. Len(backlog'[n]) = 0
    BY <1>2, EmptySeq
  <2> QED BY <2>1 DEF BacklogIsNew, CallsOnce, Callers
<1> QED BY <1>3, <1>4, <1>5 DEF Joins

LEMMA AcceptJoins ==
  ASSUME ConnectsOnce, JoinInv, NEW n \in Nodes, Accept(n)
  PROVE  Joins(n)'
<1>1. TypeOK /\ Joins(n)
  BY DEF JoinInv
<1> DEFINE q == backlog[n]
           m == Head(q).from
<1>2. q \in Seq(Conns) /\ q # <<>> /\ CallsOnce(q)
  BY <1>1 DEF TypeOK, Accept, Joins, BacklogIsNew
<1>3. /\ m \in Callers(q) /\ CallsOnce(Tail(q)) /\ Callers(Tail(q)) \subseteq Callers(q) \ {m}
  BY <1>2, PopCaller
<1>4. m \in Bigger(n) /\ m \in Nbrs(n) /\ m \in Nodes /\ m \notin Smaller(n) /\ Past(m, n)
      /\ (Starting(n) => nt[n][m] = None)
  BY <1>1, <1>3, BothSides DEF Joins, BacklogIsNew, Bigger, Nbrs
<1>5. PICK d \in Fds : nt_addconn(n, m, d)
  BY DEF Accept
<1>6. /\ main' = main /\ starts' = starts /\ todo' = todo /\ waiting' = waiting
      /\ big_nbr'[n] = big_nbr[n] - 1 /\ backlog'[n] = Tail(q)
  BY <1>1, <1>4 DEF Accept, TypeOK
<1>7. nt'[n] = [nt[n] EXCEPT ![m] = d] /\ d # None
  <2>1. nt' = [nt EXCEPT ![n][m] = d]
    BY <1>4, <1>5 DEF nt_addconn
  <2>2. d # None
    BY OverlayAssumption DEF Fds, None
  <2> QED BY <1>1, <2>1, <2>2 DEF TypeOK
<1>8. StartsAreCounted(n)'
  BY <1>1, <1>6, <1>7 DEF Joins, StartsAreCounted
<1>9. SmallerAreEntered(n)'
  <2>1. \A j \in Smaller(n) : nt'[n][j] = nt[n][j]
    BY <1>1, <1>4, <1>7 DEF Smaller, Nbrs, TypeOK
  <2> QED BY <1>1, <1>6, <2>1 DEF Joins, SmallerAreEntered
<1>10. nt[n] \in [Nodes -> Fds \cup {None}] /\ big_nbr[n] \in Nat /\ Bigger(n) \subseteq Nodes
  BY <1>1 DEF TypeOK, Bigger, Nbrs
<1>11. Entered(n)' = Entered(n) \cup {m}
  BY <1>4, <1>6, <1>7, <1>10 DEF Entered
<1>12. WaitsForTheRest(n)'
  <2> SUFFICES ASSUME Starting(n) PROVE WaitsForTheRest(n)'
    BY <1>6, <1>7 DEF WaitsForTheRest, Starting
  <2>1. m \notin Entered(n)
    BY <1>4 DEF Entered
  <2>2. Cardinality(Entered(n)') = Cardinality(Entered(n)) + 1
    BY <1>1, <1>11, <2>1, SizesAreKnown, FS_AddElement
  <2>3. big_nbr[n] + Cardinality(Entered(n)) = Cardinality(Bigger(n))
    BY <1>1 DEF Joins, WaitsForTheRest
  <2>4. Cardinality(Entered(n)) \in Nat /\ Cardinality(Bigger(n)) \in Nat
    BY <1>1, SizesAreKnown
  <2>5. big_nbr'[n] + Cardinality(Entered(n)') = Cardinality(Bigger(n))
    BY <1>6, <1>7, <1>10, <2>2, <2>3, <2>4
  <2>6. waiting'[n] # "done"
    BY <1>6, <1>7 DEF Accept
  <2> QED BY <2>5, <2>6 DEF WaitsForTheRest, Entered
<1>13. \A j \in Nodes : Past(j, n)' <=> Past(j, n)
  BY <1>6, <1>7 DEF Past
<1>14. BacklogIsNew(n)'
  <2>1. ASSUME NEW j \in Callers(Tail(q))
        PROVE  j \in Bigger(n) /\ Past(j, n)' /\ (Starting(n)' => nt'[n][j] = None)
    <3>1. j \in Callers(q) /\ j # m
      BY <1>3
    <3>2. j \in Bigger(n) /\ Past(j, n) /\ (Starting(n) => nt[n][j] = None)
      BY <1>1, <3>1 DEF Joins, BacklogIsNew
    <3> QED BY <1>6, <1>7, <1>10, <1>13, <3>1, <3>2 DEF Starting
  <2>2. CallsOnce(backlog[n])' /\ Callers(backlog[n])' = Callers(Tail(q))
    <3>1. backlog'[n] = Tail(q)
      BY <1>6
    <3> HIDE DEF q
    <3>2. CallsOnce(backlog'[n]) /\ Callers(backlog'[n]) = Callers(Tail(q))
      BY <1>3, <3>1
    <3> QED BY <3>2 DEF CallsOnce, Callers
  <2> QED BY <2>1, <2>2 DEF BacklogIsNew
<1>15. EnteredArePast(n)'
  <2>1. Starting(n)' => \A j \in Entered(n)' : j \in Nodes /\ Past(j, n)
    BY <1>1, <1>4, <1>6, <1>7, <1>10, <1>11 DEF Joins, EnteredArePast, Entered, Starting
  <2> QED BY <1>13, <2>1 DEF EnteredArePast, Entered
<1> QED BY <1>8, <1>9, <1>12, <1>14, <1>15 DEF Joins

LEMMA ConnectJoins ==
  ASSUME ConnectsOnce, JoinInv, NEW n \in Nodes, NEW m \in Nodes, ConnectNbr(n, m)
  PROVE  Joins(n)'
<1>1. TypeOK /\ Joins(n)
  BY DEF JoinInv
<1>2. main[n] = "connect" /\ m \in todo[n] /\ m \in Smaller(n) /\ m \in Nbrs(n) /\ m \notin Bigger(n)
  BY <1>1, BothSides DEF ConnectNbr, Joins, SmallerAreEntered
<1>3. PICK d \in Fds : nt_addconn(n, m, d)
  BY DEF ConnectNbr
<1>4. m # n
  BY <1>2 DEF Nbrs
<1>5. /\ main' = main /\ starts' = starts /\ waiting' = waiting /\ big_nbr' = big_nbr
      /\ backlog'[n] = backlog[n] /\ todo'[n] = todo[n] \ {m}
      /\ nt' = [nt EXCEPT ![n][m] = d]
  BY <1>1, <1>2, <1>3, <1>4 DEF ConnectNbr, nt_addconn, TypeOK
<1>6. nt'[n] = [nt[n] EXCEPT ![m] = d] /\ d # None
  BY <1>1, <1>5, OverlayAssumption DEF TypeOK, Fds, None
<1>7. nt[n] \in [Nodes -> Fds \cup {None}] /\ Bigger(n) \subseteq Nodes /\ Smaller(n) \subseteq Nodes
  BY <1>1 DEF TypeOK, Bigger, Smaller, Nbrs
<1>8. \A j \in Bigger(n) : nt'[n][j] = nt[n][j]
  BY <1>2, <1>5, <1>6, <1>7
<1>9. Entered(n)' = Entered(n)
  BY <1>8 DEF Entered
<1>10. StartsAreCounted(n)' /\ WaitsForTheRest(n)'
  BY <1>1, <1>5, <1>6, <1>9 DEF Joins, StartsAreCounted, WaitsForTheRest, Starting
<1>11. SmallerAreEntered(n)'
  <2>1. todo'[n] \subseteq Smaller(n)
    BY <1>1, <1>5, <1>6 DEF Joins, SmallerAreEntered
  <2>2. ASSUME NEW j \in Smaller(n) \ todo'[n]
        PROVE  nt'[n][j] # None
    BY <1>1, <1>2, <1>5, <1>6, <1>7, <2>2 DEF Joins, SmallerAreEntered
  <2> QED BY <2>1, <2>2 DEF SmallerAreEntered
<1>12. \A j \in Bigger(n) : Past(j, n) => Past(j, n)'
  BY PastStays DEF StartUpStep
<1>13. BacklogIsNew(n)'
  BY <1>1, <1>5, <1>6, <1>8, <1>12 DEF Joins, BacklogIsNew, CallsOnce, Callers, Starting
<1>14. EnteredArePast(n)'
  BY <1>1, <1>5, <1>6, <1>9, <1>12 DEF Joins, EnteredArePast, Entered, Starting
<1> QED BY <1>10, <1>11, <1>13, <1>14 DEF Joins

\* The neighbor that is connected to has one more caller.
LEMMA ConnectJoinsThere ==
  ASSUME ConnectsOnce, JoinInv, NEW n \in Nodes, NEW m \in Nodes, ConnectNbr(n, m)
  PROVE  Joins(m)'
<1>1. TypeOK /\ Joins(n) /\ Joins(m)
  BY DEF JoinInv
<1>2. main[n] = "connect" /\ m \in todo[n] /\ m \in Smaller(n) /\ n \in Bigger(m) /\ m \in Nbrs(n)
  BY <1>1, BothSides DEF ConnectNbr, Joins, SmallerAreEntered
<1>3. PICK d \in Fds : nt_addconn(n, m, d)
  BY DEF ConnectNbr
<1>4. m # n
  BY <1>2 DEF Nbrs
<1> DEFINE c == Conn(n, m, starts[n])
           q == backlog[m]
<1>5. c \in Conns /\ c.from = n
  BY <1>1, ConnType DEF TypeOK, Conn
<1>6. /\ main' = main /\ starts' = starts /\ waiting' = waiting /\ big_nbr' = big_nbr
      /\ backlog'[m] = Append(q, c) /\ todo'[m] = todo[m] /\ nt'[m] = nt[m]
      /\ todo'[n] = todo[n] \ {m} /\ listener' = listener
  BY <1>1, <1>2, <1>3, <1>4 DEF ConnectNbr, nt_addconn, TypeOK
<1>7. ~Past(n, m) /\ Past(n, m)'
  BY <1>2, <1>6 DEF Past
<1>8. n \notin Callers(q)
  BY <1>1, <1>7 DEF Joins, BacklogIsNew
<1>9. Starting(m) => nt[m][n] = None
  BY <1>1, <1>2, <1>7 DEF Joins, EnteredArePast, Entered
<1>10. \A j \in Bigger(m) : Past(j, m) => Past(j, m)'
  BY PastStays DEF StartUpStep
<1>11. Entered(m)' = Entered(m) /\ (Starting(m)' <=> Starting(m))
  BY <1>6 DEF Entered, Starting
<1>12. StartsAreCounted(m)' /\ SmallerAreEntered(m)' /\ WaitsForTheRest(m)'
  BY <1>1, <1>6, <1>11 DEF Joins, StartsAreCounted, SmallerAreEntered, WaitsForTheRest
<1>13. BacklogIsNew(m)'
  <2>1. q \in Seq(Conns) /\ CallsOnce(q)
    BY <1>1 DEF TypeOK, Joins, BacklogIsNew
  <2>2. CallsOnce(Append(q, c)) /\ Callers(Append(q, c)) \subseteq Callers(q) \cup {n}
    BY <1>5, <1>8, <2>1, PushCaller
  <2>3. ASSUME NEW j \in Callers(Append(q, c))
        PROVE  j \in Bigger(m) /\ Past(j, m)' /\ (Starting(m)' => nt'[m][j] = None)
    <3>1. CASE j = n
      BY <1>2, <1>6, <1>7, <1>9, <1>11, <3>1
    <3>2. CASE j # n
      <4>1. j \in Bigger(m) /\ Past(j, m) /\ (Starting(m) => nt[m][j] = None)
        BY <1>1, <2>2, <3>2 DEF Joins, BacklogIsNew
      <4> QED BY <1>6, <1>10, <1>11, <4>1
    <3> QED BY <3>1, <3>2
  <2> QED BY <1>6, <2>2, <2>3 DEF BacklogIsNew, CallsOnce, Callers
<1>14. EnteredArePast(m)'
  BY <1>1, <1>10, <1>11 DEF Joins, EnteredArePast, Entered
<1> QED BY <1>12, <1>13, <1>14 DEF Joins

LEMMA ThreadJoins ==
  ASSUME ConnectsOnce, JoinInv, NEW n \in Nodes,
         Listen(n) \/ StopListening(n) \/ WakeUp(n) \/ Join(n)
  PROVE  Joins(n)'
<1>1. TypeOK /\ Joins(n)
  BY DEF JoinInv
<1>2. \A j \in Bigger(n) : Past(j, n) => Past(j, n)'
  BY PastStays DEF StartUpStep
<1>3. CASE Listen(n)
  <2>1. /\ main' = main /\ starts' = starts /\ big_nbr' = big_nbr /\ backlog' = backlog
        /\ todo' = todo /\ nt' = nt /\ listener' = listener /\ waiting'[n] = "accept"
    BY <1>1, <1>3 DEF Listen, tableVars, TypeOK
  <2>2. StartsAreCounted(n)' /\ SmallerAreEntered(n)' /\ WaitsForTheRest(n)'
    BY <1>1, <2>1 DEF Joins, StartsAreCounted, SmallerAreEntered, WaitsForTheRest, Starting, Entered
  <2>3. BacklogIsNew(n)' /\ EnteredArePast(n)'
    BY <1>1, <1>2, <2>1 DEF Joins, BacklogIsNew, CallsOnce, Callers, EnteredArePast, Starting, Entered
  <2> QED BY <2>2, <2>3 DEF Joins
<1>4. CASE StopListening(n)
  <2>1. /\ main' = main /\ starts' = starts /\ big_nbr' = big_nbr /\ backlog'[n] = <<>>
        /\ todo' = todo /\ nt' = nt /\ listener' = listener /\ big_nbr[n] = 0
    BY <1>1, <1>4 DEF StopListening, tableVars, TypeOK
  <2>2. StartsAreCounted(n)' /\ SmallerAreEntered(n)' /\ WaitsForTheRest(n)'
    BY <1>1, <2>1 DEF Joins, StartsAreCounted, SmallerAreEntered, WaitsForTheRest, Starting, Entered
  <2>3. Len(backlog'[n]) = 0
    BY <2>1, EmptySeq
  <2>4. BacklogIsNew(n)'
    BY <2>3 DEF BacklogIsNew, CallsOnce, Callers
  <2>5. EnteredArePast(n)'
    BY <1>1, <1>2, <2>1 DEF Joins, EnteredArePast, Starting, Entered
  <2> QED BY <2>2, <2>4, <2>5 DEF Joins
<1>5. CASE WakeUp(n)
  <2>1. /\ main[n] = "sleep" /\ main'[n] = "connect" /\ starts' = starts /\ big_nbr' = big_nbr
        /\ backlog' = backlog /\ todo'[n] = Smaller(n) /\ nt' = nt /\ waiting' = waiting
    BY <1>1, <1>5 DEF WakeUp, tableVars, TypeOK
  <2>2. StartsAreCounted(n)' /\ SmallerAreEntered(n)' /\ WaitsForTheRest(n)'
    BY <1>1, <2>1 DEF Joins, StartsAreCounted, SmallerAreEntered, WaitsForTheRest, Starting, Entered
  <2>3. BacklogIsNew(n)' /\ EnteredArePast(n)'
    BY <1>1, <1>2, <2>1 DEF Joins, BacklogIsNew, CallsOnce, Callers, EnteredArePast, Starting, Entered
  <2> QED BY <2>2, <2>3 DEF Joins
<1>6. CASE Join(n)
  <2>1. /\ main[n] = "connect" /\ main'[n] = "running" /\ starts' = starts /\ todo' = todo
        /\ backlog' = backlog
    BY <1>1, <1>6 DEF Join, startVars, TypeOK
  <2>2. StartsAreCounted(n)' /\ SmallerAreEntered(n)' /\ WaitsForTheRest(n)'
    BY <1>1, <2>1 DEF Joins, StartsAreCounted, SmallerAreEntered, WaitsForTheRest, Starting
  <2>3. BacklogIsNew(n)' /\ EnteredArePast(n)'
    BY <1>1, <1>2, <2>1 DEF Joins, BacklogIsNew, CallsOnce, Callers, EnteredArePast, Starting
  <2> QED BY <2>2, <2>3 DEF Joins
<1> QED BY <1>3, <1>4, <1>5, <1>6

\* Only a running process closes and clears.
LEMMA ListenerJoins ==
  ASSUME ConnectsOnce, JoinInv, NEW n \in Nodes, NEW m \in Nodes, HangUp(n, m) \/ Forget(n, m)
  PROVE  Joins(n)'
<1>1. TypeOK /\ Joins(n) /\ NotYetServing(n)
  BY DEF JoinInv
<1>2. main[n] = "running"
  BY <1>1 DEF HangUp, Forget, NotYetServing
<1>3. main' = main /\ starts' = starts /\ todo' = todo /\ backlog' = backlog
  BY DEF HangUp, Forget, startVars
<1>4. StartsAreCounted(n)' /\ SmallerAreEntered(n)' /\ WaitsForTheRest(n)'
  BY <1>1, <1>2, <1>3 DEF Joins, StartsAreCounted, SmallerAreEntered, WaitsForTheRest, Starting
<1>5. BacklogIsNew(n)' /\ EnteredArePast(n)'
  BY <1>1, <1>2, <1>3 DEF Joins, BacklogIsNew, CallsOnce, Callers, Past, EnteredArePast, Starting
<1> QED BY <1>4, <1>5 DEF Joins

\* A step of n leaves another node's part of the start-up alone, but for the
\* backlog of the neighbor n connects to.
LEMMA StepElsewhere ==
  ASSUME TypeOK, NEW n \in Nodes, NEW m \in Nodes, StartUpStep(n, m), NEW k \in Nodes, k # n,
         ~(ConnectNbr(n, m) /\ k = m)
  PROVE  /\ main'[k] = main[k] /\ starts'[k] = starts[k] /\ big_nbr'[k] = big_nbr[k]
         /\ waiting'[k] = waiting[k] /\ backlog'[k] = backlog[k] /\ todo'[k] = todo[k]
         /\ nt'[k] = nt[k] /\ listener'[k] = listener[k]
<1>1. CASE Start(n)
  BY <1>1 DEF Start, nt_create, TypeOK
<1>2. CASE Accept(n)
  <2>1. PICK d \in Fds, j \in Nodes \cup {MNP} : nt_addconn(n, j, d)
    BY <1>2, PopType DEF Accept, Conns, TypeOK
  <2>2. nt'[k] = nt[k]
    BY <2>1 DEF nt_addconn, TypeOK
  <2> QED BY <1>2, <2>2 DEF Accept, TypeOK
<1>3. CASE ConnectNbr(n, m)
  <2>1. PICK d \in Fds : nt_addconn(n, m, d)
    BY <1>3 DEF ConnectNbr
  <2>2. nt'[k] = nt[k]
    BY <2>1 DEF nt_addconn, TypeOK
  <2> QED BY <1>3, <2>2 DEF ConnectNbr, TypeOK
<1>4. CASE Listen(n) \/ StopListening(n)
  BY <1>4 DEF Listen, StopListening, tableVars, TypeOK
<1>5. CASE WakeUp(n)
  BY <1>5 DEF WakeUp, tableVars, TypeOK
<1>6. CASE Join(n)
  BY <1>6 DEF Join, startVars, TypeOK
<1>7. CASE HangUp(n, m)
  BY <1>7 DEF HangUp, startVars, TypeOK
<1>8. CASE Forget(n, m)
  BY <1>8 DEF Forget, startVars, TypeOK
<1>9. CASE End(n)
  BY <1>9 DEF End, TypeOK
<1> QED BY <1>1, <1>2, <1>3, <1>4, <1>5, <1>6, <1>7, <1>8, <1>9 DEF StartUpStep

LEMMA NextJoins ==
  ASSUME ConnectsOnce, JoinInv, [Next]_vars
  PROVE  JoinInv'
<1>1. TypeOK' /\ \A k \in Nodes : NotYetServing(k)'
  BY NextType, NextNotYetServing DEF JoinInv
<1>2. ASSUME NEW k \in Nodes
      PROVE  Joins(k)'
  <2>1. CASE UNCHANGED startUpVars
    <3>1. \A j \in Bigger(k) : Past(j, k) => Past(j, k)'
      BY <2>1 DEF startUpVars, Past
    <3> QED BY <2>1, <3>1, JoinsElsewhere DEF JoinInv, startUpVars
  <2>2. CASE \E n, m \in Nodes : StartUpStep(n, m)
    <3>1. PICK n, m \in Nodes : StartUpStep(n, m)
      BY <2>2
    <3>2. CASE k = n
      <4>1. CASE Start(n) \/ Accept(n) \/ ConnectNbr(n, m)
        BY <3>2, <4>1, StartJoins, AcceptJoins, ConnectJoins
      <4>2. CASE Listen(n) \/ StopListening(n) \/ WakeUp(n) \/ Join(n)
        BY <3>2, <4>2, ThreadJoins
      <4>3. CASE HangUp(n, m) \/ Forget(n, m) \/ (main[n] # "off" /\ End(n))
        BY <3>2, <4>3, ListenerJoins, EndJoins
      <4> QED BY <3>1, <4>1, <4>2, <4>3 DEF StartUpStep
    <3>3. CASE ConnectNbr(n, m) /\ k = m
      BY <3>3, ConnectJoinsThere
    <3>4. CASE k # n /\ ~(ConnectNbr(n, m) /\ k = m)
      <4>1. \A j \in Bigger(k) : Past(j, k) => Past(j, k)'
        BY <3>1, PastStays
      <4>2. TypeOK /\ Joins(k)
        BY DEF JoinInv
      <4>3. /\ main'[k] = main[k] /\ starts'[k] = starts[k] /\ big_nbr'[k] = big_nbr[k]
            /\ waiting'[k] = waiting[k] /\ backlog'[k] = backlog[k] /\ todo'[k] = todo[k]
            /\ nt'[k] = nt[k] /\ listener'[k] = listener[k]
        BY <3>1, <3>4, <4>2, StepElsewhere
      <4> QED BY <4>1, <4>2, <4>3, JoinsElsewhere
    <3> QED BY <3>2, <3>3, <3>4
  <2> QED BY <2>1, <2>2, StartUpStepIsOf DEF JoinInv
<1> QED BY <1>1, <1>2 DEF JoinInv

LEMMA InitJoins == Init => JoinInv
<1> SUFFICES ASSUME Init PROVE JoinInv
  OBVIOUS
<1>1. TypeOK
  BY InitType
<1>2. ASSUME NEW n \in Nodes
      PROVE  NotYetServing(n) /\ Joins(n)
  <2>1. NotYetServing(n)
    BY DEF Init, NotYetServing
  <2>2. StartsAreCounted(n)
    BY OverlayAssumption DEF Init, StartsAreCounted
  <2>3. SmallerAreEntered(n) /\ WaitsForTheRest(n) /\ EnteredArePast(n)
    BY DEF Init, SmallerAreEntered, WaitsForTheRest, EnteredArePast, Starting
  <2>4. Len(backlog[n]) = 0
    BY EmptySeq DEF Init
  <2>5. BacklogIsNew(n)
    BY <2>4 DEF BacklogIsNew, CallsOnce, Callers
  <2> QED BY <2>1, <2>2, <2>3, <2>5 DEF Joins
<1> QED BY <1>1, <1>2 DEF JoinInv

\* When main has joined waitNbrs, every entry is there.
LEMMA JoinConnects ==
  ASSUME JoinInv, NEW n \in Nodes, Join(n), NEW m \in Nbrs(n)
  PROVE  nt[n][m] # None
<1>1. TypeOK /\ Joins(n) /\ Starting(n) /\ m \in Nodes
  BY DEF JoinInv, Join, Starting, Nbrs
<1>2. CASE m \in Smaller(n)
  BY <1>1, <1>2 DEF Join, Joins, SmallerAreEntered
<1>3. CASE m \in Bigger(n)
  <2>1. big_nbr[n] = 0 /\ big_nbr[n] + Cardinality(Entered(n)) = Cardinality(Bigger(n))
    BY <1>1 DEF Join, Joins, WaitsForTheRest
  <2>2. /\ IsFiniteSet(Bigger(n)) /\ Entered(n) \subseteq Bigger(n)
        /\ Cardinality(Entered(n)) = Cardinality(Bigger(n))
    BY <1>1, <2>1, SizesAreKnown DEF Entered
  <2>3. Entered(n) = Bigger(n)
    BY <2>2, FS_Subset
  <2> QED BY <1>3, <2>3 DEF Entered
<1>4. m \in Smaller(n) \/ m \in Bigger(n)
  BY <1>1, OverlayAssumption DEF Smaller, Bigger, Nbrs
<1> QED BY <1>2, <1>3, <1>4

\* When listeners start, each has the connection it is for ("at this point, all
\* connections to the neighbors are created", overlay.c:88): waitNbrs only
\* counts connections, but no bigger neighbor can be counted twice, if the
\* processes that connect to others are started once.
THEOREM ConnectedWhenJoined == ConnectsOnce => (Spec => AllConnected)
<1> SUFFICES ASSUME ConnectsOnce
             PROVE  Spec => AllConnected
  OBVIOUS
<1>1. Init => JoinInv
  BY InitJoins
<1>2. JoinInv /\ [Next]_vars => JoinInv'
  BY NextJoins
<1>3. JoinInv /\ [Next]_vars =>
        [\A n \in Nodes : Join(n) => \A m \in Nbrs(n) : nt[n][m] # None]_vars
  BY JoinConnects
<1> QED BY <1>1, <1>2, <1>3, PTL DEF Spec, AllConnected
=============================================================================
