------------------------------ MODULE Overlay ------------------------------
(* The overlay processes of lab4 (overlay/overlay.c, neighbortable.c) from *)
(* their start to their end: each pair of neighbors is joined by one TCP   *)
(* connection, which the node with the larger ID opens; packets of the     *)
(* local MNP process go out on them and packets that come in go to it.     *)
(* A process is its main thread (later waitNetwork), the waitNbrs thread   *)
(* and a listen_to_neighbor thread per neighbor, which share the neighbor  *)
(* table nt, network_conn and the descriptors of the process, without a    *)
(* mutex.  The kernel gives a new connection the lowest free descriptor.   *)
EXTENDS Integers, Sequences, FiniteSets

CONSTANTS
  Nodes,       \* node IDs
  Edges,       \* the lines of the topology file
  MaxFd,       \* bound: descriptors of a process
  MaxStarts,   \* bound: overlay processes started on each node
  MaxMnp,      \* bound: MNP processes started on each node
  Stopping,    \* bound: the nodes whose overlay process may get a SIGINT
  Prompt,      \* all processes start within OVERLAY_START_DELAY of each other
  CloseIsQuick \* no connection is accepted between a listener's close and its store

ASSUME OverlayAssumption ==
  /\ Nodes \subseteq Nat \ {0} /\ IsFiniteSet(Nodes)
  /\ Edges \subseteq {e \in SUBSET Nodes : Cardinality(e) = 2}
  /\ MaxFd \in Nat /\ MaxStarts \in [Nodes -> Nat] /\ MaxMnp \in [Nodes -> Nat]
  /\ Stopping \subseteq Nodes /\ Prompt \in BOOLEAN /\ CloseIsQuick \in BOOLEAN

VARIABLES
  main,          \* where the main thread of a node's process is
  starts,        \* processes started there
  big_nbr,       \* the neighbors waitNbrs still waits for
  waiting,       \* where waitNbrs is
  backlog,       \* connections to CONNECTION_PORT that are not accepted
  todo,          \* the neighbors connectNbrs has yet to connect to
  nt,            \* the neighbor table: the descriptor of each neighbor
  listener,      \* where listen_to_neighbor is
  file,          \* what each descriptor of the process stands for
  network_conn,  \* the descriptor of the MNP process
  net,           \* where waitNetwork is
  out,           \* the neighbors it has yet to send its packet to
  pkts,          \* packets on their way from one node to another
  mnp,           \* the running MNP process of a node, 0 for none
  mnps,          \* MNP processes started there
  calls          \* connections to OVERLAY_PORT that are not accepted

startVars == <<starts, big_nbr, waiting, backlog, todo>>
tableVars == <<nt, listener, file>>
netVars == <<network_conn, net, out>>
mnpVars == <<mnp, mnps, calls>>
vars == <<main, startVars, tableVars, netVars, pkts, mnpVars>>

(* topology.c *)

\* topology_getNbrArray
Nbrs(n) == {m \in Nodes \ {n} : {n, m} \in Edges}
Bigger(n) == {m \in Nbrs(n) : m > n}
Smaller(n) == {m \in Nbrs(n) : m < n}

(* Connections and descriptors. *)

MNP == 0   \* no node has this ID
None == -1
Fds == 1 .. MaxFd

\* The connection that process number k of "from" opened to "to".
Conn(from, to, k) == [from |-> from, to |-> to, k |-> k]
Conns == [from : Nodes \cup {MNP}, to : Nodes, k : Nat]
Free == Conn(MNP, 0, 0)

OtherEnd(n, c) == IF c.from = n THEN c.to ELSE c.from

Holds(n, c) == \E d \in Fds : file[n][d] = c
Queued(n, c) == \E i \in 1 .. Len(backlog[n]) : backlog[n][i] = c

\* The other end of n's connection c is not closed.
Alive(n, c) ==
  IF c.from = MNP THEN mnp[n] = c.k
  ELSE Holds(OtherEnd(n, c), c) \/ Queued(OtherEnd(n, c), c)

NewFd(n, d) == file[n][d] = Free /\ \A e \in Fds : file[n][e] = Free => d <= e

(* neighbortable.c *)

nt_create(n) == nt' = [nt EXCEPT ![n] = [m \in Nodes |-> None]]
nt_addconn(n, m, d) == nt' = IF m \in Nbrs(n) THEN [nt EXCEPT ![n][m] = d] ELSE nt

\* No listener of n is between its close and its store.
Settled(n) == CloseIsQuick => \A m \in Nbrs(n) : listener[n][m] # "closed"

(* The end of a process: the kernel closes everything. *)
End(n) ==
  /\ main' = [main EXCEPT ![n] = "ended"]
  /\ file' = [file EXCEPT ![n] = [d \in Fds |-> Free]]
  /\ waiting' = [waiting EXCEPT ![n] = "none"]
  /\ backlog' = [backlog EXCEPT ![n] = <<>>]
  /\ calls' = [calls EXCEPT ![n] = <<>>]
  /\ nt' = [nt EXCEPT ![n] = [m \in Nodes |-> None]]
  /\ listener' = [listener EXCEPT ![n] = [m \in Nodes |-> "none"]]
  /\ net' = [net EXCEPT ![n] = "none"]
  /\ out' = [out EXCEPT ![n] = {}]
  /\ todo' = [todo EXCEPT ![n] = {}]
  /\ UNCHANGED <<starts, big_nbr, network_conn, pkts, mnp, mnps>>

(* Start-up. *)

StartOffByOne(n) == \* mutant: one neighbor too few
  /\ main[n] \in {"off", "ended"} /\ starts[n] < MaxStarts[n]
  /\ main' = [main EXCEPT ![n] = "sleep"]
  /\ starts' = [starts EXCEPT ![n] = @ + 1]
  /\ nt_create(n)
  /\ network_conn' = [network_conn EXCEPT ![n] = None]
  /\ big_nbr' = [big_nbr EXCEPT ![n] = Cardinality(Bigger(n)) - 1]
  /\ waiting' = [waiting EXCEPT ![n] = "start"]
  /\ UNCHANGED <<backlog, todo, listener, file, net, out, pkts, mnpVars>>
\* main: nt_create, network_conn, the waitNbrs thread.
Start(n) ==
  /\ main[n] \in {"off", "ended"} /\ starts[n] < MaxStarts[n]
  /\ main' = [main EXCEPT ![n] = "sleep"]
  /\ starts' = [starts EXCEPT ![n] = @ + 1]
  /\ nt_create(n)
  /\ network_conn' = [network_conn EXCEPT ![n] = None]
  /\ big_nbr' = [big_nbr EXCEPT ![n] = Cardinality(Bigger(n))]
  /\ waiting' = [waiting EXCEPT ![n] = "start"]
  /\ UNCHANGED <<backlog, todo, listener, file, net, out, pkts, mnpVars>>

\* waitNbrs: bind, listen.
Listen(n) ==
  /\ waiting[n] = "start"
  /\ waiting' = [waiting EXCEPT ![n] = "accept"]
  /\ UNCHANGED <<main, starts, big_nbr, backlog, todo, tableVars, netVars, pkts, mnpVars>>

AcceptUncounted(n) == \* mutant: no big_nbr--
  /\ waiting[n] = "accept" /\ big_nbr[n] > 0 /\ backlog[n] # <<>> /\ Settled(n)
  /\ \E d \in Fds :
       /\ NewFd(n, d)
       /\ file' = [file EXCEPT ![n][d] = Head(backlog[n])]
       /\ nt_addconn(n, Head(backlog[n]).from, d)
  /\ backlog' = [backlog EXCEPT ![n] = Tail(@)]
  /\ UNCHANGED <<main, starts, big_nbr, waiting, todo, listener, netVars, pkts, mnpVars>>
\* waitNbrs: accept and nt_addconn.
Accept(n) ==
  /\ waiting[n] = "accept" /\ big_nbr[n] > 0 /\ backlog[n] # <<>> /\ Settled(n)
  /\ \E d \in Fds :
       /\ NewFd(n, d)
       /\ file' = [file EXCEPT ![n][d] = Head(backlog[n])]
       /\ nt_addconn(n, Head(backlog[n]).from, d)
  /\ backlog' = [backlog EXCEPT ![n] = Tail(@)]
  /\ big_nbr' = [big_nbr EXCEPT ![n] = IF Head(backlog[n]).from \in Nbrs(n) THEN @ - 1 ELSE @]
  /\ UNCHANGED <<main, starts, waiting, todo, listener, netVars, pkts, mnpVars>>

\* waitNbrs: everybody has come; connections still in the backlog are reset.
StopListening(n) ==
  /\ waiting[n] = "accept" /\ big_nbr[n] = 0
  /\ waiting' = [waiting EXCEPT ![n] = "done"]
  /\ backlog' = [backlog EXCEPT ![n] = <<>>]
  /\ UNCHANGED <<main, starts, big_nbr, todo, tableVars, netVars, pkts, mnpVars>>

\* main: sleep(OVERLAY_START_DELAY) is over.
WakeUp(n) ==
  /\ main[n] = "sleep"
  /\ Prompt => \A m \in Nodes : starts[m] > 0 /\ waiting[m] # "start"
  /\ main' = [main EXCEPT ![n] = "connect"]
  /\ todo' = [todo EXCEPT ![n] = Smaller(n)]
  /\ UNCHANGED <<starts, big_nbr, waiting, backlog, tableVars, netVars, pkts, mnpVars>>

\* connectNbrs: connect and nt_addconn ...
ConnectNbr(n, m) ==
  /\ main[n] = "connect" /\ m \in todo[n] /\ waiting[m] = "accept"
  /\ LET c == Conn(n, m, starts[n]) IN
       /\ \E d \in Fds :
            /\ NewFd(n, d)
            /\ file' = [file EXCEPT ![n][d] = c]
            /\ nt_addconn(n, m, d)
       /\ backlog' = [backlog EXCEPT ![m] = Append(@, c)]
  /\ todo' = [todo EXCEPT ![n] = @ \ {m}]
  /\ UNCHANGED <<main, starts, big_nbr, waiting, listener, netVars, pkts, mnpVars>>

\* ... or exit(4), if nobody listens there.
Refused(n, m) ==
  /\ main[n] = "connect" /\ m \in todo[n] /\ waiting[m] # "accept"
  /\ End(n)

JoinAtOnce(n) == \* mutant: no pthread_join
  /\ main[n] = "connect" /\ todo[n] = {}
  /\ main' = [main EXCEPT ![n] = "running"]
  /\ listener' = [listener EXCEPT ![n] = [m \in Nodes |-> IF m \in Nbrs(n) THEN "recv" ELSE "none"]]
  /\ net' = [net EXCEPT ![n] = "accept"]
  /\ UNCHANGED <<startVars, nt, file, network_conn, out, pkts, mnpVars>>
\* main: pthread_join, then a listener for each neighbor, and waitNetwork.
Join(n) ==
  /\ main[n] = "connect" /\ todo[n] = {} /\ waiting[n] = "done"
  /\ main' = [main EXCEPT ![n] = "running"]
  /\ listener' = [listener EXCEPT ![n] = [m \in Nodes |-> IF m \in Nbrs(n) THEN "recv" ELSE "none"]]
  /\ net' = [net EXCEPT ![n] = "accept"]
  /\ UNCHANGED <<startVars, nt, file, network_conn, out, pkts, mnpVars>>

(* Packets from neighbors. *)

\* send() on descriptor d of n: nothing without a connection, a packet for the
\* other end if that is open.  If it is closed the first bytes are answered by a
\* reset and the next by SIGPIPE, which nothing catches.
NoConn(n, d) == d = None \/ file[n][d] = Free
Delivers(n, d) == ~NoConn(n, d) /\ Alive(n, file[n][d])
Breaks(n, d) == ~NoConn(n, d) /\ ~Alive(n, file[n][d])

\* listen_to_neighbor: recvpkt, and forwardpktToMNP on whatever network_conn is.
Received(n, m) ==
  /\ listener[n][m] = "recv" /\ <<m, n>> \in pkts
  /\ pkts' = pkts \ {<<m, n>>}
Forward(n, m) ==
  /\ Received(n, m)
  /\ UNCHANGED <<main, startVars, tableVars, netVars, mnpVars>>
ForwardBreaks(n, m) ==
  /\ listener[n][m] = "recv" /\ <<m, n>> \in pkts /\ Breaks(n, network_conn[n])
  /\ End(n)

HangUpOnly(n, m) == \* mutant: no nt[i].conn = -1, no close
  /\ listener[n][m] = "recv" /\ <<m, n>> \notin pkts
  /\ ~Delivers(n, nt[n][m])
  /\ UNCHANGED file
  /\ listener' = [listener EXCEPT ![n][m] = "done"]
  /\ UNCHANGED <<main, startVars, nt, netVars, pkts, mnpVars>>
\* ... until the neighbor's end is closed: close(nt[i].conn)
HangUp(n, m) ==
  /\ listener[n][m] = "recv" /\ <<m, n>> \notin pkts
  /\ ~Delivers(n, nt[n][m])
  /\ file' = IF NoConn(n, nt[n][m]) THEN file ELSE [file EXCEPT ![n][nt[n][m]] = Free]
  /\ listener' = [listener EXCEPT ![n][m] = "closed"]
  /\ UNCHANGED <<main, startVars, nt, netVars, pkts, mnpVars>>

ForgetNothing(n, m) == \* mutant: no nt[i].conn = -1
  /\ listener[n][m] = "closed"
  /\ UNCHANGED nt
  /\ listener' = [listener EXCEPT ![n][m] = "done"]
  /\ UNCHANGED <<main, startVars, file, netVars, pkts, mnpVars>>
\* ... and nt[i].conn = -1.
Forget(n, m) ==
  /\ listener[n][m] = "closed"
  /\ nt' = [nt EXCEPT ![n][m] = None]
  /\ listener' = [listener EXCEPT ![n][m] = "done"]
  /\ UNCHANGED <<main, startVars, file, netVars, pkts, mnpVars>>

(* Packets from the MNP process. *)

\* waitNetwork: accept.
AcceptMnp(n) ==
  /\ net[n] = "accept" /\ calls[n] # <<>> /\ Settled(n)
  /\ \E d \in Fds :
       /\ NewFd(n, d)
       /\ file' = [file EXCEPT ![n][d] = Head(calls[n])]
       /\ network_conn' = [network_conn EXCEPT ![n] = d]
  /\ calls' = [calls EXCEPT ![n] = Tail(@)]
  /\ net' = [net EXCEPT ![n] = "recv"]
  /\ UNCHANGED <<main, startVars, nt, listener, out, pkts, mnp, mnps>>

\* getpktToSend: a packet for all neighbors, or for one.
TakePacket(n) ==
  /\ net[n] = "recv" /\ Alive(n, file[n][network_conn[n]])
  /\ net' = [net EXCEPT ![n] = "send"]
  /\ \/ out' = [out EXCEPT ![n] = Nbrs(n)]
     \/ \E m \in Nbrs(n) : nt[n][m] # None /\ out' = [out EXCEPT ![n] = {m}]
  /\ UNCHANGED <<main, startVars, tableVars, network_conn, pkts, mnpVars>>

\* sendpkt(&pkt, nt[i].conn), one neighbor after the other.
SendTo(n, m) ==
  /\ net[n] = "send" /\ m \in out[n]
  /\ out' = [out EXCEPT ![n] = @ \ {m}]
  /\ net' = [net EXCEPT ![n] = IF out[n] = {m} THEN "recv" ELSE "send"]
  /\ pkts' = IF Delivers(n, nt[n][m]) THEN pkts \cup {<<n, OtherEnd(n, file[n][nt[n][m]])>>} ELSE pkts
  /\ UNCHANGED <<main, startVars, tableVars, network_conn, mnpVars>>
SendBreaks(n, m) ==
  /\ net[n] = "send" /\ m \in out[n] /\ Breaks(n, nt[n][m])
  /\ End(n)

\* The MNP process has gone: close(network_conn), which keeps its value.
CloseMnp(n) ==
  /\ net[n] = "recv" /\ ~Alive(n, file[n][network_conn[n]])
  /\ file' = [file EXCEPT ![n][network_conn[n]] = Free]
  /\ net' = [net EXCEPT ![n] = "accept"]
  /\ UNCHANGED <<main, startVars, nt, listener, network_conn, out, pkts, mnpVars>>

\* overlay_stop, on SIGINT: everything is closed, and exit(0).
overlay_stop(n) == n \in Stopping /\ main[n] \notin {"off", "ended"} /\ End(n)

(* The MNP process: connectToOverlay, and its end. *)
StartMnp(n) ==
  /\ mnp[n] = 0 /\ mnps[n] < MaxMnp[n] /\ main[n] = "running"
  /\ mnps' = [mnps EXCEPT ![n] = @ + 1]
  /\ mnp' = [mnp EXCEPT ![n] = mnps[n] + 1]
  /\ calls' = [calls EXCEPT ![n] = Append(@, Conn(MNP, n, mnps[n] + 1))]
  /\ UNCHANGED <<main, startVars, tableVars, netVars, pkts>>

EndMnp(n) ==
  /\ mnp[n] # 0
  /\ mnp' = [mnp EXCEPT ![n] = 0]
  /\ UNCHANGED <<main, startVars, tableVars, netVars, pkts, mnps, calls>>

Init ==
  /\ main = [n \in Nodes |-> "off"]
  /\ starts = [n \in Nodes |-> 0]
  /\ big_nbr = [n \in Nodes |-> 0]
  /\ waiting = [n \in Nodes |-> "none"]
  /\ backlog = [n \in Nodes |-> <<>>]
  /\ todo = [n \in Nodes |-> {}]
  /\ nt = [n \in Nodes |-> [m \in Nodes |-> None]]
  /\ listener = [n \in Nodes |-> [m \in Nodes |-> "none"]]
  /\ file = [n \in Nodes |-> [d \in Fds |-> Free]]
  /\ network_conn = [n \in Nodes |-> None]
  /\ net = [n \in Nodes |-> "none"]
  /\ out = [n \in Nodes |-> {}]
  /\ pkts = {}
  /\ mnp = [n \in Nodes |-> 0]
  /\ mnps = [n \in Nodes |-> 0]
  /\ calls = [n \in Nodes |-> <<>>]

\* What a process does by itself.
Waiter(n) == Listen(n) \/ Accept(n) \/ StopListening(n)
Main(n) == WakeUp(n) \/ Join(n) \/ \E m \in Nodes : ConnectNbr(n, m) \/ Refused(n, m)
Listener(n, m) == Forward(n, m) \/ ForwardBreaks(n, m) \/ HangUp(n, m) \/ Forget(n, m)
Network(n) ==
  \/ AcceptMnp(n) \/ CloseMnp(n) \/ \E m \in Nodes : SendTo(n, m) \/ SendBreaks(n, m)

Next ==
  \E n \in Nodes :
    \/ Start(n) \/ Waiter(n) \/ Main(n) \/ Network(n) \/ TakePacket(n)
    \/ \E m \in Nodes : Listener(n, m)
    \/ overlay_stop(n) \/ StartMnp(n) \/ EndMnp(n)

Spec == Init /\ [][Next]_vars

\* Threads keep running and the processes of all nodes are started once.
Fairness ==
  \A n \in Nodes :
    /\ WF_vars(Start(n) /\ starts[n] = 0)
    /\ WF_vars(Waiter(n)) /\ WF_vars(Main(n)) /\ WF_vars(Network(n))
    /\ \A m \in Nodes : WF_vars(Listener(n, m))
FairSpec == Spec /\ Fairness

(* Properties. *)

TypeOK ==
  /\ main \in [Nodes -> {"off", "sleep", "connect", "running", "ended"}]
  /\ starts \in [Nodes -> Nat] /\ big_nbr \in [Nodes -> Nat]
  /\ waiting \in [Nodes -> {"none", "start", "accept", "done"}]
  /\ backlog \in [Nodes -> Seq(Conns)]
  /\ todo \in [Nodes -> SUBSET Nodes] /\ out \in [Nodes -> SUBSET Nodes]
  /\ nt \in [Nodes -> [Nodes -> Fds \cup {None}]]
  /\ listener \in [Nodes -> [Nodes -> {"none", "recv", "closed", "done"}]]
  /\ file \in [Nodes -> [Fds -> Conns \cup {Free}]]
  /\ network_conn \in [Nodes -> Fds \cup {None}]
  /\ net \in [Nodes -> {"none", "accept", "recv", "send"}]
  /\ pkts \subseteq Nodes \X (Nodes \cup {MNP})
  /\ mnp \in [Nodes -> Nat] /\ mnps \in [Nodes -> Nat] /\ calls \in [Nodes -> Seq(Conns)]

\* An entry of the neighbor table leads to that neighbor (neighbortable.h:32),
\* though descriptors are used again: a packet is never written to another node
\* or back to the own MNP process.
ConnIsToNeighbor ==
  \A n \in Nodes : \A m \in Nbrs(n) :
    ~NoConn(n, nt[n][m]) => OtherEnd(n, file[n][nt[n][m]]) = m

\* "at this point, all connections to the neighbors are created" (overlay.c:88)
AllConnected ==
  [][\A n \in Nodes : Join(n) => \A m \in Nbrs(n) : nt[n][m] # None]_vars

\* Once all processes are started, all get to the point where packets flow, or
\* one of them has ended.
OverlayForms ==
  (\A n \in Nodes : starts[n] > 0)
    ~> (\A n \in Nodes : main[n] = "running") \/ (\E n \in Nodes : main[n] = "ended")

\* Entries for neighbors whose process has ended are cleared.
Stale(n, m) == main[n] = "running" /\ main[m] = "ended" /\ nt[n][m] # None
LossIsNoticed ==
  (\E n, m \in Nodes : Stale(n, m)) ~> (\A n, m \in Nodes : ~Stale(n, m))
=============================================================================
