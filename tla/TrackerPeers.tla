---------------------------- MODULE TrackerPeers ----------------------------
(* The peers of the tracker (tofukasu_final/peer) as far as the tracker sees *)
(* them: a process on each address that connects, registers, reports the     *)
(* versions of its files, sends heartbeats and reads the tables the tracker  *)
(* broadcasts; and its connection, a pair of byte streams that hold whole    *)
(* segments here.  What a peer reports is any table: how its downloads and   *)
(* its file monitor come to it is left open.  A process may end, which       *)
(* closes its sockets, or be cut off, which the tracker's TCP learns later.  *)
EXTENDS FileTable, Sequences

CONSTANTS
  Files,       \* the names of the files
  Sockets,     \* the numbers of the descriptors of the tracker's handshake connections
  NoSocket,    \* -1
  NoPeer,      \* the owner of a descriptor that is not in use
  MaxVersion,  \* bound: the newest modification time
  MaxBoots,    \* bound: how many processes are started on each address
  Reporters,   \* bound: the peers that have files to report
  Leaving,     \* bound: the peers whose processes end
  Fragile,     \* bound: the peers whose machine or network fails
  InCap,       \* bound: segments on their way to the tracker on a connection
  OutCap       \* bound: tables on their way to a peer on a connection

ASSUME PeersAssumption ==
  /\ Sockets \subseteq Nat /\ NoSocket \notin Sockets /\ NoPeer \notin Peers
  /\ {MaxVersion, InCap, OutCap} \subseteq Nat \ {0}
  /\ MaxBoots \in [Peers -> Nat]
  /\ Reporters \subseteq Peers /\ Leaving \subseteq Peers /\ Fragile \subseteq Peers

VARIABLES
  proc,     \* the process on each address: "down", "registering" or "joined"
  home,     \* its connection to the tracker's handshake port
  late,     \* the addresses with an unread ALIVE of a process that is gone
  boots,    \* how many processes were started there
  owner,    \* the address at the other end of each of the tracker's connections
  open,     \* the other end is open, as far as TCP knows
  in,       \* the segments the tracker has not read
  out       \* the tables the peer has not read

procVars == <<proc, home, late, boots>>
connVars == <<owner, open, in, out>>
peerVars == <<procVars, connVars>>

Version == 0 .. MaxVersion
Table == [Files -> Version]
NoTable == [f \in Files |-> 0]
Register == [type |-> "REGISTER", filetable |-> NoTable]
FileTableUpdate(t) == [type |-> "FILE_TABLE_UPDATE", filetable |-> t]
Segment == {Register} \cup {FileTableUpdate(t) : t \in Table}

PeersTypeOK ==
  /\ proc \in [Peers -> {"down", "registering", "joined"}]
  /\ home \in [Peers -> Sockets \cup {NoSocket}]
  /\ late \subseteq Peers
  /\ boots \in [Peers -> Nat]
  /\ owner \in [Sockets -> Peers \cup {NoPeer}]
  /\ open \in [Sockets -> BOOLEAN]
  /\ in \in [Sockets -> Seq(Segment)]
  /\ out \in [Sockets -> Seq(Table)]

PeersInit ==
  /\ proc = [p \in Peers |-> "down"]
  /\ home = [p \in Peers |-> NoSocket]
  /\ late = {}
  /\ boots = [p \in Peers |-> 0]
  /\ owner = [s \in Sockets |-> NoPeer]
  /\ open = [s \in Sockets |-> FALSE]
  /\ in = [s \in Sockets |-> <<>>]
  /\ out = [s \in Sockets |-> <<>>]

\* peer() connects and sends REGISTER; the tracker accepts on the
\* lowest descriptor that is free.
ConnectOn(p, s) ==
  /\ proc[p] = "down" /\ boots[p] < MaxBoots[p]
  /\ owner[s] = NoPeer /\ \A r \in Sockets : owner[r] = NoPeer => s <= r
  /\ proc' = [proc EXCEPT ![p] = "registering"]
  /\ home' = [home EXCEPT ![p] = s]
  /\ boots' = [boots EXCEPT ![p] = @ + 1]
  /\ owner' = [owner EXCEPT ![s] = p]
  /\ open' = [open EXCEPT ![s] = TRUE]
  /\ in' = [in EXCEPT ![s] = <<Register>>]
  /\ out' = [out EXCEPT ![s] = <<>>]
  /\ UNCHANGED late

\* register_on_tracker takes the first table that comes for the ACCEPT; the threads start.
Accepted(p) ==
  /\ proc[p] = "registering" /\ out[home[p]] # <<>>
  /\ proc' = [proc EXCEPT ![p] = "joined"]
  /\ out' = [out EXCEPT ![home[p]] = Tail(@)]
  /\ UNCHANGED <<home, late, boots, owner, open, in>>

\* The main loop reads a table.
ReceiveTable(p) ==
  /\ proc[p] = "joined" /\ out[home[p]] # <<>>
  /\ out' = [out EXCEPT ![home[p]] = Tail(@)]
  /\ UNCHANGED <<procVars, owner, open, in>>

\* The file monitor sends the whole file table, at its start and after a change.
sendTracker(p) ==
  /\ p \in Reporters /\ proc[p] = "joined"
  /\ Len(in[home[p]]) < InCap
  /\ \E t \in Table : in' = [in EXCEPT ![home[p]] = Append(@, FileTableUpdate(t))]
  /\ UNCHANGED <<procVars, owner, open, out>>

\* The process is gone; an ALIVE of it may be on its way.
Gone(p) ==
  /\ proc' = [proc EXCEPT ![p] = "down"]
  /\ home' = [home EXCEPT ![p] = NoSocket]
  /\ late' = late \/ (proc[p] = "joined" /\ late' = late \cup {p})
  /\ UNCHANGED <<boots, owner, in>>

\* The other end of s is closed; what the tracker has not read stays.
Closed(s) ==
  /\ open' = [open EXCEPT ![s] = FALSE]
  /\ out' = [out EXCEPT ![s] = <<>>]

\* The process ends.
Exit(p) == p \in Leaving /\ proc[p] # "down" /\ Gone(p) /\ Closed(home[p])

\* Its machine or network fails: nothing tells the tracker.
Vanish(p) == p \in Fragile /\ proc[p] # "down" /\ Gone(p) /\ UNCHANGED <<open, out>>

\* TCP gives such a connection up.
TimedOut(s) ==
  /\ open[s] /\ home[owner[s]] # s
  /\ Closed(s)
  /\ UNCHANGED <<procVars, owner, in>>
=============================================================================
