------------------------------- MODULE Tracker -------------------------------
(* The tracker (tofukasu_final/tracker): a handshake thread for every        *)
(* connection of a peer, and the monitor thread, which reads the heartbeats, *)
(* removes the peers it has not heard of for too long, and broadcasts the    *)
(* file table.  They share the peer table and the file table, each with a    *)
(* mutex.  What a thread does between locking and unlocking a mutex is one   *)
(* step, but for the broadcast: it holds both while it writes to one peer    *)
(* after the other and waits for each to have room.                          *)
(*                                                                           *)
(* Three things end the tracker: a SIGINT, a peer that is looked up and not  *)
(* there (the NULL is followed), and a write to a connection whose other end *)
(* is closed (SIGPIPE, which nothing catches).                               *)
EXTENDS TrackerPeers

CONSTANTS
  PEER_ALIVE_INTERVAL,  \* a peer's time between two heartbeats
  Prompt                \* a report is merged before its peer's deadline passes

ASSUME TrackerAssumption == PEER_ALIVE_INTERVAL \in Nat /\ Prompt \in BOOLEAN

VARIABLES
  pc,          \* where the handshake thread of a connection is
  peer_table,  \* the addresses in the peer table
  age,         \* the time since an entry's last_time_stamp
  sockfd,      \* an entry's connection
  files,       \* the file table
  mon,         \* where the monitor thread is
  todo,        \* the peers it has yet to do there
  fault        \* what has ended the tracker

trackerVars == <<pc, peer_table, age, sockfd, files, mon, todo, fault>>
vars == <<peerVars, trackerVars>>

MaxAge == PEER_ALIVE_INTERVAL + 2  \* no entry is older than an overdue one

(* The peer table: an entry for each address, with its connection. *)

trc_pr_tb_create == {}
trc_pr_tb_find_peer_by_ip(ip) == peer_table \cap {ip}
trc_pr_tb_find_peer_by_sockfd(s) == {p \in peer_table : sockfd[p] = s}

\* A new entry, or the peer's old one with the new connection.
trc_pr_tb_add_peer(ip, s) ==
  /\ peer_table' = peer_table \cup {ip}
  /\ age' = [age EXCEPT ![ip] = 0]
  /\ sockfd' = [sockfd EXCEPT ![ip] = s]

trc_pr_tb_destroy ==
  /\ peer_table' = {}
  /\ age' = [p \in Peers |-> 0]
  /\ sockfd' = [p \in Peers |-> NoSocket]

\* What is found is not tested.
trc_pr_tb_update_alive_timestamp(ip) ==
  IF trc_pr_tb_find_peer_by_ip(ip) # {}
  THEN age' = [age EXCEPT ![ip] = 0] /\ UNCHANGED fault
  ELSE fault' = "NULL" /\ UNCHANGED age

Init ==
  /\ PeersInit
  /\ pc = [s \in Sockets |-> "none"]
  /\ peer_table = trc_pr_tb_create
  /\ age = [p \in Peers |-> 0]
  /\ sockfd = [p \in Peers |-> NoSocket]
  /\ files = [f \in Files |-> NoFile]
  /\ mon = "select"
  /\ todo = {}
  /\ fault = "none"

\* The monitor has peer_table_mutex while it removes peers, and both mutexes while it
\* broadcasts.
PeerTableFree == mon \notin {"remove", "broadcast"}
FileTableFree == mon # "broadcast"

(* The handshake threads. *)

\* The tracker's main thread accepts a connection and starts a thread for it.
Connect(p) ==
  /\ \E s \in Sockets : ConnectOn(p, s) /\ pc' = [pc EXCEPT ![s] = "receive"]
  /\ UNCHANGED <<peer_table, age, sockfd, files, mon, todo, fault>>

Received(s, type) == pc[s] = "receive" /\ in[s] # <<>> /\ Head(in[s]).type = type
Consume(s) == in' = [in EXCEPT ![s] = Tail(@)]

HandleRegister(s) ==
  /\ Received(s, "REGISTER") /\ PeerTableFree
  /\ trc_pr_tb_add_peer(owner[s], s)
  /\ Consume(s)
  /\ pc' = [pc EXCEPT ![s] = "accept"]
  /\ UNCHANGED <<procVars, owner, open, out, files, mon, todo, fault>>

\* send_t2p_segment: it waits for room; a closed other end loses it or ends the tracker.
SendTable(s, t) ==
  \/ /\ open[s] /\ Len(out[s]) < OutCap
     /\ out' = [out EXCEPT ![s] = Append(@, t)]
     /\ UNCHANGED fault
  \/ /\ ~open[s]
     /\ fault' \in {fault, "SIGPIPE"}
     /\ UNCHANGED out

\* ACCEPT is a table without files, sent after the mutex is unlocked.
SendAccept(s) ==
  /\ pc[s] = "accept"
  /\ SendTable(s, NoTable)
  /\ pc' = [pc EXCEPT ![s] = "receive"]
  /\ UNCHANGED <<procVars, owner, open, in, peer_table, age, sockfd, files, mon, todo>>

\* handle_filetable_update under peer_table_mutex, ...
HandleFileTableUpdate(s) ==
  /\ Received(s, "FILE_TABLE_UPDATE") /\ PeerTableFree
  /\ trc_pr_tb_update_alive_timestamp(owner[s])
  /\ pc' = [pc EXCEPT ![s] = "merge"]
  /\ UNCHANGED <<peerVars, peer_table, sockfd, files, mon, todo>>

\* ... and then under file_table_mutex.
MergeFileTable(s) ==
  /\ pc[s] = "merge" /\ FileTableFree
  /\ files' = [f \in Files |-> MergeFile(files[f], Head(in[s]).filetable[f], owner[s])]
  /\ Consume(s)
  /\ pc' = [pc EXCEPT ![s] = "receive"]
  /\ UNCHANGED <<procVars, owner, open, out, peer_table, age, sockfd, mon, todo, fault>>

\* Mutant: the entry keeps the number of the connection that is closed.
HangupKeepsEntry(s) ==
  /\ pc[s] = "receive" /\ in[s] = <<>> /\ ~open[s] /\ PeerTableFree
  /\ owner' = [owner EXCEPT ![s] = NoPeer]
  /\ pc' = [pc EXCEPT ![s] = "none"]
  /\ UNCHANGED <<procVars, open, in, out, peer_table, age, sockfd, files, mon, todo, fault>>

\* The end of the stream: the entry with this connection is looked up, not the peer's.
Hangup(s) ==
  /\ pc[s] = "receive" /\ in[s] = <<>> /\ ~open[s] /\ PeerTableFree
  /\ \/ \E p \in trc_pr_tb_find_peer_by_sockfd(s) :
          /\ sockfd' = [sockfd EXCEPT ![p] = NoSocket]
          /\ UNCHANGED fault
     \/ /\ trc_pr_tb_find_peer_by_sockfd(s) = {}
        /\ fault' = "NULL"
        /\ UNCHANGED sockfd
  /\ owner' = [owner EXCEPT ![s] = NoPeer]
  /\ pc' = [pc EXCEPT ![s] = "none"]
  /\ UNCHANGED <<procVars, open, in, out, peer_table, age, files, mon, todo>>

(* The monitor thread. *)

\* select returns; the heartbeats that have come are read, some of those of the peers
\* that run and all of the others; then remove_dead_peers takes peer_table_mutex.  A
\* handshake thread that gets it in between might as well have had it before, and no time
\* passes.
Dead(ages) == {p \in peer_table : ages[p] > PEER_ALIVE_INTERVAL + 1}
ReadHeartbeats ==
  /\ mon = "select"
  /\ \E alive \in SUBSET {p \in Peers : proc[p] = "joined"} :
       LET read == alive \cup late IN
       \/ /\ read \subseteq peer_table
          /\ age' = [p \in Peers |-> IF p \in read THEN 0 ELSE age[p]]
          /\ todo' = Dead(age')
          /\ UNCHANGED fault
       \/ /\ ~(read \subseteq peer_table)
          /\ fault' = "NULL"
          /\ UNCHANGED <<age, todo>>
  /\ late' = {}
  /\ mon' = "remove"
  /\ UNCHANGED <<proc, home, boots, connVars, pc, peer_table, sockfd, files>>

RemoveEntry(p) ==
  /\ mon = "remove" /\ p \in todo
  /\ peer_table' = peer_table \ {p}
  /\ age' = [age EXCEPT ![p] = 0]
  /\ sockfd' = [sockfd EXCEPT ![p] = NoSocket]
  /\ todo' = todo \ {p}
  /\ UNCHANGED <<peerVars, pc, mon, fault>>

\* Mutant: the file table keeps the peer.
RemoveDeadEntry(p) == RemoveEntry(p) /\ UNCHANGED files

\* remove_dead_peers, peer by peer; file_table_mutex is free between two of them.
RemoveDead(p) ==
  /\ RemoveEntry(p)
  /\ files' = [f \in Files |-> filetable_remove_peerIP(files[f], p)]

EndRemove ==
  /\ mon = "remove" /\ todo = {}
  /\ mon' = "lock"
  /\ UNCHANGED <<peerVars, pc, peer_table, age, sockfd, files, todo, fault>>

\* broadcast_filetable locks both tables, then writes to the peers that are connected.
StartBroadcast ==
  /\ mon = "lock"
  /\ mon' = "broadcast"
  /\ todo' = {p \in peer_table : sockfd[p] # NoSocket}
  /\ UNCHANGED <<peerVars, pc, peer_table, age, sockfd, files, fault>>

BroadcastTo(p) ==
  /\ mon = "broadcast" /\ p \in todo
  /\ SendTable(sockfd[p], [f \in Files |-> files[f].latest])
  /\ todo' = todo \ {p}
  /\ UNCHANGED <<procVars, owner, open, in, pc, peer_table, age, sockfd, files, mon>>

EndBroadcast ==
  /\ mon = "broadcast" /\ todo = {}
  /\ mon' = "select"
  /\ UNCHANGED <<peerVars, pc, peer_table, age, sockfd, files, todo, fault>>

(* Time passes, but not between remove_dead_peers and the lock that follows. *)
MergesArePrompt ==
  \A s \in Sockets : pc[s] = "merge" => age[owner[s]] <= PEER_ALIVE_INTERVAL
Tick ==
  /\ \E p \in peer_table : age[p] < MaxAge
  /\ mon \notin {"remove", "lock"}
  /\ Prompt => MergesArePrompt
  /\ age' = [p \in Peers |-> IF p \in peer_table /\ age[p] < MaxAge
                             THEN age[p] + 1 ELSE age[p]]
  /\ UNCHANGED <<peerVars, pc, peer_table, sockfd, files, mon, todo, fault>>

filetable_destroy == files' = [f \in Files |-> NoFile]

\* SIGINT: both tables are freed, and the process exits.
tracker_stop ==
  /\ trc_pr_tb_destroy
  /\ filetable_destroy
  /\ pc' = [s \in Sockets |-> "none"]
  /\ mon' = "select"
  /\ todo' = {}
  /\ fault' = "exit"
  /\ UNCHANGED peerVars

PeerStep(p) ==
  /\ \/ Accepted(p) \/ ReceiveTable(p) \/ sendTracker(p)
     \/ Exit(p) \/ Vanish(p)
  /\ UNCHANGED trackerVars
Reads(p) == (Accepted(p) \/ ReceiveTable(p)) /\ UNCHANGED trackerVars
ConnectionTimesOut(s) == TimedOut(s) /\ UNCHANGED trackerVars
Handshake(s) ==
  \/ HandleRegister(s) \/ SendAccept(s) \/ HandleFileTableUpdate(s)
  \/ MergeFileTable(s) \/ Hangup(s)
Monitor ==
  \/ ReadHeartbeats \/ EndRemove \/ StartBroadcast \/ EndBroadcast
  \/ \E p \in Peers : RemoveDead(p) \/ BroadcastTo(p)

Next ==
  /\ fault = "none"
  /\ \/ \E p \in Peers : Connect(p) \/ PeerStep(p)
     \/ \E s \in Sockets : Handshake(s) \/ ConnectionTimesOut(s)
     \/ Monitor
     \/ Tick
     \/ tracker_stop

Spec == Init /\ [][Next]_vars

\* The threads of the tracker and of the peers that run keep running, and time passes;
\* no peer has to report, to send a heartbeat or to end.
Fairness ==
  /\ SF_vars(fault = "none" /\ Tick)
  /\ WF_vars(fault = "none" /\ Monitor)
  /\ \A s \in Sockets : SF_vars(fault = "none" /\ Handshake(s))
  /\ \A s \in Sockets : WF_vars(fault = "none" /\ ConnectionTimesOut(s))
  /\ \A p \in Peers : WF_vars(fault = "none" /\ Reads(p))

FairSpec == Spec /\ Fairness
-----------------------------------------------------------------------------
TypeOK ==
  /\ PeersTypeOK
  /\ pc \in [Sockets -> {"none", "receive", "accept", "merge"}]
  /\ peer_table \subseteq Peers
  /\ age \in [Peers -> 0 .. MaxAge]
  /\ sockfd \in [Peers -> Sockets \cup {NoSocket}]
  /\ files \in [Files -> FileEntry]
  /\ mon \in {"select", "remove", "lock", "broadcast"}
  /\ todo \subseteq peer_table
  /\ fault \in {"none", "NULL", "SIGPIPE", "exit"}

\* The descriptor in an entry of the peer table is that of a connection of this very
\* peer, not of one that got the number after it was closed: what is meant for a peer
\* is never written to another.
SocketsAreOwned ==
  \A p \in peer_table : sockfd[p] # NoSocket => owner[sockfd[p]] = p

\* The file table names no peer that remove_dead_peers took out of the peer table, where
\* nothing would remove it any more: the report that handle_filetable_update takes under
\* one mutex is merged under the other.  (If none waits between the two past its peer's
\* deadline, and if the addresses have one length.)
HoldersAreKnown == \A f \in Files : Listed(files[f]) \subseteq peer_table

\* Peers that send nothing any more, whether they ended or were cut off, disappear from
\* both tables (remove_dead_peers), unless the tracker ends first.
DeadAreRemoved ==
  \A p \in Peers :
    proc[p] = "down" ~>
      \/ proc[p] # "down" \/ fault # "none"
      \/ p \notin peer_table /\ \A f \in Files : p \notin Listed(files[f])

Reported(f, v) == \E s \in Sockets : in[s] # <<>> /\ Head(in[s]).filetable[f] = v
Informed(p, f, v) == \E i \in DOMAIN out[home[p]] : out[home[p]][i][f] >= v

\* What one peer reports reaches every peer that is in the peer table with its present
\* connection, in a table with this version or a newer one, unless the tracker ends.
ReportsSpread ==
  \A p \in Peers, f \in Files, v \in 1 .. MaxVersion :
    Reported(f, v) ~>
      \/ proc[p] # "joined" \/ p \notin peer_table \/ sockfd[p] # home[p] \/ fault # "none"
      \/ Informed(p, f, v)
=============================================================================
