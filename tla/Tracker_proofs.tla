---------------------------- MODULE Tracker_proofs ----------------------------
(* Proofs about the tracker, for any number of peers, connections, files and *)
(* restarts: no entry of the peer table points to another peer's connection, *)
(* the types, and that the file table names only peers of the peer table.    *)
EXTENDS Tracker, SequenceTheorems, TLAPS

(* Descriptors. *)

\* A handshake thread runs for a connection that has an owner.
ThreadsHaveOwners == \A s \in Sockets : pc[s] # "none" => owner[s] \in Peers

\* The inductive invariant: SocketsAreOwned, and what keeps a step from spoiling it.
SocketInv ==
  /\ owner \in [Sockets -> Peers \cup {NoPeer}]
  /\ pc \in [Sockets -> {"none", "receive", "accept", "merge"}]
  /\ sockfd \in [Peers -> Sockets \cup {NoSocket}]
  /\ peer_table \subseteq Peers
  /\ ThreadsHaveOwners
  /\ SocketsAreOwned

\* It holds while no thread runs and the table is empty.
LEMMA InitSockets == Init => SocketInv
  BY DEF Init, PeersInit, trc_pr_tb_create, SocketInv, ThreadsHaveOwners, SocketsAreOwned

\* A connection gets a descriptor that had no owner, so that no entry has it.
LEMMA ConnectSockets ==
  ASSUME SocketInv, NEW p \in Peers, Connect(p)
  PROVE  SocketInv'
<1>1. PICK s \in Sockets : ConnectOn(p, s) /\ pc' = [pc EXCEPT ![s] = "receive"]
  BY DEF Connect
<1>2. /\ owner[s] = NoPeer
      /\ owner' = [owner EXCEPT ![s] = p]
      /\ UNCHANGED <<peer_table, sockfd>>
  BY <1>1 DEF ConnectOn, Connect
<1>3. \A q \in peer_table : sockfd[q] # s
  BY <1>2, PeersAssumption DEF SocketInv, SocketsAreOwned
<1>4. SocketsAreOwned'
  BY <1>2, <1>3, PeersAssumption DEF SocketInv, SocketsAreOwned
<1>5. ThreadsHaveOwners'
  BY <1>1, <1>2 DEF SocketInv, ThreadsHaveOwners
<1> QED BY <1>1, <1>2, <1>4, <1>5 DEF SocketInv

\* REGISTER: the entry of the connection's owner gets the connection.
LEMMA RegisterSockets ==
  ASSUME SocketInv, NEW s \in Sockets, HandleRegister(s)
  PROVE  SocketInv'
<1>1. /\ pc[s] = "receive"
      /\ peer_table' = peer_table \cup {owner[s]}
      /\ sockfd' = [sockfd EXCEPT ![owner[s]] = s]
      /\ pc' = [pc EXCEPT ![s] = "accept"]
      /\ owner' = owner
  BY DEF HandleRegister, Received, trc_pr_tb_add_peer
<1>2. owner[s] \in Peers
  BY <1>1 DEF SocketInv, ThreadsHaveOwners
<1>3. SocketsAreOwned'
  BY <1>1, <1>2 DEF SocketInv, SocketsAreOwned
<1>4. ThreadsHaveOwners'
  BY <1>1, <1>2 DEF SocketInv, ThreadsHaveOwners
<1> QED BY <1>1, <1>2, <1>3, <1>4 DEF SocketInv

\* The end of a connection: the one entry that may have it is its owner's.
LEMMA HangupSockets ==
  ASSUME SocketInv, NEW s \in Sockets, Hangup(s)
  PROVE  SocketInv'
<1>1. /\ owner' = [owner EXCEPT ![s] = NoPeer]
      /\ pc' = [pc EXCEPT ![s] = "none"]
      /\ peer_table' = peer_table
  BY DEF Hangup
<1>2. sockfd' \in [Peers -> Sockets \cup {NoSocket}]
      /\ \A q \in peer_table : sockfd'[q] # s
                               /\ (sockfd'[q] # NoSocket => sockfd'[q] = sockfd[q])
  <2>1. CASE \E p \in peer_table : sockfd[p] = s /\ sockfd' = [sockfd EXCEPT ![p] = NoSocket]
    <3>1. PICK p \in peer_table : sockfd[p] = s /\ sockfd' = [sockfd EXCEPT ![p] = NoSocket]
      BY <2>1
    <3>2. \A q \in peer_table : sockfd[q] = s => q = p
      BY <3>1, PeersAssumption DEF SocketInv, SocketsAreOwned
    <3> QED BY <3>1, <3>2, PeersAssumption DEF SocketInv
  <2>2. CASE (\A p \in peer_table : sockfd[p] # s) /\ sockfd' = sockfd
    BY <2>2 DEF SocketInv
  <2> QED BY <2>1, <2>2 DEF Hangup, trc_pr_tb_find_peer_by_sockfd
<1>3. SocketsAreOwned'
  BY <1>1, <1>2 DEF SocketInv, SocketsAreOwned
<1>4. ThreadsHaveOwners'
  BY <1>1 DEF SocketInv, ThreadsHaveOwners
<1> QED BY <1>1, <1>2, <1>3, <1>4 DEF SocketInv

\* remove_dead_peers drops entries and changes no other.
LEMMA RemoveEntrySockets ==
  ASSUME SocketInv, NEW p \in Peers, RemoveEntry(p)
  PROVE  SocketInv'
  BY DEF SocketInv, ThreadsHaveOwners, SocketsAreOwned, RemoveEntry, peerVars, connVars

\* A thread that runs goes on to another place.
LEMMA ThreadSockets ==
  ASSUME SocketInv, NEW s \in Sockets, pc[s] # "none",
         NEW place \in {"receive", "accept", "merge"}, pc' = [pc EXCEPT ![s] = place],
         UNCHANGED <<owner, peer_table, sockfd>>
  PROVE  SocketInv'
  BY DEF SocketInv, ThreadsHaveOwners, SocketsAreOwned

\* All other steps leave the four variables as they are.
LEMMA OtherSockets ==
  ASSUME SocketInv, UNCHANGED <<owner, pc, peer_table, sockfd>>
  PROVE  SocketInv'
  BY DEF SocketInv, ThreadsHaveOwners, SocketsAreOwned

LEMMA PeerSockets ==
  ASSUME SocketInv, NEW p \in Peers, PeerStep(p)
  PROVE  SocketInv'
<1>1. UNCHANGED owner
  BY DEF PeerStep, Accepted, ReceiveTable, sendTracker, Exit, Vanish, Gone, Closed, procVars
<1>2. UNCHANGED <<pc, peer_table, sockfd>>
  BY DEF PeerStep, trackerVars
<1> QED BY <1>1, <1>2, OtherSockets

LEMMA NextSockets == SocketInv /\ [Next]_vars => SocketInv'
<1> SUFFICES ASSUME SocketInv, [Next]_vars PROVE SocketInv'
  OBVIOUS
<1>1. CASE \E p \in Peers : Connect(p) \/ PeerStep(p)
  BY <1>1, ConnectSockets, PeerSockets
<1>2. ASSUME NEW s \in Sockets, Handshake(s) PROVE SocketInv'
  <2>1. CASE HandleRegister(s) \/ Hangup(s)
    BY <2>1, RegisterSockets, HangupSockets
  <2>2. CASE SendAccept(s)
    BY <2>2, ThreadSockets DEF SendAccept
  <2>3. CASE HandleFileTableUpdate(s)
    BY <2>3, ThreadSockets DEF HandleFileTableUpdate, Received, peerVars, connVars
  <2>4. CASE MergeFileTable(s)
    BY <2>4, ThreadSockets DEF MergeFileTable
  <2> QED BY <1>2, <2>1, <2>2, <2>3, <2>4 DEF Handshake
<1>3. ASSUME NEW s \in Sockets, ConnectionTimesOut(s) PROVE SocketInv'
  BY <1>3, OtherSockets DEF ConnectionTimesOut, TimedOut, trackerVars
<1>4. CASE Monitor
  <2>1. CASE \E p \in Peers : RemoveDead(p)
    BY <2>1, RemoveEntrySockets DEF RemoveDead
  <2>2. CASE \/ ReadHeartbeats \/ EndRemove \/ StartBroadcast \/ EndBroadcast
             \/ \E p \in Peers : BroadcastTo(p)
    BY <2>2, OtherSockets
    DEF ReadHeartbeats, EndRemove, StartBroadcast, EndBroadcast, BroadcastTo, peerVars, connVars
  <2> QED BY <1>4, <2>1, <2>2 DEF Monitor
<1>5. CASE Tick
  BY <1>5, OtherSockets DEF Tick, peerVars, connVars
<1>6. CASE tracker_stop
  BY <1>6 DEF tracker_stop, trc_pr_tb_destroy, peerVars, connVars, SocketInv, ThreadsHaveOwners, SocketsAreOwned
<1>7. CASE UNCHANGED vars
  BY <1>7, OtherSockets DEF vars, peerVars, connVars, trackerVars
<1> QED BY <1>1, <1>2, <1>3, <1>4, <1>5, <1>6, <1>7 DEF Next

\* What the tracker writes for a peer goes to that peer, whatever descriptors are
\* closed and given out again in between.
THEOREM DescriptorsAreOwned == Spec => []SocketsAreOwned
<1>1. Spec => []SocketInv
  BY InitSockets, NextSockets, PTL DEF Spec
<1>2. SocketInv => SocketsAreOwned
  BY DEF SocketInv
<1> QED BY <1>1, <1>2, PTL

(* Entries of the file table. *)

LEMMA SlotZero == 0 \in Slot /\ 1 \in Slot
  BY FileTableAssumption DEF Slot

LEMMA CopiedType ==
  ASSUME NEW dst \in IP, NEW ip \in IP
  PROVE  Copied(dst, ip) \in IP
  BY DEF Copied, IP

LEMMA NoFileType == NoFile \in FileEntry
  BY FileTableAssumption DEF NoFile, FileEntry, IP

LEMMA MergeFileType ==
  ASSUME NEW file \in FileEntry, NEW v \in Nat, NEW ip \in Peers
  PROVE  MergeFile(file, v, ip) \in FileEntry
<1>1. ip \in IP /\ Garbled \in IP /\ NoIP \in IP /\ 1 \in 0 .. MAX_PEER_NUM
  BY FileTableAssumption DEF IP
<1>2. file.peerIP \in [Slot -> IP] /\ file.latest \in Nat /\ file.peerNum \in 0 .. MAX_PEER_NUM
  BY DEF FileEntry
<1>3. AddFile(v, ip) \in FileEntry
  BY <1>1 DEF AddFile, FileEntry
<1>4. NewVersion(file, v, ip) \in FileEntry
  <2>1. Cleared(file) \in [Slot -> IP]
    BY <1>1, <1>2 DEF Cleared
  <2>2. Copied(Cleared(file)[0], ip) \in IP
    BY <1>1, <2>1, SlotZero, CopiedType
  <2> QED BY <1>1, <2>1, <2>2 DEF NewVersion, FileEntry
<1>5. SameVersion(file, ip) \in FileEntry
  <2>1. CASE file.peerNum \in Slot
    <3>1. Copied(file.peerIP[file.peerNum], ip) \in IP
      BY <1>1, <1>2, <2>1, CopiedType
    <3> QED BY <2>1, <3>1 DEF SameVersion, FileEntry
  <2>2. CASE file.peerNum \notin Slot
    <3>1. [file EXCEPT !.peerIP = [file.peerIP EXCEPT ![file.peerNum] = Copied(file.peerIP[file.peerNum], ip)]] \in FileEntry
      BY <1>2, <2>2 DEF FileEntry
    <3> QED BY <3>1 DEF SameVersion
  <2> QED BY <2>1, <2>2
<1> QED BY <1>3, <1>4, <1>5 DEF MergeFile

\* Its version is the reported one, or the old one.
LEMMA MergeFileVersion ==
  ASSUME NEW file \in FileEntry, NEW v, NEW ip
  PROVE  MergeFile(file, v, ip).latest \in {v, file.latest}
  BY DEF MergeFile, AddFile, NewVersion, SameVersion, FileEntry

LEMMA RemoveType ==
  ASSUME NEW file \in FileEntry, NEW ip
  PROVE  /\ filetable_remove_peerIP(file, ip) \in FileEntry
         /\ filetable_remove_peerIP(file, ip).latest = file.latest
<1> DEFINE held == {i \in 0 .. file.peerNum - 1 : file.peerIP[i] = ip}
           i == CHOOSE i \in held : \A j \in held : j <= i
           last == file.peerNum - 1
<1>1. file.peerIP \in [Slot -> IP] /\ file.peerNum \in 0 .. MAX_PEER_NUM
  BY DEF FileEntry
<1>2. CASE held # {}
  <2>1. last \in Slot /\ last \in 0 .. MAX_PEER_NUM
    BY <1>1, <1>2, FileTableAssumption DEF Slot
  <2>2. file.peerIP[last] \in IP /\ NoIP \in IP
    BY <1>1, <2>1 DEF IP
  <2>3. i \in Slot => Copied(file.peerIP[i], file.peerIP[last]) \in IP
    BY <1>1, <2>2, CopiedType
  <2> HIDE DEF i, last
  <2> DEFINE ips == [file.peerIP EXCEPT ![i] = Copied(file.peerIP[i], file.peerIP[last]),
                                        ![last] = NoIP]
  <2>4. ips \in [Slot -> IP]
    BY <1>1, <2>1, <2>2, <2>3
  <2> HIDE DEF ips
  <2>5. [file EXCEPT !.peerNum = last, !.peerIP = ips] \in FileEntry
    BY <2>1, <2>4 DEF FileEntry
  <2>6. RemoveAt(file, i) = [file EXCEPT !.peerNum = last, !.peerIP = ips]
    BY DEF RemoveAt, ips, last
  <2>7. filetable_remove_peerIP(file, ip) = RemoveAt(file, i)
    BY <1>2 DEF filetable_remove_peerIP, i
  <2>8. [file EXCEPT !.peerNum = last, !.peerIP = ips].latest = file.latest
    BY DEF FileEntry
  <2> QED BY <2>5, <2>6, <2>7, <2>8
<1>3. CASE held = {}
  BY <1>3 DEF filetable_remove_peerIP
<1> QED BY <1>2, <1>3

(* Types. *)

\* A process that runs has a connection.
ProcessesHaveHomes == \A p \in Peers : proc[p] # "down" => home[p] \in Sockets

\* The report that a thread is about to merge is still there.
MergesHaveReports == \A s \in Sockets : pc[s] = "merge" => in[s] # <<>>

\* The broadcast writes to connections.
BroadcastsHaveSockets == mon = "broadcast" => \A p \in todo : sockfd[p] # NoSocket

\* The versions in the file table are versions that peers report.
VersionsAreReported == \A f \in Files : files[f].latest \in Version

PeersInv == PeersTypeOK /\ ProcessesHaveHomes /\ MergesHaveReports
TablesType ==
  /\ age \in [Peers -> 0 .. MaxAge]
  /\ files \in [Files -> FileEntry] /\ VersionsAreReported
  /\ mon \in {"select", "remove", "lock", "broadcast"}
  /\ todo \subseteq peer_table
  /\ fault \in {"none", "NULL", "SIGPIPE", "exit"}
  /\ BroadcastsHaveSockets

\* The inductive invariant, with SocketInv.
TypeInv == SocketInv /\ PeersInv /\ TablesType

LEMMA TypeInvTypes == TypeInv => TypeOK
  BY DEF TypeInv, SocketInv, PeersInv, TablesType, TypeOK

LEMMA RegisterType == Register \in Segment
  BY DEF Register, Segment

LEMMA MaxAgeType == MaxAge \in Nat /\ 0 \in 0 .. MaxAge
  BY TrackerAssumption DEF MaxAge

LEMMA InitTypes == Init => TypeInv
<1> SUFFICES ASSUME Init PROVE TypeInv
  OBVIOUS
<1>1. PeersInv
  <2>1. <<>> \in Seq(Segment) /\ <<>> \in Seq(Table)
    BY EmptySeq
  <2> QED BY <2>1 DEF Init, PeersInit, PeersInv, PeersTypeOK, ProcessesHaveHomes, MergesHaveReports
<1>2. TablesType
  <2>1. NoFile.latest \in Version
    BY PeersAssumption DEF NoFile, Version
  <2> QED BY <2>1, MaxAgeType, NoFileType DEF Init, TablesType, BroadcastsHaveSockets,
             VersionsAreReported
<1> QED BY <1>1, <1>2, InitSockets DEF TypeInv

\* Steps that leave the peers' side and the threads as they are.
LEMMA SamePeers ==
  ASSUME PeersInv, UNCHANGED <<peerVars, pc>>
  PROVE  PeersInv'
  BY DEF PeersInv, PeersTypeOK, ProcessesHaveHomes, MergesHaveReports, peerVars, procVars, connVars

LEMMA SameTables ==
  ASSUME TablesType, UNCHANGED <<peer_table, age, sockfd, files, mon, todo, fault>>
  PROVE  TablesType'
  BY DEF TablesType, BroadcastsHaveSockets, VersionsAreReported

(* The peers. *)

LEMMA TailType ==
  ASSUME NEW S, NEW q \in Seq(S), q # <<>>
  PROVE  Head(q) \in S /\ Tail(q) \in Seq(S)
  BY HeadTailProperties

LEMMA ConnectPeers ==
  ASSUME PeersInv, ThreadsHaveOwners, NEW p \in Peers, Connect(p)
  PROVE  PeersInv'
<1>1. PICK s \in Sockets : ConnectOn(p, s) /\ pc' = [pc EXCEPT ![s] = "receive"]
  BY DEF Connect
<1>2. <<Register>> \in Seq(Segment) /\ <<>> \in Seq(Table)
  BY RegisterType
<1>3. pc[s] = "none"
  BY <1>1, PeersAssumption DEF ConnectOn, ThreadsHaveOwners
<1>4. PeersTypeOK'
  <2>1. proc' \in [Peers -> {"down", "registering", "joined"}] /\ boots' \in [Peers -> Nat]
    BY <1>1 DEF ConnectOn, PeersInv, PeersTypeOK
  <2>2. home' \in [Peers -> Sockets \cup {NoSocket}] /\ late' \subseteq Peers
    BY <1>1 DEF ConnectOn, PeersInv, PeersTypeOK
  <2>3. owner' \in [Sockets -> Peers \cup {NoPeer}] /\ open' \in [Sockets -> BOOLEAN]
    BY <1>1 DEF ConnectOn, PeersInv, PeersTypeOK
  <2>4. in' \in [Sockets -> Seq(Segment)] /\ out' \in [Sockets -> Seq(Table)]
    BY <1>1, <1>2 DEF ConnectOn, PeersInv, PeersTypeOK
  <2> QED BY <2>1, <2>2, <2>3, <2>4 DEF PeersTypeOK
<1>5. ProcessesHaveHomes'
  BY <1>1 DEF ConnectOn, PeersInv, PeersTypeOK, ProcessesHaveHomes
<1>6. MergesHaveReports'
  <2> SUFFICES ASSUME NEW r \in Sockets, pc'[r] = "merge" PROVE in'[r] # <<>>
    BY DEF MergesHaveReports
  <2>1. r # s
    BY <1>1, <1>3
  <2>2. in'[r] = in[r] /\ (pc'[r] = "merge" => pc[r] = "merge")
    BY <1>1, <2>1 DEF ConnectOn, PeersInv, PeersTypeOK
  <2> QED BY <2>2 DEF PeersInv, MergesHaveReports
<1> QED BY <1>4, <1>5, <1>6 DEF PeersInv

\* The process of p reads a table.
LEMMA ReadsPeers ==
  ASSUME PeersInv, NEW p \in Peers, Reads(p)
  PROVE  PeersInv'
<1>1. home[p] \in Sockets /\ out[home[p]] # <<>>
  BY DEF Reads, Accepted, ReceiveTable, PeersInv, ProcessesHaveHomes
<1>2. Tail(out[home[p]]) \in Seq(Table)
  BY <1>1, TailType DEF PeersInv, PeersTypeOK
<1>3. out' = [out EXCEPT ![home[p]] = Tail(out[home[p]])]
  BY DEF Reads, Accepted, ReceiveTable
<1>4. out' \in [Sockets -> Seq(Table)]
  BY <1>1, <1>2, <1>3 DEF PeersInv, PeersTypeOK
<1>5. /\ proc' = proc \/ (proc[p] = "registering" /\ proc' = [proc EXCEPT ![p] = "joined"])
      /\ UNCHANGED <<home, late, boots, owner, open, in, pc>>
  BY DEF Reads, Accepted, ReceiveTable, procVars, trackerVars
<1> QED BY <1>4, <1>5 DEF PeersInv, PeersTypeOK, ProcessesHaveHomes, MergesHaveReports

LEMMA ReportPeers ==
  ASSUME PeersInv, NEW p \in Peers, sendTracker(p), pc' = pc
  PROVE  PeersInv'
<1>1. PICK t \in Table : in' = [in EXCEPT ![home[p]] = Append(@, FileTableUpdate(t))]
  BY DEF sendTracker
<1>2. home[p] \in Sockets /\ in[home[p]] \in Seq(Segment)
  BY DEF sendTracker, PeersInv, PeersTypeOK, ProcessesHaveHomes
<1>3. FileTableUpdate(t) \in Segment
  BY DEF Segment
<1>4. /\ Append(in[home[p]], FileTableUpdate(t)) \in Seq(Segment)
      /\ Append(in[home[p]], FileTableUpdate(t)) # <<>>
  BY <1>2, <1>3, AppendProperties
<1>5. /\ in' \in [Sockets -> Seq(Segment)]
      /\ \A s \in Sockets : in'[s] = in[s] \/ in'[s] # <<>>
  BY <1>1, <1>4 DEF PeersInv, PeersTypeOK
<1>6. UNCHANGED <<proc, home, late, boots, owner, open, out>>
  BY DEF sendTracker, procVars
<1> QED BY <1>5, <1>6 DEF PeersInv, PeersTypeOK, ProcessesHaveHomes, MergesHaveReports

\* The other end of a connection is closed.
LEMMA ClosedType ==
  ASSUME PeersTypeOK, NEW s, Closed(s)
  PROVE  open' \in [Sockets -> BOOLEAN] /\ out' \in [Sockets -> Seq(Table)]
<1>1. <<>> \in Seq(Table)
  BY EmptySeq
<1> QED BY <1>1 DEF PeersTypeOK, Closed

LEMMA GonePeers ==
  ASSUME PeersInv, NEW p \in Peers, Gone(p), pc' = pc,
         open' \in [Sockets -> BOOLEAN], out' \in [Sockets -> Seq(Table)]
  PROVE  PeersInv'
<1>1. /\ proc' = [proc EXCEPT ![p] = "down"]
      /\ home' = [home EXCEPT ![p] = NoSocket]
      /\ late' = late \/ late' = late \cup {p}
      /\ UNCHANGED <<boots, owner, in>>
  BY DEF Gone
<1>2. PeersTypeOK'
  BY <1>1 DEF PeersInv, PeersTypeOK
<1>3. ProcessesHaveHomes' /\ MergesHaveReports'
  BY <1>1 DEF PeersInv, PeersTypeOK, ProcessesHaveHomes, MergesHaveReports
<1> QED BY <1>2, <1>3 DEF PeersInv

LEMMA PeerStepPeers ==
  ASSUME PeersInv, NEW p \in Peers, PeerStep(p)
  PROVE  PeersInv'
<1>1. UNCHANGED trackerVars /\ pc' = pc
  BY DEF PeerStep, trackerVars
<1>2. CASE Accepted(p) \/ ReceiveTable(p)
  BY <1>1, <1>2, ReadsPeers DEF Reads
<1>3. CASE sendTracker(p)
  BY <1>1, <1>3, ReportPeers
<1>4. CASE Exit(p)
  BY <1>1, <1>4, ClosedType, GonePeers DEF Exit, PeersInv
<1>5. CASE Vanish(p)
  BY <1>1, <1>5, GonePeers DEF Vanish, PeersInv, PeersTypeOK
<1> QED BY <1>2, <1>3, <1>4, <1>5 DEF PeerStep

LEMMA TimesOutPeers ==
  ASSUME PeersInv, NEW s \in Sockets, ConnectionTimesOut(s)
  PROVE  PeersInv'
<1>1. Closed(s) /\ UNCHANGED <<proc, home, late, boots, owner, in, pc>>
  BY DEF ConnectionTimesOut, TimedOut, procVars, trackerVars
<1>2. open' \in [Sockets -> BOOLEAN] /\ out' \in [Sockets -> Seq(Table)]
  BY <1>1, ClosedType DEF PeersInv
<1> QED BY <1>1, <1>2 DEF PeersInv, PeersTypeOK, ProcessesHaveHomes, MergesHaveReports

(* The handshake threads. *)

\* A thread has consumed a segment, written a table, or found the end of the stream.
LEMMA ConsumePeers ==
  ASSUME SocketInv, PeersInv, NEW s \in Sockets, in[s] # <<>>, Consume(s),
         NEW place \in {"receive", "accept"}, pc' = [pc EXCEPT ![s] = place],
         UNCHANGED <<procVars, owner, open, out>>
  PROVE  PeersInv'
<1>1. Tail(in[s]) \in Seq(Segment)
  BY TailType DEF PeersInv, PeersTypeOK
<1>2. /\ in' \in [Sockets -> Seq(Segment)]
      /\ \A r \in Sockets : r # s => in'[r] = in[r]
  BY <1>1 DEF Consume, PeersInv, PeersTypeOK
<1>3. \A r \in Sockets : pc'[r] = "merge" => r # s /\ pc[r] = "merge"
  BY DEF SocketInv
<1> QED BY <1>2, <1>3 DEF PeersInv, PeersTypeOK, ProcessesHaveHomes, MergesHaveReports, procVars

LEMMA SendTableType ==
  ASSUME PeersTypeOK, NEW s \in Sockets, NEW t \in Table, SendTable(s, t)
  PROVE  out' \in [Sockets -> Seq(Table)] /\ fault' \in {fault, "SIGPIPE"}
<1>1. CASE out' = [out EXCEPT ![s] = Append(@, t)]
  <2>1. Append(out[s], t) \in Seq(Table)
    BY AppendProperties DEF PeersTypeOK
  <2> QED BY <1>1, <2>1 DEF PeersTypeOK, SendTable
<1>2. CASE out' = out
  BY <1>2 DEF PeersTypeOK, SendTable
<1> QED BY <1>1, <1>2 DEF SendTable

LEMMA HandshakePeers ==
  ASSUME SocketInv, PeersInv, NEW s \in Sockets, Handshake(s)
  PROVE  PeersInv'
<1>1. CASE HandleRegister(s)
  BY <1>1, ConsumePeers DEF HandleRegister, Received
<1>2. CASE SendAccept(s)
  <2>1. NoTable \in Table
    BY PeersAssumption DEF NoTable, Table, Version
  <2>2. out' \in [Sockets -> Seq(Table)]
    BY <1>2, <2>1, SendTableType DEF SendAccept, PeersInv
  <2>3. \A r \in Sockets : pc'[r] = "merge" => pc[r] = "merge"
    BY <1>2 DEF SendAccept
  <2>4. UNCHANGED <<procVars, owner, open, in>>
    BY <1>2 DEF SendAccept
  <2> QED BY <2>2, <2>3, <2>4 DEF PeersInv, PeersTypeOK, ProcessesHaveHomes, MergesHaveReports,
             procVars
<1>3. CASE HandleFileTableUpdate(s)
  <2>1. \A r \in Sockets : pc'[r] = "merge" => pc[r] = "merge" \/ in[r] # <<>>
    BY <1>3 DEF HandleFileTableUpdate, Received
  <2>2. UNCHANGED peerVars
    BY <1>3 DEF HandleFileTableUpdate
  <2> QED BY <2>1, <2>2 DEF PeersInv, PeersTypeOK, ProcessesHaveHomes, MergesHaveReports,
             peerVars, procVars, connVars
<1>4. CASE MergeFileTable(s)
  BY <1>4, ConsumePeers DEF MergeFileTable, PeersInv, MergesHaveReports
<1>5. CASE Hangup(s)
  <2>1. \A r \in Sockets : pc'[r] = "merge" => pc[r] = "merge"
    BY <1>5 DEF Hangup
  <2>2. UNCHANGED <<procVars, open, in, out>> /\ owner' = [owner EXCEPT ![s] = NoPeer]
    BY <1>5 DEF Hangup
  <2> QED BY <2>1, <2>2 DEF PeersInv, PeersTypeOK, ProcessesHaveHomes, MergesHaveReports, procVars
<1> QED BY <1>1, <1>2, <1>3, <1>4, <1>5 DEF Handshake

\* What a segment reports.
LEMMA ReportType ==
  ASSUME PeersInv, NEW s \in Sockets, in[s] # <<>>
  PROVE  Head(in[s]).filetable \in Table
<1>1. Head(in[s]) \in Segment
  BY TailType DEF PeersInv, PeersTypeOK
<1> QED BY <1>1, PeersAssumption DEF Segment, Register, FileTableUpdate, NoTable, Table, Version

LEMMA HandshakeTables ==
  ASSUME TypeInv, NEW s \in Sockets, Handshake(s)
  PROVE  TablesType'
<1> USE DEF TypeInv
<1>1. CASE HandleRegister(s)
  <2>1. owner[s] \in Peers /\ mon # "broadcast"
    BY <1>1 DEF HandleRegister, Received, PeerTableFree, SocketInv, ThreadsHaveOwners
  <2>2. age' \in [Peers -> 0 .. MaxAge] /\ peer_table \subseteq peer_table'
    BY <1>1, <2>1, MaxAgeType DEF HandleRegister, trc_pr_tb_add_peer, TablesType
  <2> QED BY <1>1, <2>1, <2>2 DEF HandleRegister, TablesType, BroadcastsHaveSockets, VersionsAreReported
<1>2. CASE SendAccept(s)
  <2>1. NoTable \in Table
    BY PeersAssumption DEF NoTable, Table, Version
  <2>2. fault' \in {fault, "SIGPIPE"}
    BY <1>2, <2>1, SendTableType DEF SendAccept, PeersInv
  <2> QED BY <1>2, <2>2 DEF SendAccept, TablesType, BroadcastsHaveSockets, VersionsAreReported
<1>3. CASE HandleFileTableUpdate(s)
  <2>1. owner[s] \in Peers
    BY <1>3 DEF HandleFileTableUpdate, Received, SocketInv, ThreadsHaveOwners
  <2>2. age' \in [Peers -> 0 .. MaxAge] /\ fault' \in {fault, "NULL"}
    BY <1>3, <2>1, MaxAgeType
    DEF HandleFileTableUpdate, trc_pr_tb_update_alive_timestamp, TablesType
  <2> QED BY <1>3, <2>2 DEF HandleFileTableUpdate, TablesType, BroadcastsHaveSockets,
             VersionsAreReported
<1>4. CASE MergeFileTable(s)
  <2>1. in[s] # <<>> /\ owner[s] \in Peers
    BY <1>4 DEF MergeFileTable, PeersInv, MergesHaveReports, SocketInv, ThreadsHaveOwners
  <2>3. Head(in[s]).filetable \in Table
    BY <2>1, ReportType
  <2>4. \A f \in Files : Head(in[s]).filetable[f] \in Version
    BY <2>3 DEF Table
  <2>5. Version \subseteq Nat
    BY PeersAssumption DEF Version
  <2>6. files' = [f \in Files |-> MergeFile(files[f], Head(in[s]).filetable[f], owner[s])]
    BY <1>4 DEF MergeFileTable
  <2>7. ASSUME NEW f \in Files
        PROVE  files'[f] \in FileEntry /\ files'[f].latest \in Version
    <3> DEFINE v == Head(in[s]).filetable[f]
    <3>1. v \in Version /\ v \in Nat /\ files[f] \in FileEntry /\ files[f].latest \in Version
      BY <2>4, <2>5 DEF TablesType, VersionsAreReported
    <3> HIDE DEF v
    <3>2. files'[f] = MergeFile(files[f], v, owner[s])
      BY <2>6 DEF v
    <3> QED BY <2>1, <3>1, <3>2, MergeFileType, MergeFileVersion
  <2>8. files' \in [Files -> FileEntry] /\ VersionsAreReported'
    BY <2>6, <2>7 DEF VersionsAreReported
  <2> QED BY <1>4, <2>8 DEF MergeFileTable, TablesType, BroadcastsHaveSockets
<1>5. CASE Hangup(s)
  <2>1. mon # "broadcast" /\ fault' \in {fault, "NULL"}
    BY <1>5 DEF Hangup, PeerTableFree
  <2> QED BY <1>5, <2>1 DEF Hangup, TablesType, BroadcastsHaveSockets, VersionsAreReported
<1> QED BY <1>1, <1>2, <1>3, <1>4, <1>5 DEF Handshake

(* The monitor thread, and time. *)

LEMMA MonitorTypes ==
  ASSUME TypeInv, Monitor
  PROVE  PeersInv' /\ TablesType'
<1> USE DEF TypeInv
<1>1. CASE ReadHeartbeats
  <2>1. age' \in [Peers -> 0 .. MaxAge]
    BY <1>1, MaxAgeType DEF ReadHeartbeats, TablesType
  <2>2. todo' \subseteq peer_table /\ fault' \in {fault, "NULL"}
    BY <1>1 DEF ReadHeartbeats, Dead, TablesType
  <2>3. TablesType'
    BY <1>1, <2>1, <2>2 DEF ReadHeartbeats, TablesType, BroadcastsHaveSockets,
         VersionsAreReported
  <2>4. PeersInv'
    BY <1>1 DEF ReadHeartbeats, connVars, PeersInv, PeersTypeOK, ProcessesHaveHomes,
                MergesHaveReports
  <2> QED BY <2>3, <2>4
<1>2. CASE \E p \in Peers : RemoveDead(p)
  <2>1. PICK p \in Peers : RemoveDead(p)
    BY <1>2
  <2>2. files' \in [Files -> FileEntry] /\ VersionsAreReported'
    BY <2>1, RemoveType DEF RemoveDead, TablesType, VersionsAreReported
  <2>3. age' \in [Peers -> 0 .. MaxAge]
    BY <2>1, MaxAgeType DEF RemoveDead, RemoveEntry, TablesType
  <2>4. todo' \subseteq peer_table' /\ mon' = "remove" /\ UNCHANGED <<peerVars, pc, fault>>
    BY <2>1 DEF RemoveDead, RemoveEntry, TablesType
  <2> QED BY <2>2, <2>3, <2>4, SamePeers DEF TablesType, BroadcastsHaveSockets
<1>3. CASE StartBroadcast \/ EndRemove \/ EndBroadcast
  <2>1. UNCHANGED <<peerVars, pc, peer_table, age, sockfd, files, fault>>
    BY <1>3 DEF StartBroadcast, EndRemove, EndBroadcast
  <2>2. /\ mon' \in {"select", "lock", "broadcast"} /\ todo' \subseteq peer_table
        /\ BroadcastsHaveSockets'
    BY <1>3 DEF StartBroadcast, EndRemove, EndBroadcast, BroadcastsHaveSockets, TablesType
  <2> QED BY <2>1, <2>2, SamePeers DEF TablesType, VersionsAreReported
<1>4. CASE \E p \in Peers : BroadcastTo(p)
  <2>1. PICK p \in Peers : BroadcastTo(p)
    BY <1>4
  <2>2. sockfd[p] \in Sockets
    BY <2>1 DEF BroadcastTo, TablesType, BroadcastsHaveSockets, SocketInv
  <2> DEFINE t == [f \in Files |-> files[f].latest]
  <2>3. SendTable(sockfd[p], t)
    BY <2>1 DEF BroadcastTo
  <2>4. t \in Table
    BY DEF Table, TablesType, VersionsAreReported
  <2> HIDE DEF t
  <2>5. out' \in [Sockets -> Seq(Table)] /\ fault' \in {fault, "SIGPIPE"}
    BY <2>2, <2>3, <2>4, SendTableType DEF PeersInv
  <2>6. /\ todo' = todo \ {p}
        /\ UNCHANGED <<procVars, owner, open, in, pc, peer_table, age, sockfd, files, mon>>
    BY <2>1 DEF BroadcastTo
  <2>7. PeersInv'
    BY <2>5, <2>6 DEF PeersInv, PeersTypeOK, ProcessesHaveHomes, MergesHaveReports, procVars
  <2>8. TablesType'
    BY <2>5, <2>6 DEF TablesType, BroadcastsHaveSockets, VersionsAreReported
  <2> QED BY <2>7, <2>8
<1>5. PeersInv' /\ TablesType'
  BY <1>1, <1>2, <1>3, <1>4 DEF Monitor
<1> QED BY <1>5

\* Time makes no entry older than MaxAge.
LEMMA TickTypes ==
  ASSUME TypeInv, Tick
  PROVE  PeersInv' /\ TablesType'
<1>1. age' \in [Peers -> 0 .. MaxAge]
  BY MaxAgeType DEF Tick, TypeInv, TablesType
<1>2. UNCHANGED <<peerVars, pc, peer_table, sockfd, files, mon, todo, fault>>
  BY DEF Tick
<1> QED BY <1>1, <1>2, SamePeers DEF TypeInv, TablesType, BroadcastsHaveSockets, VersionsAreReported

LEMMA StopTypes ==
  ASSUME TypeInv, tracker_stop
  PROVE  PeersInv' /\ TablesType'
<1>1. NoFile.latest \in Version
  BY PeersAssumption DEF NoFile, Version
<1>2. TablesType'
  BY <1>1, NoFileType, MaxAgeType
  DEF tracker_stop, trc_pr_tb_destroy, filetable_destroy, TablesType, BroadcastsHaveSockets,
      VersionsAreReported
<1>3. \A s \in Sockets : pc'[s] # "merge"
  BY DEF tracker_stop
<1>4. UNCHANGED peerVars
  BY DEF tracker_stop
<1> QED BY <1>2, <1>3, <1>4 DEF TypeInv, PeersInv, PeersTypeOK, ProcessesHaveHomes,
           MergesHaveReports, peerVars, procVars, connVars

LEMMA NextTypes == TypeInv /\ [Next]_vars => TypeInv'
<1> SUFFICES ASSUME TypeInv, [Next]_vars PROVE PeersInv' /\ TablesType'
  BY NextSockets DEF TypeInv
<1>1. ASSUME NEW p \in Peers, Connect(p) PROVE PeersInv' /\ TablesType'
  <2>1. UNCHANGED <<peer_table, age, sockfd, files, mon, todo, fault>>
    BY <1>1 DEF Connect
  <2> QED BY <1>1, <2>1, ConnectPeers, SameTables DEF TypeInv, SocketInv
<1>2. ASSUME NEW p \in Peers, PeerStep(p) PROVE PeersInv' /\ TablesType'
  <2>1. UNCHANGED <<peer_table, age, sockfd, files, mon, todo, fault>>
    BY <1>2 DEF PeerStep, trackerVars
  <2> QED BY <1>2, <2>1, PeerStepPeers, SameTables DEF TypeInv
<1>3. ASSUME NEW s \in Sockets, Handshake(s) PROVE PeersInv' /\ TablesType'
  BY <1>3, HandshakePeers, HandshakeTables DEF TypeInv
<1>4. ASSUME NEW s \in Sockets, ConnectionTimesOut(s) PROVE PeersInv' /\ TablesType'
  <2>1. UNCHANGED <<peer_table, age, sockfd, files, mon, todo, fault>>
    BY <1>4 DEF ConnectionTimesOut, trackerVars
  <2> QED BY <1>4, <2>1, TimesOutPeers, SameTables DEF TypeInv
<1>5. CASE UNCHANGED vars
  BY <1>5, SamePeers, SameTables DEF TypeInv, vars, trackerVars
<1> QED BY <1>1, <1>2, <1>3, <1>4, <1>5, MonitorTypes, TickTypes, StopTypes DEF Next

\* Every variable of the tracker and of its peers keeps its type: the versions the tracker
\* sends are versions that peers report, and it sends them on connections.
THEOREM TypeCorrect == Spec => []TypeOK
<1>1. Spec => []TypeInv
  BY InitTypes, NextTypes, PTL DEF Spec
<1> QED BY <1>1, TypeInvTypes, PTL

(* Holders. *)

\* The addresses have one length, so that none leaves its end behind another.
OneLength == \A p, q \in Peers : IpLen[p] = IpLen[q]

\* An entry names one holder at most, in slot 0, and slot 0 is not garbled.
OneHolder(file) == file.peerNum \in {0, 1} /\ file.peerIP[0] \in Peers \cup {NoIP}

\* A report that waits for file_table_mutex is that of a peer that is not overdue.
MergersAreKnown ==
  \A s \in Sockets :
    pc[s] = "merge" => owner[s] \in peer_table /\ age[owner[s]] <= PEER_ALIVE_INTERVAL + 1

\* What is removed is overdue.
RemovedAreOverdue ==
  mon = "remove" => \A p \in todo : age[p] > PEER_ALIVE_INTERVAL + 1

\* The inductive invariant, with TypeInv.
HolderInv ==
  /\ \A f \in Files : OneHolder(files[f])
  /\ HoldersAreKnown
  /\ fault = "none" => MergersAreKnown /\ RemovedAreOverdue

\* What an entry with one holder at most names.
LEMMA ListedOne ==
  ASSUME NEW file, OneHolder(file)
  PROVE  Listed(file) = IF file.peerNum = 1 THEN {file.peerIP[0]} ELSE {}
<1>1. \A i : i \in 0 .. file.peerNum - 1 <=> file.peerNum = 1 /\ i = 0
  BY DEF OneHolder
<1> QED BY <1>1 DEF Listed

LEMMA CopiedOneLength ==
  ASSUME OneLength, NEW dst \in Peers \cup {NoIP}, NEW ip \in Peers
  PROVE  Copied(dst, ip) = ip
<1>1. dst \in Peers => IpLen[dst] <= IpLen[ip]
  BY FileTableAssumption DEF OneLength
<1> QED BY <1>1 DEF Copied

\* A merge adds no holder but the reporter.
LEMMA MergeHolders ==
  ASSUME OneLength, NEW file \in FileEntry, OneHolder(file), NEW v \in Nat, NEW ip \in Peers
  PROVE  /\ OneHolder(MergeFile(file, v, ip))
         /\ Listed(MergeFile(file, v, ip)) \subseteq Listed(file) \cup {ip}
<1> DEFINE new == MergeFile(file, v, ip)
<1>1. file.peerIP \in [Slot -> IP] /\ file.peerNum \in {0, 1} /\ file.peerIP[0] \in Peers \cup {NoIP}
  BY DEF FileEntry, OneHolder
<1>2. CASE new = file
  BY <1>2
<1>3. CASE new = AddFile(v, ip)
  <2>1. new.peerNum = 1 /\ new.peerIP[0] = ip
    BY <1>3, SlotZero DEF AddFile
  <2> QED BY <2>1, ListedOne DEF OneHolder
<1>4. CASE new = NewVersion(file, v, ip)
  <2>1. Cleared(file) \in [Slot -> IP] /\ Cleared(file)[0] \in Peers \cup {NoIP}
    BY <1>1, SlotZero DEF Cleared, IP
  <2>2. new.peerNum = 1 /\ new.peerIP[0] = Copied(Cleared(file)[0], ip)
    BY <1>4, <2>1, SlotZero DEF NewVersion
  <2>3. new.peerIP[0] = ip
    BY <2>1, <2>2, CopiedOneLength
  <2> QED BY <2>2, <2>3, ListedOne DEF OneHolder
<1>5. CASE new = SameVersion(file, ip)
  <2>1. new.peerNum = file.peerNum
    BY <1>5 DEF SameVersion, FileEntry
  <2>2. new.peerIP = [file.peerIP EXCEPT ![file.peerNum] = Copied(file.peerIP[file.peerNum], ip)]
    BY <1>5 DEF SameVersion, FileEntry
  <2>3. CASE file.peerNum = 0
    <3>1. new.peerIP[0] = Copied(file.peerIP[0], ip)
      BY <1>1, <2>2, <2>3, SlotZero
    <3>2. new.peerIP[0] = ip
      BY <1>1, <3>1, CopiedOneLength
    <3>3. OneHolder(new)
      BY <2>1, <2>3, <3>2 DEF OneHolder
    <3> QED BY <2>1, <2>3, <3>3, ListedOne
  <2>4. CASE file.peerNum = 1
    <3>1. new.peerIP[0] = file.peerIP[0]
      BY <1>1, <2>2, <2>4, SlotZero
    <3>2. OneHolder(new)
      BY <1>1, <2>1, <2>4, <3>1 DEF OneHolder
    <3> QED BY <2>1, <2>4, <3>1, <3>2, ListedOne
  <2> QED BY <1>1, <2>3, <2>4
<1> QED BY <1>2, <1>3, <1>4, <1>5 DEF MergeFile

\* The removal of a peer leaves it in no slot that is in use.
LEMMA RemoveHolder ==
  ASSUME NEW file \in FileEntry, OneHolder(file), NEW ip
  PROVE  /\ OneHolder(filetable_remove_peerIP(file, ip))
         /\ Listed(filetable_remove_peerIP(file, ip)) \subseteq Listed(file) \ {ip}
<1> DEFINE held == {i \in 0 .. file.peerNum - 1 : file.peerIP[i] = ip}
           i == CHOOSE i \in held : \A j \in held : j <= i
           new == filetable_remove_peerIP(file, ip)
<1>1. file.peerIP \in [Slot -> IP] /\ file.peerNum \in {0, 1}
  BY DEF FileEntry, OneHolder
<1>2. CASE held = {}
  <2>1. new = file
    BY <1>2 DEF filetable_remove_peerIP
  <2>2. ip \notin Listed(file)
    BY <1>2 DEF Listed
  <2> QED BY <2>1, <2>2
<1>3. CASE held # {}
  <2>1. file.peerNum = 1 /\ held = {0}
    BY <1>1, <1>3
  <2>2. i = 0
    BY <2>1
  <2>3. new = RemoveAt(file, i)
    BY <1>3 DEF filetable_remove_peerIP
  <2>4. /\ new.peerNum = 0
        /\ new.peerIP = [file.peerIP EXCEPT ![0] = Copied(file.peerIP[0], file.peerIP[0]),
                                            ![0] = NoIP]
    BY <2>1, <2>2, <2>3 DEF RemoveAt, FileEntry
  <2>5. new.peerIP[0] = NoIP
    BY <1>1, <2>4, SlotZero
  <2>6. OneHolder(new)
    BY <2>4, <2>5 DEF OneHolder
  <2> QED BY <2>4, <2>6, ListedOne
<1> QED BY <1>2, <1>3

LEMMA InitHolders == Init => HolderInv
<1> SUFFICES ASSUME Init PROVE HolderInv
  OBVIOUS
<1>1. NoFile.peerNum = 0 /\ NoFile.peerIP[0] = NoIP
  BY SlotZero DEF NoFile
<1>2. OneHolder(NoFile) /\ Listed(NoFile) = {}
  BY <1>1, ListedOne DEF OneHolder
<1>3. (\A f \in Files : OneHolder(files[f])) /\ HoldersAreKnown
  BY <1>2 DEF Init, HoldersAreKnown
<1>4. MergersAreKnown /\ RemovedAreOverdue
  BY DEF Init, MergersAreKnown, RemovedAreOverdue
<1> QED BY <1>3, <1>4 DEF HolderInv

\* Steps that name no new holder, drop no entry of the peer table, and let no merge wait.
LEMMA SameHolders ==
  ASSUME HolderInv, files' = files, peer_table \subseteq peer_table',
         fault' = "none" => fault = "none" /\ MergersAreKnown' /\ RemovedAreOverdue'
  PROVE  HolderInv'
  BY DEF HolderInv, HoldersAreKnown

\* The threads that merge are those that did before the step, and their peers are as they were.
LEMMA SameMergers ==
  ASSUME MergersAreKnown,
         \A s \in Sockets : pc'[s] = "merge" => pc[s] = "merge" /\ owner'[s] = owner[s],
         peer_table \subseteq peer_table', age' = age
  PROVE  MergersAreKnown'
  BY DEF MergersAreKnown

LEMMA ConnectHolders ==
  ASSUME TypeInv, HolderInv, NEW p \in Peers, Connect(p)
  PROVE  HolderInv'
<1>1. PICK s \in Sockets : ConnectOn(p, s) /\ pc' = [pc EXCEPT ![s] = "receive"]
  BY DEF Connect
<1>2. UNCHANGED <<peer_table, age, files, mon, todo, fault>>
  BY DEF Connect
<1>3. \A r \in Sockets : pc'[r] = "merge" => pc[r] = "merge" /\ owner'[r] = owner[r]
  BY <1>1 DEF ConnectOn, TypeInv, SocketInv
<1>4. fault = "none" => MergersAreKnown' /\ RemovedAreOverdue'
  BY <1>2, <1>3, SameMergers DEF HolderInv, RemovedAreOverdue
<1> QED BY <1>2, <1>4, SameHolders

LEMMA HandshakeHolders ==
  ASSUME OneLength, TypeInv, HolderInv, fault = "none", NEW s \in Sockets, Handshake(s)
  PROVE  HolderInv'
<1>1. MergersAreKnown /\ RemovedAreOverdue
  BY DEF HolderInv
<1>2. CASE HandleRegister(s)
  <2>1. /\ owner[s] \in Peers /\ mon # "remove" /\ UNCHANGED <<files, mon, owner>>
        /\ peer_table' = peer_table \cup {owner[s]}
        /\ age' = [age EXCEPT ![owner[s]] = 0]
        /\ pc' = [pc EXCEPT ![s] = "accept"]
    BY <1>2 DEF HandleRegister, Received, PeerTableFree, trc_pr_tb_add_peer, TypeInv, SocketInv,
                ThreadsHaveOwners
  <2>2. ASSUME NEW r \in Sockets, pc'[r] = "merge"
        PROVE  owner[r] \in peer_table' /\ age'[owner[r]] <= PEER_ALIVE_INTERVAL + 1
    <3>1. pc[r] = "merge"
      BY <2>1, <2>2 DEF TypeInv, SocketInv
    <3>2. owner[r] \in peer_table /\ owner[r] \in Peers /\ age[owner[r]] <= PEER_ALIVE_INTERVAL + 1
      BY <1>1, <3>1 DEF MergersAreKnown, TypeInv, SocketInv
    <3>3. age'[owner[r]] = age[owner[r]] \/ age'[owner[r]] = 0
      BY <2>1, <3>2 DEF TypeInv, TablesType
    <3> QED BY <2>1, <3>2, <3>3, TrackerAssumption
  <2>3. MergersAreKnown' /\ RemovedAreOverdue'
    BY <2>1, <2>2 DEF MergersAreKnown, RemovedAreOverdue
  <2> QED BY <2>1, <2>3, SameHolders
<1>3. CASE SendAccept(s)
  <2>1. \A r \in Sockets : pc'[r] = "merge" => pc[r] = "merge" /\ owner'[r] = owner[r]
    BY <1>3 DEF SendAccept, TypeInv, SocketInv
  <2>2. UNCHANGED <<peer_table, age, files, mon, todo>>
    BY <1>3 DEF SendAccept
  <2>3. MergersAreKnown' /\ RemovedAreOverdue'
    BY <1>1, <2>1, <2>2, SameMergers DEF RemovedAreOverdue
  <2> QED BY <2>2, <2>3, SameHolders
<1>4. CASE HandleFileTableUpdate(s)
  <2>1. /\ owner[s] \in Peers /\ mon # "remove" /\ UNCHANGED <<files, mon, owner, peer_table>>
        /\ pc' = [pc EXCEPT ![s] = "merge"]
    BY <1>4 DEF HandleFileTableUpdate, Received, PeerTableFree, peerVars, connVars, TypeInv,
                SocketInv, ThreadsHaveOwners
  <2>2. CASE owner[s] \in peer_table
    <3>1. age' = [age EXCEPT ![owner[s]] = 0]
      BY <1>4, <2>2 DEF HandleFileTableUpdate, trc_pr_tb_update_alive_timestamp,
                        trc_pr_tb_find_peer_by_ip
    <3>2. ASSUME NEW r \in Sockets, pc'[r] = "merge"
          PROVE  owner[r] \in peer_table /\ age'[owner[r]] <= PEER_ALIVE_INTERVAL + 1
      <4>1. CASE owner[r] = owner[s]
        BY <2>1, <2>2, <3>1, <4>1, TrackerAssumption DEF TypeInv, TablesType
      <4>2. CASE owner[r] # owner[s]
        <5>1. pc[r] = "merge"
          BY <2>1, <3>2, <4>2 DEF TypeInv, SocketInv
        <5>2. /\ owner[r] \in peer_table /\ owner[r] \in Peers
              /\ age[owner[r]] <= PEER_ALIVE_INTERVAL + 1
          BY <1>1, <5>1 DEF MergersAreKnown, TypeInv, SocketInv
        <5> QED BY <3>1, <4>2, <5>2 DEF TypeInv, TablesType
      <4> QED BY <4>1, <4>2
    <3>3. MergersAreKnown' /\ RemovedAreOverdue'
      BY <2>1, <3>2 DEF MergersAreKnown, RemovedAreOverdue
    <3> QED BY <2>1, <3>3, SameHolders
  <2>3. CASE owner[s] \notin peer_table
    <3>1. fault' = "NULL"
      BY <1>4, <2>3 DEF HandleFileTableUpdate, trc_pr_tb_update_alive_timestamp,
                        trc_pr_tb_find_peer_by_ip
    <3> QED BY <2>1, <3>1, SameHolders
  <2> QED BY <2>2, <2>3
<1>5. CASE MergeFileTable(s)
  <2>1. pc[s] = "merge" /\ in[s] # <<>> /\ owner[s] \in Peers /\ owner[s] \in peer_table
    BY <1>1, <1>5 DEF MergeFileTable, MergersAreKnown, TypeInv, PeersInv, MergesHaveReports,
                      SocketInv, ThreadsHaveOwners
  <2>2. UNCHANGED <<owner, peer_table, age, mon, todo>> /\ pc' = [pc EXCEPT ![s] = "receive"]
    BY <1>5 DEF MergeFileTable
  <2>3. files' = [f \in Files |-> MergeFile(files[f], Head(in[s]).filetable[f], owner[s])]
    BY <1>5 DEF MergeFileTable
  <2>4. Head(in[s]).filetable \in Table
    BY <2>1, ReportType DEF TypeInv
  <2>5. ASSUME NEW f \in Files
        PROVE  OneHolder(files'[f]) /\ Listed(files'[f]) \subseteq peer_table
    <3> DEFINE v == Head(in[s]).filetable[f]
    <3>1. v \in Nat
      BY <2>4, PeersAssumption DEF Table, Version
    <3>2. files[f] \in FileEntry /\ OneHolder(files[f]) /\ Listed(files[f]) \subseteq peer_table
      BY DEF TypeInv, TablesType, HolderInv, HoldersAreKnown
    <3> HIDE DEF v
    <3>3. files'[f] = MergeFile(files[f], v, owner[s])
      BY <2>3 DEF v
    <3> QED BY <2>1, <3>1, <3>2, <3>3, MergeHolders
  <2>6. \A r \in Sockets : pc'[r] = "merge" => pc[r] = "merge" /\ owner'[r] = owner[r]
    BY <2>2 DEF TypeInv, SocketInv
  <2>7. MergersAreKnown' /\ RemovedAreOverdue'
    BY <1>1, <2>2, <2>6, SameMergers DEF RemovedAreOverdue
  <2>8. HoldersAreKnown'
    BY <2>2, <2>5 DEF HoldersAreKnown
  <2> QED BY <2>5, <2>7, <2>8 DEF HolderInv
<1>6. CASE Hangup(s)
  <2>1. UNCHANGED <<peer_table, age, files, mon, todo>>
    BY <1>6 DEF Hangup
  <2>2. \A r \in Sockets : pc'[r] = "merge" => pc[r] = "merge" /\ owner'[r] = owner[r]
    BY <1>6 DEF Hangup, TypeInv, SocketInv
  <2>3. MergersAreKnown' /\ RemovedAreOverdue'
    BY <1>1, <2>1, <2>2, SameMergers DEF RemovedAreOverdue
  <2> QED BY <2>1, <2>3, SameHolders
<1> QED BY <1>2, <1>3, <1>4, <1>5, <1>6 DEF Handshake

\* remove_dead_peers takes a peer out of both tables.
LEMMA RemoveDeadHolders ==
  ASSUME TypeInv, HolderInv, fault = "none", NEW p \in Peers, RemoveDead(p)
  PROVE  HolderInv'
<1>1. MergersAreKnown /\ RemovedAreOverdue /\ HoldersAreKnown
  BY DEF HolderInv
<1>2. /\ mon = "remove" /\ p \in todo /\ peer_table' = peer_table \ {p}
      /\ age' = [age EXCEPT ![p] = 0] /\ todo' = todo \ {p} /\ UNCHANGED <<mon, pc, owner>>
      /\ files' = [f \in Files |-> filetable_remove_peerIP(files[f], p)]
  BY DEF RemoveDead, RemoveEntry, peerVars, connVars
<1>3. age[p] > PEER_ALIVE_INTERVAL + 1
  BY <1>1, <1>2 DEF RemovedAreOverdue
<1>4. ASSUME NEW f \in Files
      PROVE  OneHolder(files'[f]) /\ Listed(files'[f]) \subseteq peer_table'
  <2>1. files[f] \in FileEntry /\ OneHolder(files[f]) /\ Listed(files[f]) \subseteq peer_table
    BY DEF TypeInv, TablesType, HolderInv, HoldersAreKnown
  <2> QED BY <1>2, <2>1, RemoveHolder
<1>5. ASSUME NEW s \in Sockets, pc'[s] = "merge"
      PROVE  owner[s] \in peer_table' /\ age'[owner[s]] <= PEER_ALIVE_INTERVAL + 1
  <2>1. /\ owner[s] \in peer_table /\ owner[s] \in Peers
        /\ age[owner[s]] <= PEER_ALIVE_INTERVAL + 1 /\ age[owner[s]] \in Nat
    BY <1>1, <1>2, <1>5, MaxAgeType DEF MergersAreKnown, TypeInv, SocketInv, TablesType
  <2>2. owner[s] # p
    BY <1>3, <2>1, TrackerAssumption
  <2> QED BY <1>2, <2>1, <2>2 DEF TypeInv, TablesType
<1>6. MergersAreKnown'
  BY <1>2, <1>5 DEF MergersAreKnown
<1>7. RemovedAreOverdue'
  BY <1>1, <1>2 DEF RemovedAreOverdue, TypeInv, TablesType, SocketInv
<1> QED BY <1>4, <1>6, <1>7 DEF HolderInv, HoldersAreKnown

LEMMA MonitorHolders ==
  ASSUME TypeInv, HolderInv, fault = "none", Monitor
  PROVE  HolderInv'
<1>1. MergersAreKnown /\ RemovedAreOverdue
  BY DEF HolderInv
<1>2. CASE ReadHeartbeats
  <2>1. UNCHANGED <<peer_table, files, pc, owner>>
    BY <1>2 DEF ReadHeartbeats, connVars
  <2>2. CASE fault' = "none"
    <3>1. todo' = Dead(age') /\ age' \in [Peers -> 0 .. MaxAge]
          /\ \A p \in Peers : age'[p] \in {0, age[p]}
      BY <1>2, <2>2, MaxAgeType DEF ReadHeartbeats, TypeInv, TablesType
    <3>2. RemovedAreOverdue'
      BY <3>1 DEF RemovedAreOverdue, Dead
    <3>3. MergersAreKnown'
      BY <1>1, <2>1, <3>1, TrackerAssumption DEF MergersAreKnown, TypeInv, SocketInv
    <3> QED BY <2>1, <3>2, <3>3, SameHolders
  <2>3. CASE fault' # "none"
    BY <2>1, <2>3, SameHolders
  <2> QED BY <2>2, <2>3
<1>3. CASE \E p \in Peers : RemoveDead(p)
  BY <1>3, RemoveDeadHolders
<1>4. CASE EndRemove \/ StartBroadcast \/ EndBroadcast \/ \E p \in Peers : BroadcastTo(p)
  <2>1. UNCHANGED <<peer_table, age, files, pc, owner>>
    BY <1>4 DEF EndRemove, StartBroadcast, EndBroadcast, BroadcastTo, peerVars, connVars
  <2>2. mon' # "remove"
    BY <1>4 DEF EndRemove, StartBroadcast, EndBroadcast, BroadcastTo
  <2>3. MergersAreKnown' /\ RemovedAreOverdue'
    BY <1>1, <2>1, <2>2, SameMergers DEF RemovedAreOverdue
  <2> QED BY <2>1, <2>3, SameHolders
<1> QED BY <1>2, <1>3, <1>4 DEF Monitor

\* Time passes only while no report waits past its peer's deadline.
LEMMA TickHolders ==
  ASSUME Prompt, TypeInv, HolderInv, fault = "none", Tick
  PROVE  HolderInv'
<1>1. MergersAreKnown /\ MergesArePrompt /\ mon' # "remove"
  BY DEF HolderInv, Tick
<1>2. /\ UNCHANGED <<peer_table, files, pc, owner>>
      /\ \A p \in Peers : age'[p] \in {age[p], age[p] + 1}
  BY DEF Tick, peerVars, connVars
<1>3. ASSUME NEW s \in Sockets, pc'[s] = "merge"
      PROVE  owner'[s] \in peer_table' /\ age'[owner'[s]] <= PEER_ALIVE_INTERVAL + 1
  <2>1. owner[s] \in peer_table /\ owner[s] \in Peers /\ age[owner[s]] <= PEER_ALIVE_INTERVAL
    BY <1>1, <1>2, <1>3 DEF MergersAreKnown, MergesArePrompt, TypeInv, SocketInv
  <2>2. age[owner[s]] \in Nat
    BY <2>1, MaxAgeType DEF TypeInv, TablesType
  <2> QED BY <1>2, <2>1, <2>2, TrackerAssumption
<1>4. MergersAreKnown' /\ RemovedAreOverdue'
  BY <1>1, <1>3 DEF MergersAreKnown, RemovedAreOverdue
<1> QED BY <1>2, <1>4, SameHolders

LEMMA StopHolders ==
  ASSUME tracker_stop
  PROVE  HolderInv'
<1>1. NoFile.peerNum = 0 /\ NoFile.peerIP[0] = NoIP
  BY SlotZero DEF NoFile
<1>2. OneHolder(NoFile) /\ Listed(NoFile) = {}
  BY <1>1, ListedOne DEF OneHolder
<1>3. (\A f \in Files : files'[f] = NoFile) /\ fault' = "exit"
  BY DEF tracker_stop, filetable_destroy
<1> QED BY <1>2, <1>3 DEF HolderInv, HoldersAreKnown

LEMMA NextHolders ==
  Prompt /\ OneLength /\ TypeInv /\ HolderInv /\ [Next]_vars => HolderInv'
<1> SUFFICES ASSUME Prompt, OneLength, TypeInv, HolderInv, [Next]_vars PROVE HolderInv'
  OBVIOUS
<1>1. CASE UNCHANGED vars
  <2>1. UNCHANGED <<peer_table, age, files, mon, todo, fault, pc, owner>>
    BY <1>1 DEF vars, peerVars, connVars, trackerVars
  <2> QED BY <2>1, SameHolders DEF HolderInv, MergersAreKnown, RemovedAreOverdue
<1>2. ASSUME NEW p \in Peers, PeerStep(p) PROVE HolderInv'
  <2>1. UNCHANGED <<peer_table, age, files, mon, todo, fault, pc>>
    BY <1>2 DEF PeerStep, trackerVars
  <2>2. UNCHANGED owner
    BY <1>2 DEF PeerStep, Accepted, ReceiveTable, sendTracker, Exit, Vanish, Gone, Closed, procVars
  <2> QED BY <2>1, <2>2, SameHolders DEF HolderInv, MergersAreKnown, RemovedAreOverdue
<1>3. ASSUME NEW s \in Sockets, ConnectionTimesOut(s) PROVE HolderInv'
  <2>1. UNCHANGED <<peer_table, age, files, mon, todo, fault, pc, owner>>
    BY <1>3 DEF ConnectionTimesOut, TimedOut, trackerVars
  <2> QED BY <2>1, SameHolders DEF HolderInv, MergersAreKnown, RemovedAreOverdue
<1> QED BY <1>1, <1>2, <1>3, ConnectHolders, HandshakeHolders, MonitorHolders, TickHolders, StopHolders
        DEF Next

\* If no report waits past its peer's deadline and the addresses have one length, the file
\* table names only peers of the peer table: a peer that remove_dead_peers took out of it
\* is never named again by a report that was read before.
THEOREM HoldersStayKnown ==
  ASSUME Prompt, OneLength
  PROVE  Spec => []HoldersAreKnown
<1>1. Init => TypeInv /\ HolderInv
  BY InitTypes, InitHolders
<1>2. TypeInv /\ HolderInv /\ [Next]_vars => TypeInv' /\ HolderInv'
  BY NextTypes, NextHolders
<1>3. HolderInv => HoldersAreKnown
  BY DEF HolderInv
<1> QED BY <1>1, <1>2, <1>3, PTL DEF Spec
=============================================================================
