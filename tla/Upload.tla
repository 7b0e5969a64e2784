------------------------------- MODULE Upload -------------------------------
(* The part of a peer that serves other peers (tofukasu_final/peer/peer.c): *)
(* the listening thread, an upload thread for each connection, the files    *)
(* that module Watches knows of, and the end of the process.  One other     *)
(* peer at a time asks for one piece or delta, as p2p_download_thread does. *)
EXTENDS Watches

CONSTANTS
  Asked,      \* bound: the files other peers ask for
  MaxSockets  \* descriptors for connections

ASSUME UploadAssumption == Asked \subseteq Files /\ MaxSockets \in Nat

VARIABLES
  conn,     \* the connection of the peer that asks
  request,  \* what it asks for
  sockets   \* descriptors in use

uploadVars == <<conn, request, sockets>>
vars == <<watchVars, uploadVars>>

Requests == [file : Asked, type : {"DELTA_REQ", "FILE_REQ"}]
NoRequest == [file |-> None, type |-> None]

\* p2p_download_thread: it knows the file from the tracker, which may have it from
\* before this peer was started again.
Ask(r) ==
  /\ Runs /\ conn = "none"
  /\ conn' = "backlog" /\ request' = r
  /\ UNCHANGED <<watchVars, sockets>>

\* p2p_listen_thread.  The length in a request is not set: send() may refuse what it
\* is told to send, behind the first marks, and the rest never comes.
Accept ==
  /\ Runs /\ conn = "backlog" /\ sockets < MaxSockets
  /\ sockets' = sockets + 1
  /\ conn' \in {"request", "part"}
  /\ UNCHANGED <<watchVars, request>>

\* What fread returns is not empty.
Readable(r) ==
  IF r.type = "DELTA_REQ" THEN r.file \in deltas ELSE disk[r.file] = "bytes"

ServeFiles == \* mutant: a request for a delta is passed over
  /\ Runs /\ conn = "request" /\ config = "set"
  /\ conn' = IF Readable(request) /\ request.type = "FILE_REQ" THEN "answer" ELSE "silence"
  /\ UNCHANGED <<watchVars, request, sockets>>

\* p2p_upload_thread: an answer, or none.
Serve ==
  /\ Runs /\ conn = "request" /\ config = "set"
  /\ conn' = IF Readable(request) THEN "answer" ELSE "silence"
  /\ UNCHANGED <<watchVars, request, sockets>>

\* The other peer has gone: an answer is lost, or ends the process (SIGPIPE).
ServeGone ==
  /\ Runs /\ conn = "gone" /\ config = "set"
  /\ conn' = "none" /\ request' = NoRequest
  /\ ended' \in {ended} \cup (IF Readable(request) THEN {"SIGPIPE"} ELSE {})
  /\ UNCHANGED <<dirs, disk, changes, config, stack, wds, events, mnt_table, fileTable, deltas>>
  /\ UNCHANGED sockets

\* config->root, before the file monitor has set config or after clearAll.
ServeNull ==
  /\ Runs /\ conn \in {"request", "gone"} /\ config # "set"
  /\ End("segv")
  /\ UNCHANGED <<dirs, disk, changes, config, stack, wds, events, mnt_table, fileTable, deltas>>
  /\ UNCHANGED uploadVars

\* The other peer closes the connection, or ends: when it has its answer, waits for
\* one, or could not send all of its request.  The thread here ends and does not close.
Close ==
  /\ Runs /\ conn \in {"backlog", "part", "request", "answer", "silence"}
  /\ \/ conn = "request" /\ conn' = "gone" /\ UNCHANGED request
     \/ conn # "request" /\ conn' = "none" /\ request' = NoRequest
  /\ UNCHANGED <<watchVars, sockets>>

\* SIGINT: clearAll frees config, while the other threads run ...
clearAll ==
  /\ Runs
  /\ \/ config = "set" /\ config' = "NULL" /\ UNCHANGED ended
     \/ config = "unset" /\ End("segv") /\ UNCHANGED config
  /\ UNCHANGED <<dirs, disk, changes, stack, wds, events, mnt_table, fileTable, deltas>>
  /\ UNCHANGED uploadVars

\* ... and the names of the directories, some of them again.
clearTable ==
  /\ Runs /\ config = "NULL"
  /\ ended' \in {"exit"} \cup {how \in {"abort"} : \E i \in 1 .. Last : Named(Freed, i)}
  /\ UNCHANGED <<dirs, disk, changes, config, stack, wds, events, mnt_table, fileTable, deltas>>
  /\ UNCHANGED uploadVars

Init ==
  /\ WatchesInit
  /\ conn = "none" /\ request = NoRequest /\ sockets = 0

Monitors == FileMonitor /\ UNCHANGED uploadVars
Next ==
  \/ Monitors \/ (Changes /\ UNCHANGED uploadVars)
  \/ \E r \in Requests : Ask(r)
  \/ Accept \/ Serve \/ ServeGone \/ ServeNull \/ Close \/ clearAll \/ clearTable

Spec == Init /\ [][Next]_vars

\* The threads keep running; nobody has to ask, to change a file or to end the peer.
Fairness ==
  WF_vars(Monitors) /\ WF_vars(Accept) /\ WF_vars(Serve) /\ WF_vars(ServeNull) /\ WF_vars(clearTable)
FairSpec == Spec /\ Fairness
-----------------------------------------------------------------------------
TypeOK ==
  /\ WatchesTypeOK
  /\ conn \in {"none", "backlog", "part", "request", "gone", "answer", "silence"}
  /\ request \in Requests \cup {NoRequest} /\ sockets \in 0 .. MaxSockets

\* A peer that has sent all of its request and stays gets an answer, if there is something
\* to answer, the descriptors last (an upload closes none) and the process too.
RequestsAreAnswered ==
  \A r \in Requests :
    conn \in {"backlog", "request"} /\ request = r ~>
      \/ request # r \/ conn \in {"none", "part", "gone", "answer"}
      \/ conn = "backlog" /\ sockets = MaxSockets
      \/ ~Readable(r) \/ ~Runs
=============================================================================
