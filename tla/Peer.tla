-------------------------------- MODULE Peer --------------------------------
(* A peer (tofukasu_final/peer/peer.c): its main thread, which reads the    *)
(* tracker's tables and keeps a list of download tasks, the download        *)
(* threads, and (module PeerFiles) the file monitor thread.  They share the *)
(* tasks and the file table without a mutex.                                *)
EXTENDS PeerFiles

CONSTANTS
  Remote,        \* files in a directory that this peer may not have
  BIGFILE_THRES, \* remaining pieces from which a task is stopped when its peers change
  CleanHeap      \* malloc happens to return zeros

ASSUME PeerAssumption ==
  /\ Remote \subseteq Files
  /\ BIGFILE_THRES \in Nat /\ CleanHeap \in BOOLEAN

VARIABLES
  main,     \* where the main thread is
  table,    \* the table it scans
  todo,     \* the files of it that are yet to scan
  tasks,    \* the download list
  at,       \* where the scan of the list is
  split,    \* pieces to hand out, pieces for each peer, and the next peer
  threads   \* the download threads that run; no two are alike

taskVars == <<main, table, todo, tasks, at, split, threads>>
vars == <<fileVars, taskVars>>

(* Tasks. *)

NoTable == [f \in Files |-> Unknown]

Pieces(n) == 1 .. n
FullTaskFromZero(f, v) == \* mutant: pieces are numbered from 0
  [file |-> f, ts |-> v.latest, kind |-> "FULL", waiting |-> 0 .. v.pieces - 1,
   total |-> v.pieces, left |-> v.pieces, peerNum |-> v.peerNum, addresses |-> v.peerNum,
   stop |-> FALSE, delta |-> "null", downloading |-> FALSE]
FullTask(f, v) ==
  [file |-> f, ts |-> v.latest, kind |-> "FULL", waiting |-> Pieces(v.pieces),
   total |-> v.pieces, left |-> v.pieces, peerNum |-> v.peerNum, addresses |-> v.peerNum,
   stop |-> FALSE, delta |-> "null", downloading |-> FALSE]

\* delta_file is what malloc left there.
DeltaTask(f, v, delta) ==
  [FullTask(f, v) EXCEPT !.kind = "DELTA", !.waiting = {}, !.total = 0, !.left = 0, !.delta = delta]

Id(task) == <<task.file, task.ts>>

\* A thread of the task, for a peer and (if it is a full file) pieces.
Wake(id, peer, pieces) ==
  threads' = threads \cup {[task |-> id, peer |-> peer, pieces |-> pieces, at |-> "connect"]}

\* The process is killed, by a bad pointer or by abort.
Crash(how) ==
  /\ main' = how /\ table' = NoTable /\ todo' = {} /\ tasks' = <<>> /\ at' = 1
  /\ threads' = {} /\ UNCHANGED <<fileVars, split>>

(* The scan of a table. *)

receive_t2p_segment ==
  /\ main = "receive" /\ main' = "scan"
  /\ table' = world
  /\ todo' = {f \in Files : world[f] # Unknown}
  /\ UNCHANGED <<fileVars, tasks, at, split, threads>>

Scan(f) == main = "scan" /\ f \in todo /\ todo' = todo \ {f}
Old(f) == fileTable[f].latest

IsFull(f) ==
  \/ ~Known(f) /\ table[f].status = "READ_N_WRITE"
  \/ Known(f) /\ table[f].status # "DELETED" /\ table[f].prev > Old(f)
IsDelta(f) == Known(f) /\ table[f].status # "DELETED" /\ table[f].prev = Old(f)
NewTasks(f) ==
  IF IsFull(f) THEN {FullTask(f, table[f])}
  ELSE IF IsDelta(f)
    THEN {DeltaTask(f, table[f], d) : d \in IF CleanHeap THEN {"null"} ELSE {"null", "junk"}}
    ELSE {}

\* add_to_download_task: a task for the file is in the list at i.
Same(i, new) == i \in 1 .. Len(tasks) /\ tasks[i].file = new.file

AddTaskAgain(f) == \* mutant: it is not searched for an older task
  /\ Scan(f)
  /\ \E new \in NewTasks(f) : tasks' = Append(tasks, new)
  /\ UNCHANGED <<fileVars, main, table, at, split, threads>>
\* No task for the file yet.
AddTask(f) ==
  /\ Scan(f)
  /\ \E new \in NewTasks(f) :
       /\ ~\E i \in 1 .. Len(tasks) : Same(i, new)
       /\ tasks' = Append(tasks, new)
  /\ UNCHANGED <<fileVars, main, table, at, split, threads>>

\* Its list pointers are not set either.
AddTaskJunk(f) ==
  /\ main = "scan" /\ f \in todo /\ NewTasks(f) # {} /\ ~CleanHeap /\ Crash("segv")

\* remove_from_download_task, free_one_task: the threads are canceled and joined,
\* and the new task goes to the end.
ThreadsGoOn(id) == threads \* mutant: they are not canceled
WithoutThreadsOf(id) == {t \in threads : t.task # id}
Without(i) == SubSeq(tasks, 1, i - 1) \o SubSeq(tasks, i + 1, Len(tasks))
ReplaceTask(f) ==
  /\ Scan(f)
  /\ \E new \in NewTasks(f), i \in 1 .. Len(tasks) :
       /\ Same(i, new) /\ tasks[i].ts < new.ts
       /\ Len(tasks) > 1 /\ tasks[i].total < 2
       /\ tasks' = Append(Without(i), new)
       /\ threads' = WithoutThreadsOf(Id(tasks[i]))
  /\ UNCHANGED <<fileVars, main, table, at, split>>

\* free(piece_seq_list + 1), or the tail of an empty list; total_piece_num and
\* piece_seq_list of a delta task are not set.
ReplaceTaskFails(f) ==
  /\ main = "scan" /\ f \in todo
  /\ \E new \in NewTasks(f), i \in 1 .. Len(tasks) :
       /\ Same(i, new) /\ tasks[i].ts < new.ts
       /\ Len(tasks) = 1 \/ tasks[i].total >= 2 \/ (tasks[i].kind = "DELTA" /\ ~CleanHeap)
  /\ Crash("abort")

\* Other peers have it now; of their addresses memcpy copies peerNum bytes.
UpdatePeers(f) ==
  /\ Scan(f)
  /\ \E new \in NewTasks(f), i \in 1 .. Len(tasks) :
       /\ Same(i, new) /\ tasks[i].ts >= new.ts /\ tasks[i].peerNum # new.peerNum
       /\ tasks' = [tasks EXCEPT ![i].peerNum = new.peerNum,
            ![i].stop = @ \/ (tasks[i].kind = "FULL" /\ tasks[i].left > BIGFILE_THRES)]
  /\ UNCHANGED <<fileVars, main, table, at, split, threads>>

\* Nothing to download, or nothing new.
PassOver(f) ==
  /\ Scan(f)
  /\ \/ NewTasks(f) = {} /\ ~(Known(f) /\ table[f].status = "DELETED") /\ UNCHANGED fileTable
     \/ /\ \E new \in NewTasks(f), i \in 1 .. Len(tasks) :
             Same(i, new) /\ tasks[i].ts >= new.ts /\ tasks[i].peerNum = new.peerNum
        /\ UNCHANGED fileTable
     \/ /\ Known(f) /\ table[f].status = "DELETED"
        /\ fileTable' = [fileTable EXCEPT ![f].status = "DELETED"]
  /\ UNCHANGED <<clock, disk, mtime, events, world, main, table, tasks, at, split, threads>>

EndScan ==
  /\ main = "scan" /\ todo = {}
  /\ main' = "list" /\ at' = 1
  /\ table' = NoTable
  /\ UNCHANGED <<fileVars, todo, tasks, split, threads>>

(* The scan of the download list. *)

cur == tasks[at]
At(state) == main = state /\ at <= Len(tasks)
Step(state) == main' = state /\ at' = IF state = "list" THEN at + 1 ELSE at

EndList ==
  /\ main = "list" /\ at > Len(tasks)
  /\ main' = "receive" /\ at' = 1
  /\ UNCHANGED <<fileVars, table, todo, tasks, split, threads>>

\* A thread for the delta ...
StartDelta ==
  /\ At("list") /\ cur.kind = "DELTA" /\ ~cur.downloading /\ cur.peerNum > 0
  /\ Wake(Id(cur), 1, {})
  /\ Step("mark")
  /\ UNCHANGED <<fileVars, table, todo, tasks, split>>

\* ... and isdelta_downloading = 1.
MarkDelta ==
  /\ At("mark")
  /\ tasks' = [tasks EXCEPT ![at].downloading = TRUE]
  /\ Step("list")
  /\ UNCHANGED <<fileVars, table, todo, split, threads>>

\* fopen, or the directory is not there and the loop never gets to the next task.
Save(state) == Step(state) \/ (cur.file \in Remote /\ Step("stuck"))

\* The delta is saved with the other deltas; the file stays what it was.
CompleteDelta ==
  /\ At("list") /\ cur.kind = "DELTA" /\ cur.downloading /\ cur.delta # "null"
  /\ fileTable' = [fileTable EXCEPT ![cur.file].status = "SYNCED", ![cur.file].latest = cur.ts]
  /\ Save("list")
  /\ UNCHANGED <<clock, disk, mtime, events, world, table, todo, tasks, split, threads>>

\* The table says it is there ...
CompleteFull ==
  /\ At("list") /\ cur.kind = "FULL" /\ cur.left <= 0
  /\ fileTable' = [fileTable EXCEPT ![cur.file].status = "SYNCED", ![cur.file].latest = cur.ts]
  /\ Save("write")
  /\ UNCHANGED <<clock, disk, mtime, events, world, table, todo, tasks, split, threads>>

\* ... and it is written.  The task stays in the list.
WriteFull ==
  /\ At("write")
  /\ disk' = [disk EXCEPT ![cur.file] = cur.ts]
  /\ mtime' = [mtime EXCEPT ![cur.file] = clock]
  /\ Raise(cur.file, "IN_CLOSE_WRITE")
  /\ Step("list")
  /\ UNCHANGED <<clock, fileTable, world, table, todo, tasks, split, threads>>

NoSplit == [left |-> 0, each |-> 0, peer |-> 1]

\* Pieces that no thread has are divided among the peers ...
StartSplit ==
  /\ At("list") /\ cur.kind = "FULL" /\ cur.left > 0 /\ cur.peerNum > 0
  /\ LET n == Cardinality(cur.waiting) IN
       split' = [left |-> n, each |-> (n + cur.peerNum - 1) \div cur.peerNum, peer |-> 1]
  /\ Step("split")
  /\ UNCHANGED <<fileVars, table, todo, tasks, threads>>

\* ... with a thread for each.
Share == IF split.each < split.left THEN split.each ELSE split.left
Firsts(S, n) == {i \in S : Cardinality({j \in S : j < i}) < n}
StartThreadUnmarked == \* mutant: the sign of the pieces is not turned
  /\ At("split") /\ split.left > 0 /\ split.peer <= cur.peerNum
  /\ Wake(Id(cur), split.peer, Firsts(cur.waiting, Share))
  /\ split' = [split EXCEPT !.left = @ - Share, !.peer = @ + 1]
  /\ UNCHANGED <<fileVars, main, table, todo, tasks, at>>
StartThread ==
  /\ At("split") /\ split.left > 0 /\ split.peer <= cur.peerNum
  /\ Wake(Id(cur), split.peer, Firsts(cur.waiting, Share))
  /\ tasks' = [tasks EXCEPT ![at].waiting = @ \ Firsts(@, Share)]
  /\ split' = [split EXCEPT !.left = @ - Share, !.peer = @ + 1]
  /\ UNCHANGED <<fileVars, main, table, todo, at>>

EndSplit ==
  /\ At("split") /\ (split.left = 0 \/ split.peer > cur.peerNum)
  /\ split' = NoSplit
  /\ Step("list")
  /\ UNCHANGED <<fileVars, table, todo, tasks, threads>>

SkipTaskNever == \* mutant: cur is not moved on, as after "continue"
  /\ At("list")
  /\ \/ cur.kind = "DELTA" /\ ~cur.downloading /\ cur.peerNum = 0
     \/ cur.kind = "DELTA" /\ cur.downloading /\ cur.delta = "null"
     \/ cur.kind = "FULL" /\ cur.left > 0 /\ cur.peerNum = 0
  /\ UNCHANGED vars
SkipTask ==
  /\ At("list")
  /\ \/ cur.kind = "DELTA" /\ ~cur.downloading /\ cur.peerNum = 0
     \/ cur.kind = "DELTA" /\ cur.downloading /\ cur.delta = "null"
     \/ cur.kind = "FULL" /\ cur.left > 0 /\ cur.peerNum = 0
  /\ Step("list")
  /\ UNCHANGED <<fileVars, table, todo, tasks, split, threads>>

(* p2p_download_thread. *)

Crashed == main \in {"segv", "abort"}
Running(t, state) == ~Crashed /\ t.at = state
Index(t) == CHOOSE i \in 1 .. Len(tasks) : Id(tasks[i]) = t.task
task(t) == tasks[Index(t)]
Becomes(t, new) == threads' = (threads \ {t}) \cup new
Goto(t, state) == Becomes(t, {[t EXCEPT !.at = state]})
End(t) == Becomes(t, {})
MainUnchanged == UNCHANGED <<fileVars, main, table, todo, at, split>>

\* The thread ends; what it was to download stays marked.
ConnectFails(t) ==
  /\ Running(t, "connect")
  /\ End(t)
  /\ UNCHANGED tasks /\ MainUnchanged

\* connect, for which the task has to have an address.
Connects(t, kind) ==
  Running(t, "connect") /\ task(t).kind = kind /\ t.peer <= task(t).addresses

\* A delta: the request is sent, or not ...
RequestDelta(t) ==
  /\ Connects(t, "DELTA")
  /\ Goto(t, "answer")
  /\ UNCHANGED tasks /\ MainUnchanged

\* ... and answered; delta_file is set before its bytes are there ...
AnswerDelta(t) ==
  /\ Running(t, "answer")
  /\ tasks' = [tasks EXCEPT ![Index(t)].delta = "data"]
  /\ End(t)
  /\ MainUnchanged

\* ... or the connection breaks.
LoseDelta(t) ==
  /\ Running(t, "answer")
  /\ tasks' = [tasks EXCEPT ![Index(t)].delta = "null", ![Index(t)].downloading = FALSE]
  /\ End(t)
  /\ MainUnchanged

\* Pieces: the request for the first fails, is not sent as the task is to stop,
\* or is answered, by data or the end of the connection: 1 or -1, which are both
\* not 0 and taken for a broken connection.
RequestPiece(t) ==
  /\ Connects(t, "FULL")
  /\ Goto(t, "reset")
  /\ UNCHANGED tasks /\ MainUnchanged

\* What is not downloaded waits again, piece by piece.
Reset(t) ==
  /\ Running(t, "reset")
  /\ \E p \in t.pieces :
       /\ \A q \in t.pieces : p <= q
       /\ tasks' = [tasks EXCEPT ![Index(t)].waiting = @ \cup {p}]
       /\ Becomes(t, {[t EXCEPT !.pieces = u] : u \in {t.pieces \ {p}} \ {{}}})
  /\ MainUnchanged

(* The process. *)

Init ==
  /\ FilesInit
  /\ main = "receive"
  /\ table = NoTable
  /\ todo = {}
  /\ tasks = <<>>
  /\ at = 1
  /\ split = NoSplit
  /\ threads = {}

Main ==
  \/ receive_t2p_segment
  \/ \E f \in Files : \/ AddTask(f) \/ AddTaskJunk(f) \/ ReplaceTask(f) \/ ReplaceTaskFails(f)
                      \/ UpdatePeers(f) \/ PassOver(f)
  \/ EndScan \/ EndList
  \/ StartDelta \/ MarkDelta \/ CompleteDelta \/ CompleteFull \/ WriteFull
  \/ StartSplit \/ StartThread \/ EndSplit \/ SkipTask

Download(t) ==
  \/ ConnectFails(t) \/ RequestDelta(t) \/ AnswerDelta(t) \/ LoseDelta(t)
  \/ RequestPiece(t) \/ Reset(t)

MonitorThread == ~Crashed /\ Monitor /\ UNCHANGED taskVars

Others ==
  /\ \E f \in Files : \/ OtherWrites(f) \/ OtherDeletes(f) \/ HoldersEnd(f) \/ Edit(f) \/ Remove(f)
  /\ UNCHANGED taskVars

Next == Main \/ MonitorThread \/ Others \/ \E t \in threads : Download(t)

Spec == Init /\ [][Next]_vars

\* The threads keep running, and the tracker sends its table every few seconds.
Fairness == WF_vars(Main) /\ WF_vars(MonitorThread)
FairSpec == Spec /\ Fairness

(* Properties. *)

Places == {"receive", "scan", "list", "mark", "write", "split", "stuck", "segv", "abort"}
Tasks ==
  [file : Files, ts : Time, kind : {"FULL", "DELTA"}, waiting : SUBSET Nat,
   total : Nat, left : Nat, peerNum : Nat, addresses : Nat, stop : BOOLEAN,
   delta : {"null", "junk", "data"}, downloading : BOOLEAN]
Threads ==
  [task : Files \X Time, peer : Nat, pieces : SUBSET Nat, at : {"connect", "answer", "reset"}]
TypeOK ==
  /\ FilesTypeOK
  /\ main \in Places /\ at \in 1 .. Len(tasks) + 1 /\ todo \subseteq Files
  /\ table \in [Files -> Versions]
  /\ tasks \in Seq(Tasks)
  /\ \A i \in 1 .. Len(tasks) :
       tasks[i].waiting \subseteq Pieces(tasks[i].total) /\ tasks[i].left <= tasks[i].total
  /\ split \in [left : Nat, each : Nat, peer : Nat]
  /\ threads \subseteq Threads

\* piece_seq_list: a piece is with one thread (+) or waits (-), though the main
\* thread hands out what other threads give back (peer.h:55).
PiecesAreAssignedOnce ==
  \A t \in threads :
    /\ \A i \in 1 .. Len(tasks) : t.task = Id(tasks[i]) => t.pieces \cap tasks[i].waiting = {}
    /\ \A u \in threads \ {t} : u.task = t.task => u.pieces \cap t.pieces = {}

\* No thread works on a task that free_one_task has freed.
ThreadsHaveTask ==
  \A t \in threads : \E i \in 1 .. Len(tasks) : Id(tasks[i]) = t.task

\* Two tasks never download the same file (add_to_download_task).
OneTaskPerFile ==
  \A i, j \in 1 .. Len(tasks) : tasks[i].file = tasks[j].file => i = j

\* Pieces that wait for a thread get one, while peers have the file, whatever the
\* other tasks in the list do.  (Not each of them: a thread that gives its piece
\* back before the next is started makes that one take it again.)
Waits(f) == \E i \in 1 .. Len(tasks) :
  tasks[i].file = f /\ tasks[i].peerNum > 0 /\ tasks[i].waiting # {}
Ends == Crashed \/ main = "stuck"
TaskIsServed ==
  \A f \in Files : Waits(f) ~> (\E t \in threads : t.task[1] = f) \/ ~Waits(f) \/ Ends

\* Once the file monitor has read its events, the tracker knows what the user
\* wrote into files that were not downloaded, or of a later version.
Task(f) == \E i \in 1 .. Len(tasks) : tasks[i].file = f
EditsAreReported ==
  \A f \in Files :
    events = <<>> /\ ~Crashed /\ disk[f] # 0 /\ ~Task(f) => world[f].latest >= disk[f]
=============================================================================
