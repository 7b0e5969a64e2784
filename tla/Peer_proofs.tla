---------------------------- MODULE Peer_proofs ----------------------------
(* Proofs about the downloads of a peer, for every set of files, lengths of *)
(* versions and numbers of peers: the types, that the list has one task for *)
(* a file, that threads have a task, that no piece is with two threads, or  *)
(* with a thread and in the queue, and that the user's edits are reported.  *)
EXTENDS Peer, FiniteSetTheorems, SequenceTheorems, TLAPS

(* The inductive invariant. *)

\* A thread downloads pieces that its task has.
PiecesOfTask ==
  \A t \in threads, i \in 1 .. Len(tasks) :
    t.task = Id(tasks[i]) => t.pieces \subseteq Pieces(tasks[i].total)

\* Its part about tasks and threads, ...
TasksType ==
  /\ tasks \in Seq(Tasks)
  /\ \A i \in 1 .. Len(tasks) :
       tasks[i].waiting \subseteq Pieces(tasks[i].total) /\ tasks[i].left <= tasks[i].total
ThreadsInv ==
  /\ threads \subseteq Threads
  /\ TasksType /\ OneTaskPerFile /\ ThreadsHaveTask /\ PiecesOfTask /\ PiecesAreAssignedOnce

\* ... and about the variables that no thread depends on.
MainType ==
  /\ FilesTypeOK
  /\ main \in Places /\ at \in 1 .. Len(tasks) + 1 /\ todo \subseteq Files
  /\ table \in [Files -> Versions]
  /\ split \in [left : Nat, each : Nat, peer : Nat]

IInv == TypeOK /\ OneTaskPerFile /\ ThreadsHaveTask /\ PiecesOfTask /\ PiecesAreAssignedOnce

(* Files, the file table and the tracker's table. *)

LEMMA MergeType ==
  ASSUME NEW v \in Versions, NEW e \in Entry
  PROVE  Merge(v, e) \in Versions
<1>1. 0 \in Time
  BY FilesAssumption DEF Time
<1>2. \A prev \in Time : Version(e.latest, prev, e.status, 1, 1) \in Versions
  BY DEF Versions, Version, Entry
<1>3. e.prev \in Time
  BY DEF Entry
<1> QED BY <1>1, <1>2, <1>3 DEF Merge

LEMMA UnknownType == Unknown \in Versions /\ NoEntry \in Entry /\ NoTable \in [Files -> Versions]
  BY FilesAssumption DEF Unknown, Versions, Version, NoEntry, Entry, Time, Status, NoTable

LEMMA FilesInitType == FilesInit => FilesTypeOK
<1> SUFFICES ASSUME FilesInit PROVE FilesTypeOK
  OBVIOUS
<1>1. PICK there \in SUBSET Edited :
        /\ disk = [f \in Files |-> IF f \in there THEN 1 ELSE 0]
        /\ mtime = disk
        /\ fileTable = [f \in Files |-> [NoEntry EXCEPT !.latest = disk[f]]]
        /\ \E other \in [Files -> UNION {Elsewhere(f) : f \in Files}] :
             /\ \A f \in Files : other[f] \in Elsewhere(f)
             /\ world = [f \in Files |->
                           IF f \in there THEN Merge(Unknown, fileTable[f]) ELSE other[f]]
  BY DEF FilesInit
<1>2. 0 \in Time /\ 1 \in Time
  BY FilesAssumption DEF Time
<1>3. disk \in [Files -> Time] /\ mtime \in [Files -> Time]
  BY <1>1, <1>2
<1>4. fileTable \in [Files -> Entry]
  BY <1>1, <1>3, UnknownType DEF NoEntry, Entry
<1>5. ASSUME NEW f \in Files PROVE Elsewhere(f) \subseteq Versions
  <2>1. Sizes[f][1] \in Nat
    BY FilesAssumption
  <2>2. \A h \in Holders[f] : h \in Nat
    BY FilesAssumption
  <2> QED BY <1>2, <2>1, <2>2, UnknownType DEF Elsewhere, Versions, Version, Status
<1>6. world \in [Files -> Versions]
  BY <1>1, <1>4, <1>5, UnknownType, MergeType
<1>7. clock \in Time /\ events = <<>>
  BY <1>2 DEF FilesInit
<1> QED BY <1>3, <1>4, <1>6, <1>7, FilesAssumption DEF FilesTypeOK

\* A report of this peer.
LEMMA ReportType ==
  ASSUME FilesTypeOK, fileTable' \in [Files -> Entry], sendTracker
  PROVE  world' \in [Files -> Versions]
  BY MergeType DEF FilesTypeOK, sendTracker

LEMMA MonitorType ==
  ASSUME FilesTypeOK, Monitor
  PROVE  FilesTypeOK'
<1> DEFINE f == Head(events).file
<1>1. /\ f \in Files /\ events' \in Seq([file : Files, kind : {"IN_CLOSE_WRITE", "IN_DELETE"}])
      /\ Len(events') <= MaxEvents
  <2> DEFINE S == [file : Files, kind : {"IN_CLOSE_WRITE", "IN_DELETE"}]
  <2>1. events \in Seq(S) /\ events # <<>> /\ events' = Tail(events)
    BY DEF FilesTypeOK, Monitor
  <2>2. Len(events) \in Nat /\ Len(events) <= MaxEvents
    BY <2>1, LenProperties DEF FilesTypeOK
  <2> HIDE DEF S
  <2>3. Head(events) \in S /\ Tail(events) \in Seq(S) /\ Len(Tail(events)) = Len(events) - 1
    BY <2>1, HeadTailProperties
  <2> QED BY <2>1, <2>2, <2>3, FilesAssumption DEF S
<1> HIDE DEF f
<1>2. \A t \in ModifyTimes(f) : t \in Time
  BY <1>1 DEF ModifyTimes, FilesTypeOK
<1>3. /\ fileTable[f] \in Entry /\ 0 \in Time
      /\ "READ_N_WRITE" \in Status /\ "DELETED" \in Status
  BY <1>1, FilesAssumption DEF FilesTypeOK, Time, Status
<1>4. fileTable' \in [Files -> Entry] /\ world' \in [Files -> Versions]
  <2>1. CASE fileAdded(f)
    BY <1>1, <1>2, <1>3, <2>1, ReportType DEF fileAdded, FilesTypeOK, Entry
  <2>2. CASE Synced(f)
    BY <1>1, <1>3, <2>2 DEF Synced, FilesTypeOK, Entry
  <2>3. CASE fileModified(f)
    BY <1>1, <1>2, <1>3, <2>3, ReportType DEF fileModified, FilesTypeOK, Entry
  <2>4. CASE fileDeleted(f)
    <3>1. CASE UNCHANGED <<fileTable, world>>
      BY <3>1 DEF FilesTypeOK
    <3>2. CASE sendTracker /\ fileTable' = [fileTable EXCEPT
                 ![f] = [latest |-> clock, prev |-> @.latest, status |-> "DELETED"]]
      <4>1. [latest |-> clock, prev |-> fileTable[f].latest, status |-> "DELETED"] \in Entry
        BY <1>3 DEF FilesTypeOK, Entry
      <4>2. fileTable' \in [Files -> Entry]
        BY <1>1, <3>2, <4>1 DEF FilesTypeOK
      <4> QED BY <3>2, <4>2, ReportType
    <3> QED BY <2>4, <3>1, <3>2 DEF fileDeleted
  <2> QED BY <2>1, <2>2, <2>3, <2>4 DEF Monitor, fileCloseWrite, f
<1> QED BY <1>1, <1>4 DEF Monitor, FilesTypeOK

\* What a program does to a file.
LEMMA RaiseType ==
  ASSUME FilesTypeOK, NEW f \in Files, NEW kind \in {"IN_CLOSE_WRITE", "IN_DELETE"},
         Raise(f, kind)
  PROVE  /\ events' \in Seq([file : Files, kind : {"IN_CLOSE_WRITE", "IN_DELETE"}])
         /\ Len(events') <= MaxEvents
  BY FilesAssumption DEF FilesTypeOK, Raise, Event

LEMMA OthersType ==
  ASSUME FilesTypeOK, Others
  PROVE  FilesTypeOK'
<1>1. PICK f \in Files : OtherWrites(f) \/ OtherDeletes(f) \/ HoldersEnd(f) \/ Edit(f) \/ Remove(f)
  BY DEF Others
<1>2. world[f] \in Versions /\ 0 \in Time
  BY FilesAssumption DEF FilesTypeOK, Time
<1>3. CASE OtherWrites(f)
  <2>1. clock' \in Time /\ clock' \in 1 .. Len(Sizes[f])
    BY <1>3, FilesAssumption DEF OtherWrites, Newer, FilesTypeOK, Time
  <2>2. Sizes[f][clock'] \in Nat
    BY <2>1, FilesAssumption
  <2>3. PICK h \in Holders[f], old \in {0, world[f].latest} :
          world' = [world EXCEPT ![f] = Version(clock', old, "READ_N_WRITE", Sizes[f][clock'], h)]
    BY <1>3 DEF OtherWrites
  <2>4. Version(clock', old, "READ_N_WRITE", Sizes[f][clock'], h) \in Versions
    BY <1>2, <2>1, <2>2, FilesAssumption DEF Version, Versions, Status
  <2> QED BY <1>3, <2>1, <2>3, <2>4 DEF OtherWrites, FilesTypeOK
<1>4. CASE OtherDeletes(f)
  <2>1. clock' \in Time
    BY <1>4, FilesAssumption DEF OtherDeletes, Newer, FilesTypeOK, Time
  <2>2. world' \in [Files -> Versions]
    BY <1>2, <1>4, <2>1 DEF OtherDeletes, FilesTypeOK, Versions, Status
  <2> QED BY <1>4, <2>1, <2>2 DEF OtherDeletes, FilesTypeOK
<1>5. CASE HoldersEnd(f)
  <2>1. PICK h \in Holders[f] : world' = [world EXCEPT ![f].peerNum = h]
    BY <1>5 DEF HoldersEnd
  <2>2. h \in Nat
    BY FilesAssumption
  <2>3. [world[f] EXCEPT !.peerNum = h] \in Versions
    BY <1>2, <2>2 DEF Versions
  <2> QED BY <1>5, <2>1, <2>3 DEF HoldersEnd, FilesTypeOK
<1>6. CASE Edit(f)
  <2>1. clock' \in Time
    BY <1>6, FilesAssumption DEF Edit, FilesTypeOK, Time
  <2> QED BY <1>6, <2>1, RaiseType DEF Edit, FilesTypeOK
<1>7. CASE Remove(f)
  BY <1>2, <1>7, RaiseType DEF Remove, FilesTypeOK
<1> QED BY <1>1, <1>3, <1>4, <1>5, <1>6, <1>7

(* The list of tasks, with the threads as they are. *)

LEMMA Parts == IInv <=> MainType /\ ThreadsInv
  BY DEF IInv, TypeOK, MainType, ThreadsInv, TasksType

LEMMA SameThreads ==
  ASSUME ThreadsInv, UNCHANGED <<tasks, threads>>
  PROVE  ThreadsInv'
  BY DEF ThreadsInv, TasksType, OneTaskPerFile, ThreadsHaveTask, PiecesOfTask,
         PiecesAreAssignedOnce

LEMMA LenIsNat == ThreadsInv => Len(tasks) \in Nat
  BY LenProperties DEF ThreadsInv, TasksType

\* The task at i becomes k, for the same version of the same file.
LEMMA ChangeTask ==
  ASSUME ThreadsInv, NEW i \in 1 .. Len(tasks), NEW k \in Tasks,
         k.file = tasks[i].file, k.ts = tasks[i].ts,
         tasks' = [tasks EXCEPT ![i] = k]
  PROVE  /\ tasks' \in Seq(Tasks) /\ Len(tasks') = Len(tasks)
         /\ tasks'[i] = k
         /\ \A j \in 1 .. Len(tasks) : j # i => tasks'[j] = tasks[j]
         /\ \A j \in 1 .. Len(tasks) :
              Id(tasks'[j]) = Id(tasks[j]) /\ tasks'[j].file = tasks[j].file
<1>1. tasks \in Seq(Tasks)
  BY DEF ThreadsInv, TasksType
<1>2. /\ tasks' \in Seq(Tasks) /\ Len(tasks') = Len(tasks)
      /\ \A j \in 1 .. Len(tasks) : tasks'[j] = IF j = i THEN k ELSE tasks[j]
  BY <1>1, ExceptSeq
<1> QED BY <1>2 DEF Id

\* The same tasks, of which no more pieces wait, and threads with no more pieces.
LEMMA FewerPieces ==
  ASSUME ThreadsInv,
         tasks' \in Seq(Tasks), Len(tasks') = Len(tasks),
         \A i \in 1 .. Len(tasks) :
           /\ Id(tasks'[i]) = Id(tasks[i]) /\ tasks'[i].file = tasks[i].file
           /\ tasks'[i].total = tasks[i].total /\ tasks'[i].left = tasks[i].left
           /\ tasks'[i].waiting \subseteq tasks[i].waiting,
         threads' \subseteq Threads,
         \A u \in threads' : \E t \in threads : u.task = t.task /\ u.pieces \subseteq t.pieces,
         \A t \in threads', u \in threads' : t # u /\ u.task = t.task => u.pieces \cap t.pieces = {}
  PROVE  ThreadsInv'
<1>1. TasksType'
  BY DEF ThreadsInv, TasksType
<1>2. OneTaskPerFile'
  BY DEF ThreadsInv, OneTaskPerFile
<1>3. ThreadsHaveTask'
  <2> SUFFICES ASSUME NEW u \in threads'
               PROVE  \E i \in 1 .. Len(tasks') : Id(tasks'[i]) = u.task
    BY DEF ThreadsHaveTask
  <2>1. PICK t \in threads : u.task = t.task
    OBVIOUS
  <2>2. PICK i \in 1 .. Len(tasks) : Id(tasks[i]) = t.task
    BY DEF ThreadsInv, ThreadsHaveTask
  <2> QED BY <2>1, <2>2
<1>4. PiecesOfTask'
  <2> SUFFICES ASSUME NEW u \in threads', NEW i \in 1 .. Len(tasks'), u.task = Id(tasks'[i])
               PROVE  u.pieces \subseteq Pieces(tasks'[i].total)
    BY DEF PiecesOfTask
  <2>1. PICK t \in threads : u.task = t.task /\ u.pieces \subseteq t.pieces
    OBVIOUS
  <2>2. t.task = Id(tasks[i]) /\ i \in 1 .. Len(tasks)
    BY <2>1
  <2> QED BY <2>1, <2>2 DEF ThreadsInv, PiecesOfTask
<1>5. PiecesAreAssignedOnce'
  <2>1. ASSUME NEW u \in threads', NEW i \in 1 .. Len(tasks'), u.task = Id(tasks'[i])
        PROVE  u.pieces \cap tasks'[i].waiting = {}
    <3>1. PICK t \in threads : u.task = t.task /\ u.pieces \subseteq t.pieces
      OBVIOUS
    <3>2. t.task = Id(tasks[i]) /\ i \in 1 .. Len(tasks)
      BY <2>1, <3>1
    <3>3. t.pieces \cap tasks[i].waiting = {}
      BY <3>2 DEF ThreadsInv, PiecesAreAssignedOnce
    <3> QED BY <3>1, <3>2, <3>3
  <2> QED BY <2>1 DEF PiecesAreAssignedOnce
<1> QED BY <1>1, <1>2, <1>3, <1>4, <1>5 DEF ThreadsInv

\* A task whose pieces are as they were, and threads that go on or end.
ThreadsGo ==
  /\ threads' \subseteq Threads
  /\ \A u \in threads' : \E t \in threads : u.task = t.task /\ u.pieces \subseteq t.pieces
  /\ \A t \in threads', u \in threads' : t # u /\ u.task = t.task => u.pieces \cap t.pieces = {}

LEMMA SamePieces ==
  ASSUME ThreadsInv, NEW i \in 1 .. Len(tasks), NEW k \in Tasks,
         k.file = tasks[i].file, k.ts = tasks[i].ts, k.waiting = tasks[i].waiting,
         k.total = tasks[i].total, k.left = tasks[i].left,
         tasks' = [tasks EXCEPT ![i] = k], ThreadsGo
  PROVE  ThreadsInv' /\ Len(tasks') = Len(tasks)
<1>1. /\ tasks' \in Seq(Tasks) /\ Len(tasks') = Len(tasks)
      /\ tasks'[i] = k
      /\ \A j \in 1 .. Len(tasks) : j # i => tasks'[j] = tasks[j]
      /\ \A j \in 1 .. Len(tasks) :
           Id(tasks'[j]) = Id(tasks[j]) /\ tasks'[j].file = tasks[j].file
  BY ChangeTask
<1>2. ASSUME NEW j \in 1 .. Len(tasks)
      PROVE  /\ tasks'[j].total = tasks[j].total /\ tasks'[j].left = tasks[j].left
             /\ tasks'[j].waiting = tasks[j].waiting
  BY <1>1
<1> QED BY <1>1, <1>2, FewerPieces DEF ThreadsGo

LEMMA ThreadsStay == ThreadsInv /\ threads' = threads => ThreadsGo
  BY DEF ThreadsInv, PiecesAreAssignedOnce, ThreadsGo

\* A thread for the task at i, with pieces of it that wait no longer.
LEMMA ThreadStarts ==
  ASSUME ThreadsInv, NEW i \in 1 .. Len(tasks), NEW w \in Threads,
         w.task = Id(tasks[i]), w.pieces \subseteq tasks[i].waiting,
         tasks' \in Seq(Tasks), Len(tasks') = Len(tasks),
         \A j \in 1 .. Len(tasks) :
           /\ Id(tasks'[j]) = Id(tasks[j]) /\ tasks'[j].file = tasks[j].file
           /\ tasks'[j].total = tasks[j].total /\ tasks'[j].left = tasks[j].left
           /\ tasks'[j].waiting \subseteq tasks[j].waiting,
         tasks'[i].waiting \cap w.pieces = {},
         threads' = threads \cup {w}
  PROVE  ThreadsInv'
<1>1. TasksType'
  BY DEF ThreadsInv, TasksType
<1>2. OneTaskPerFile' /\ threads' \subseteq Threads
  BY DEF ThreadsInv, OneTaskPerFile
<1>3. ThreadsHaveTask'
  BY DEF ThreadsInv, ThreadsHaveTask
<1>4. ASSUME NEW j \in 1 .. Len(tasks), w.task = Id(tasks[j]) PROVE j = i
  BY <1>4 DEF ThreadsInv, OneTaskPerFile, Id
<1>5. PiecesOfTask'
  BY <1>4 DEF ThreadsInv, PiecesOfTask, TasksType
<1>6. ASSUME NEW t \in threads, t.task = w.task PROVE t.pieces \cap w.pieces = {}
  BY <1>6 DEF ThreadsInv, PiecesAreAssignedOnce
<1>7. ASSUME NEW t \in threads, NEW j \in 1 .. Len(tasks), t.task = Id(tasks'[j])
      PROVE  t.pieces \cap tasks'[j].waiting = {}
  BY <1>7 DEF ThreadsInv, PiecesAreAssignedOnce
<1>8. ASSUME NEW t \in threads, NEW u \in threads, t # u, t.task = u.task
      PROVE  t.pieces \cap u.pieces = {}
  BY <1>8 DEF ThreadsInv, PiecesAreAssignedOnce
<1>9. PiecesAreAssignedOnce'
  BY <1>4, <1>6, <1>7, <1>8 DEF PiecesAreAssignedOnce
<1> QED BY <1>1, <1>2, <1>3, <1>5, <1>9 DEF ThreadsInv

(* The scan of a table. *)

LEMMA NewTasksType ==
  ASSUME MainType, NEW f \in Files, NEW new \in NewTasks(f)
  PROVE  /\ new \in Tasks /\ new.file = f
         /\ new.waiting \subseteq Pieces(new.total) /\ new.left <= new.total
<1>1. table[f] \in Versions
  BY DEF MainType
<1>2. FullTask(f, table[f]) \in Tasks
  BY <1>1 DEF FullTask, Tasks, Versions, Pieces
<1>3. CASE new = FullTask(f, table[f])
  BY <1>1, <1>2, <1>3 DEF FullTask, Versions
<1>4. CASE \E d \in {"null", "junk"} : new = DeltaTask(f, table[f], d)
  <2>1. PICK d \in {"null", "junk"} : new = DeltaTask(f, table[f], d)
    BY <1>4
  <2>2. /\ new = [file |-> f, ts |-> table[f].latest, kind |-> "DELTA", waiting |-> {},
                  total |-> 0, left |-> 0, peerNum |-> table[f].peerNum,
                  addresses |-> table[f].peerNum,
                  stop |-> FALSE, delta |-> d, downloading |-> FALSE]
    BY <2>1 DEF DeltaTask, FullTask
  <2> QED BY <1>1, <2>2 DEF Tasks, Versions
<1> QED BY <1>3, <1>4 DEF NewTasks

LEMMA AddTaskKeeps ==
  ASSUME MainType, ThreadsInv, NEW f \in Files, AddTask(f)
  PROVE  ThreadsInv' /\ Len(tasks') = Len(tasks) + 1
<1>1. PICK new \in NewTasks(f) :
        /\ ~\E i \in 1 .. Len(tasks) : Same(i, new)
        /\ tasks' = Append(tasks, new)
  BY DEF AddTask
<1>2. /\ new \in Tasks /\ new.file = f
      /\ new.waiting \subseteq Pieces(new.total) /\ new.left <= new.total
  BY NewTasksType
<1>3. /\ tasks' \in Seq(Tasks) /\ Len(tasks') = Len(tasks) + 1
      /\ \A i \in 1 .. Len(tasks) : tasks'[i] = tasks[i]
      /\ tasks'[Len(tasks) + 1] = new
  BY <1>1, <1>2, AppendProperties DEF ThreadsInv, TasksType
<1>4. Len(tasks) \in Nat
  BY LenIsNat
<1>5. \A i \in 1 .. Len(tasks') :
        i \in 1 .. Len(tasks) \/ (i = Len(tasks) + 1 /\ tasks'[i] = new)
  BY <1>3, <1>4
<1>6. \A i \in 1 .. Len(tasks) : tasks[i].file # f
  BY <1>1, <1>2 DEF Same
<1>7. TasksType'
  BY <1>2, <1>3, <1>5 DEF ThreadsInv, TasksType
<1>8. OneTaskPerFile'
  BY <1>2, <1>3, <1>5, <1>6 DEF ThreadsInv, OneTaskPerFile
<1>9. threads' = threads /\ \A t \in threads : t.task # Id(new)
  BY <1>2, <1>6 DEF AddTask, ThreadsInv, ThreadsHaveTask, Id
<1>10. ThreadsHaveTask'
  BY <1>3, <1>4, <1>9 DEF ThreadsInv, ThreadsHaveTask, Id
<1>11. PiecesOfTask' /\ PiecesAreAssignedOnce'
  BY <1>3, <1>5, <1>9 DEF ThreadsInv, PiecesOfTask, PiecesAreAssignedOnce, Id
<1> QED BY <1>3, <1>7, <1>8, <1>9, <1>10, <1>11 DEF ThreadsInv

LEMMA WithoutProperties ==
  ASSUME NEW S, tasks \in Seq(S), NEW i \in 1 .. Len(tasks)
  PROVE  /\ Without(i) \in Seq(S) /\ Len(Without(i)) = Len(tasks) - 1
         /\ \A j \in 1 .. Len(tasks) - 1 :
              Without(i)[j] = IF j < i THEN tasks[j] ELSE tasks[j + 1]
<1> DEFINE a == SubSeq(tasks, 1, i - 1)
           b == SubSeq(tasks, i + 1, Len(tasks))
<1>1. Len(tasks) \in Nat /\ \A j \in 1 .. Len(tasks) : tasks[j] \in S
  BY LenProperties, ElementOfSeq
<1>2. /\ a \in Seq(S) /\ Len(a) = i - 1
      /\ \A j \in 1 .. i - 1 : a[j] = tasks[j]
  <2>1. 1 \in Int /\ i - 1 \in Int /\ \A j \in 1 .. i - 1 : tasks[j] \in S
    BY <1>1
  <2>2. /\ a \in Seq(S) /\ Len(a) = IF 1 <= i - 1 THEN i - 1 - 1 + 1 ELSE 0
        /\ \A j \in 1 .. i - 1 - 1 + 1 : a[j] = tasks[1 + j - 1]
    BY <2>1, SubSeqProperties
  <2> QED BY <1>1, <2>2
<1>3. /\ b \in Seq(S) /\ Len(b) = Len(tasks) - i
      /\ \A j \in 1 .. Len(tasks) - i : b[j] = tasks[i + j]
  <2>1. i + 1 \in Int /\ Len(tasks) \in Int /\ \A j \in i + 1 .. Len(tasks) : tasks[j] \in S
    BY <1>1
  <2>2. /\ b \in Seq(S)
        /\ Len(b) = IF i + 1 <= Len(tasks) THEN Len(tasks) - (i + 1) + 1 ELSE 0
        /\ \A j \in 1 .. Len(tasks) - (i + 1) + 1 : b[j] = tasks[(i + 1) + j - 1]
    BY <2>1, SubSeqProperties
  <2> QED BY <1>1, <2>2
<1> HIDE DEF a, b
<1>4. /\ a \o b \in Seq(S) /\ Len(a \o b) = Len(a) + Len(b)
      /\ \A j \in 1 .. Len(a) + Len(b) :
           (a \o b)[j] = IF j <= Len(a) THEN a[j] ELSE b[j - Len(a)]
  BY <1>2, <1>3, ConcatProperties
<1>5. ASSUME NEW j \in 1 .. Len(tasks) - 1
      PROVE  (a \o b)[j] = IF j < i THEN tasks[j] ELSE tasks[j + 1]
  <2>1. CASE j < i
    BY <1>1, <1>2, <1>3, <1>4, <2>1
  <2>2. CASE ~(j < i)
    <3>1. (a \o b)[j] = b[j - (i - 1)]
      BY <1>1, <1>2, <1>3, <1>4, <2>2
    <3>2. b[j - (i - 1)] = tasks[i + (j - (i - 1))]
      <4>1. j - (i - 1) \in 1 .. Len(tasks) - i
        BY <1>1, <2>2
      <4> QED BY <1>3, <4>1
    <3>3. i + (j - (i - 1)) = j + 1
      BY <1>1
    <3> QED BY <2>2, <3>1, <3>2, <3>3
  <2> QED BY <2>1, <2>2
<1>6. Len(a \o b) = Len(tasks) - 1
  BY <1>1, <1>2, <1>3, <1>4
<1> QED BY <1>4, <1>5, <1>6 DEF Without, a, b

LEMMA ReplaceTaskKeeps ==
  ASSUME MainType, ThreadsInv, NEW f \in Files, ReplaceTask(f)
  PROVE  ThreadsInv' /\ Len(tasks') = Len(tasks)
<1>1. PICK new \in NewTasks(f), i \in 1 .. Len(tasks) :
        /\ Same(i, new)
        /\ tasks' = Append(Without(i), new)
        /\ threads' = WithoutThreadsOf(Id(tasks[i]))
  BY DEF ReplaceTask
<1>2. /\ new \in Tasks /\ new.file = f /\ tasks[i].file = f
      /\ new.waiting \subseteq Pieces(new.total) /\ new.left <= new.total
  BY <1>1, NewTasksType DEF Same
<1>3. /\ Without(i) \in Seq(Tasks) /\ Len(Without(i)) = Len(tasks) - 1
      /\ \A j \in 1 .. Len(tasks) - 1 :
           Without(i)[j] = IF j < i THEN tasks[j] ELSE tasks[j + 1]
  BY WithoutProperties DEF ThreadsInv, TasksType
<1>4. Len(tasks) \in Nat
  BY LenIsNat
<1>5. /\ tasks' \in Seq(Tasks) /\ Len(tasks') = Len(tasks)
      /\ \A j \in 1 .. Len(tasks) - 1 : tasks'[j] = Without(i)[j]
      /\ tasks'[Len(tasks)] = new
  BY <1>1, <1>2, <1>3, <1>4, AppendProperties
\* Where a task of the new list was.
<1> DEFINE Was(j) == IF j < i THEN j ELSE j + 1
<1>6. \A j \in 1 .. Len(tasks) - 1 :
        Was(j) \in 1 .. Len(tasks) /\ Was(j) # i /\ tasks'[j] = tasks[Was(j)]
  BY <1>3, <1>4, <1>5
<1>7. \A k \in 1 .. Len(tasks) : k # i => \E j \in 1 .. Len(tasks) - 1 : Was(j) = k
  <2> SUFFICES ASSUME NEW k \in 1 .. Len(tasks), k # i
               PROVE  \E j \in 1 .. Len(tasks) - 1 : Was(j) = k
    OBVIOUS
  <2>1. CASE k < i
    BY <1>4, <2>1
  <2>2. CASE k > i
    <3>1. k - 1 \in 1 .. Len(tasks) - 1 /\ Was(k - 1) = k
      BY <1>4, <2>2
    <3> QED BY <3>1
  <2> QED BY <2>1, <2>2
<1>8. \A j, k \in 1 .. Len(tasks) - 1 : Was(j) = Was(k) => j = k
  BY <1>4
<1> HIDE DEF Was
<1>9. \A j \in 1 .. Len(tasks') : j \in 1 .. Len(tasks) - 1 \/ (j = Len(tasks) /\ tasks'[j] = new)
  BY <1>4, <1>5
<1>10. \A k \in 1 .. Len(tasks) : k # i => tasks[k].file # f
  BY <1>2 DEF ThreadsInv, OneTaskPerFile
<1>11. TasksType'
  BY <1>2, <1>5, <1>6, <1>9 DEF ThreadsInv, TasksType
<1>12. OneTaskPerFile'
  <2>1. \A j \in 1 .. Len(tasks) - 1 : tasks'[j].file # f
    BY <1>6, <1>10
  <2>2. \A j, k \in 1 .. Len(tasks) - 1 : tasks'[j].file = tasks'[k].file => j = k
    BY <1>6, <1>8 DEF ThreadsInv, OneTaskPerFile
  <2> QED BY <1>2, <1>9, <2>1, <2>2 DEF OneTaskPerFile
<1>13. /\ threads' \subseteq threads
       /\ \A t \in threads' : t.task # Id(tasks[i])
  BY <1>1 DEF WithoutThreadsOf
<1>14. \A t \in threads' : \E k \in 1 .. Len(tasks) : k # i /\ Id(tasks[k]) = t.task
  BY <1>13 DEF ThreadsInv, ThreadsHaveTask
<1>15. ThreadsHaveTask'
  <2> SUFFICES ASSUME NEW t \in threads'
               PROVE  \E j \in 1 .. Len(tasks') : Id(tasks'[j]) = t.task
    BY DEF ThreadsHaveTask
  <2>1. PICK k \in 1 .. Len(tasks) : k # i /\ Id(tasks[k]) = t.task
    BY <1>14
  <2>2. PICK j \in 1 .. Len(tasks) - 1 : Was(j) = k
    BY <1>7, <2>1
  <2>3. j \in 1 .. Len(tasks') /\ tasks'[j] = tasks[k]
    BY <1>4, <1>5, <1>6, <2>2
  <2> QED BY <2>1, <2>3 DEF Id
<1>16. \A t \in threads' : t.task # Id(new)
  BY <1>2, <1>10, <1>14 DEF Id
<1>17. ASSUME NEW t \in threads', NEW j \in 1 .. Len(tasks'), t.task = Id(tasks'[j])
       PROVE  t.pieces \subseteq Pieces(tasks'[j].total) /\ t.pieces \cap tasks'[j].waiting = {}
  <2>1. j \in 1 .. Len(tasks) - 1
    BY <1>9, <1>16, <1>17 DEF Id
  <2>2. Was(j) \in 1 .. Len(tasks) /\ tasks'[j] = tasks[Was(j)] /\ t \in threads
    BY <1>6, <1>13, <2>1
  <2>3. t.task = Id(tasks[Was(j)])
    BY <1>17, <2>2 DEF Id
  <2> QED BY <2>2, <2>3 DEF ThreadsInv, PiecesOfTask, PiecesAreAssignedOnce
<1>18. PiecesOfTask'
  BY <1>17 DEF PiecesOfTask
<1>19. PiecesAreAssignedOnce'
  BY <1>13, <1>17 DEF ThreadsInv, PiecesAreAssignedOnce
<1> QED BY <1>5, <1>11, <1>12, <1>13, <1>15, <1>18, <1>19 DEF ThreadsInv

LEMMA UpdatePeersKeeps ==
  ASSUME MainType, ThreadsInv, NEW f \in Files, UpdatePeers(f)
  PROVE  ThreadsInv' /\ Len(tasks') = Len(tasks)
<1>1. PICK new \in NewTasks(f), i \in 1 .. Len(tasks) :
        tasks' = [tasks EXCEPT ![i].peerNum = new.peerNum,
          ![i].stop = @ \/ (tasks[i].kind = "FULL" /\ tasks[i].left > BIGFILE_THRES)]
  BY DEF UpdatePeers
<1> DEFINE stop == tasks[i].stop \/ (tasks[i].kind = "FULL" /\ tasks[i].left > BIGFILE_THRES)
           k == [tasks[i] EXCEPT !.peerNum = new.peerNum, !.stop = stop]
<1>2. tasks \in Seq(Tasks) /\ tasks[i] \in Tasks
  BY ElementOfSeq DEF ThreadsInv, TasksType
<1>3. new.peerNum \in Nat
  BY NewTasksType DEF Tasks
<1>4. stop \in BOOLEAN
  BY <1>2 DEF Tasks
<1>5. tasks' = [tasks EXCEPT ![i] = k]
  BY <1>1, <1>2
<1> HIDE DEF stop
<1>6. /\ k \in Tasks /\ k.file = tasks[i].file /\ k.ts = tasks[i].ts
      /\ k.waiting = tasks[i].waiting /\ k.total = tasks[i].total /\ k.left = tasks[i].left
  BY <1>2, <1>3, <1>4 DEF Tasks
<1> HIDE DEF k
<1>7. threads' = threads
  BY DEF UpdatePeers
<1> QED BY <1>5, <1>6, <1>7, ThreadsStay, SamePieces

(* The scan of the list. *)

LEMMA TypeOfCur ==
  ASSUME MainType, ThreadsInv, at <= Len(tasks)
  PROVE  at \in 1 .. Len(tasks) /\ cur \in Tasks
<1>1. at \in 1 .. Len(tasks)
  BY LenIsNat DEF MainType
<1> QED BY <1>1, ElementOfSeq DEF ThreadsInv, TasksType, cur

LEMMA MarkDeltaKeeps ==
  ASSUME MainType, ThreadsInv, MarkDelta
  PROVE  ThreadsInv' /\ Len(tasks') = Len(tasks)
<1> DEFINE k == [tasks[at] EXCEPT !.downloading = TRUE]
<1>1. at \in 1 .. Len(tasks) /\ tasks[at] \in Tasks
  BY TypeOfCur DEF MarkDelta, At, cur
<1>2. /\ k \in Tasks /\ k.file = tasks[at].file /\ k.ts = tasks[at].ts
      /\ k.waiting = tasks[at].waiting /\ k.total = tasks[at].total /\ k.left = tasks[at].left
  BY <1>1 DEF Tasks
<1>3. tasks' = [tasks EXCEPT ![at] = k] /\ threads' = threads
  BY DEF MarkDelta
<1> HIDE DEF k
<1> QED BY <1>1, <1>2, <1>3, ThreadsStay, SamePieces

LEMMA StartDeltaKeeps ==
  ASSUME MainType, ThreadsInv, StartDelta
  PROVE  ThreadsInv' /\ Len(tasks') = Len(tasks)
<1> DEFINE w == [task |-> Id(cur), peer |-> 1, pieces |-> {}, at |-> "connect"]
<1>1. at \in 1 .. Len(tasks) /\ cur \in Tasks /\ cur = tasks[at]
  BY TypeOfCur DEF StartDelta, At, cur
<1>2. w \in Threads /\ w.task = Id(tasks[at]) /\ w.pieces = {}
  BY <1>1 DEF Threads, Tasks, Id
<1>3. threads' = threads \cup {w} /\ tasks' = tasks
  BY DEF StartDelta, Wake
<1>4. tasks \in Seq(Tasks)
  BY DEF ThreadsInv, TasksType
<1> HIDE DEF w
<1> QED BY <1>1, <1>2, <1>3, <1>4, ThreadStarts

LEMMA StartThreadKeeps ==
  ASSUME MainType, ThreadsInv, StartThread
  PROVE  ThreadsInv' /\ Len(tasks') = Len(tasks)
<1> DEFINE first == Firsts(cur.waiting, Share)
           w == [task |-> Id(cur), peer |-> split.peer, pieces |-> first, at |-> "connect"]
           k == [tasks[at] EXCEPT !.waiting = tasks[at].waiting \ first]
<1>1. at \in 1 .. Len(tasks) /\ cur \in Tasks /\ cur = tasks[at]
  BY TypeOfCur DEF StartThread, At, cur
<1>2. first \subseteq cur.waiting /\ cur.waiting \subseteq Nat
  BY <1>1 DEF Firsts, Tasks
<1>3. threads' = threads \cup {w}
  BY DEF StartThread, Wake
<1>4. tasks' = [tasks EXCEPT ![at] = k]
  BY <1>1 DEF StartThread
<1>5. split.peer \in Nat
  BY DEF MainType
<1> HIDE DEF first
<1>6. w \in Threads /\ w.task = Id(tasks[at]) /\ w.pieces = first
  BY <1>1, <1>2, <1>5 DEF Threads, Tasks, Id
<1>7. /\ k \in Tasks /\ k.file = tasks[at].file /\ k.ts = tasks[at].ts
      /\ k.waiting = tasks[at].waiting \ first
      /\ k.total = tasks[at].total /\ k.left = tasks[at].left
  BY <1>1, <1>2 DEF Tasks
<1> HIDE DEF w, k
<1>8. /\ tasks' \in Seq(Tasks) /\ Len(tasks') = Len(tasks)
      /\ tasks'[at] = k
      /\ \A j \in 1 .. Len(tasks) : j # at => tasks'[j] = tasks[j]
      /\ \A j \in 1 .. Len(tasks) :
           Id(tasks'[j]) = Id(tasks[j]) /\ tasks'[j].file = tasks[j].file
  BY <1>1, <1>4, <1>7, ChangeTask
<1>9. ASSUME NEW j \in 1 .. Len(tasks)
      PROVE  /\ tasks'[j].total = tasks[j].total /\ tasks'[j].left = tasks[j].left
             /\ tasks'[j].waiting \subseteq tasks[j].waiting
  BY <1>7, <1>8
<1>10. w.pieces \subseteq tasks[at].waiting /\ tasks'[at].waiting \cap w.pieces = {}
  BY <1>1, <1>2, <1>6, <1>7, <1>8
<1> QED BY <1>1, <1>3, <1>6, <1>8, <1>9, <1>10, ThreadStarts

(* The download threads. *)

LEMMA IndexOfThread ==
  ASSUME ThreadsInv, NEW t \in threads
  PROVE  /\ Index(t) \in 1 .. Len(tasks) /\ task(t) \in Tasks /\ task(t) = tasks[Index(t)]
         /\ Id(tasks[Index(t)]) = t.task
         /\ \A i \in 1 .. Len(tasks) : Id(tasks[i]) = t.task => i = Index(t)
<1>1. Index(t) \in 1 .. Len(tasks) /\ Id(tasks[Index(t)]) = t.task
  BY DEF ThreadsInv, ThreadsHaveTask, Index
<1>2. task(t) = tasks[Index(t)] /\ task(t) \in Tasks
  BY <1>1, ElementOfSeq DEF ThreadsInv, TasksType, task
<1>3. ASSUME NEW i \in 1 .. Len(tasks), Id(tasks[i]) = t.task PROVE i = Index(t)
  BY <1>1, <1>3 DEF ThreadsInv, OneTaskPerFile, Id
<1> QED BY <1>1, <1>2, <1>3

\* The thread becomes another of the same task, or ends.
LEMMA BecomesGoes ==
  ASSUME ThreadsInv, NEW t \in threads, NEW new \in SUBSET Threads, Becomes(t, new),
         \A u \in new : u.task = t.task /\ u.pieces \subseteq t.pieces,
         \A u, v \in new : u = v
  PROVE  ThreadsGo
<1>1. threads' = (threads \ {t}) \cup new /\ threads' \subseteq Threads
  BY DEF Becomes, ThreadsInv
<1>2. \A u \in threads' : \E v \in threads : u.task = v.task /\ u.pieces \subseteq v.pieces
  BY <1>1
<1>3. \A u, v \in threads : u # v /\ u.task = v.task => u.pieces \cap v.pieces = {}
  BY DEF ThreadsInv, PiecesAreAssignedOnce
<1>4. ASSUME NEW u \in threads \ {t}, NEW v \in new, u.task = v.task
      PROVE  u.pieces \cap v.pieces = {}
  BY <1>3, <1>4
<1>5. \A u \in threads', v \in threads' : u # v /\ v.task = u.task => v.pieces \cap u.pieces = {}
  <2> SUFFICES ASSUME NEW u \in threads', NEW v \in threads', u # v, v.task = u.task
               PROVE  v.pieces \cap u.pieces = {}
    OBVIOUS
  <2>1. CASE u \in threads \ {t} /\ v \in threads \ {t}
    BY <1>3, <2>1
  <2>2. CASE u \in threads \ {t} /\ v \in new
    BY <1>4, <2>2
  <2>3. CASE u \in new /\ v \in threads \ {t}
    BY <1>4, <2>3
  <2>4. CASE u \in new /\ v \in new
    BY <2>4
  <2> QED BY <1>1, <2>1, <2>2, <2>3, <2>4
<1> QED BY <1>1, <1>2, <1>5 DEF ThreadsGo

LEMMA EndGoes ==
  ASSUME ThreadsInv, NEW t \in threads, End(t)
  PROVE  ThreadsGo
  BY BecomesGoes DEF End

LEMMA GotoGoes ==
  ASSUME ThreadsInv, NEW t \in threads, NEW state \in {"connect", "answer", "reset"},
         Goto(t, state)
  PROVE  ThreadsGo
<1> DEFINE u == [t EXCEPT !.at = state]
<1>1. u \in Threads /\ u.task = t.task /\ u.pieces = t.pieces
  BY DEF ThreadsInv, Threads
<1>2. Becomes(t, {u})
  BY DEF Goto
<1> HIDE DEF u
<1> QED BY <1>1, <1>2, BecomesGoes

\* The tasks are as they were.
LEMMA OnlyThreads ==
  ASSUME ThreadsInv, tasks' = tasks, ThreadsGo
  PROVE  ThreadsInv' /\ Len(tasks') = Len(tasks)
  BY FewerPieces DEF ThreadsInv, TasksType, ThreadsGo

\* The delta of the thread's task is set.
LEMMA SetDelta ==
  ASSUME ThreadsInv, NEW t \in threads, ThreadsGo,
         NEW delta \in {"null", "junk", "data"}, NEW downloading \in BOOLEAN,
         tasks' = [tasks EXCEPT ![Index(t)] =
                    [tasks[Index(t)] EXCEPT !.delta = delta, !.downloading = downloading]]
  PROVE  ThreadsInv' /\ Len(tasks') = Len(tasks)
<1> DEFINE i == Index(t)
           k == [tasks[i] EXCEPT !.delta = delta, !.downloading = downloading]
<1>1. i \in 1 .. Len(tasks) /\ tasks[i] \in Tasks
  BY IndexOfThread
<1> HIDE DEF i
<1>2. /\ k \in Tasks /\ k.file = tasks[i].file /\ k.ts = tasks[i].ts
      /\ k.waiting = tasks[i].waiting /\ k.total = tasks[i].total /\ k.left = tasks[i].left
  BY <1>1 DEF Tasks
<1>3. tasks' = [tasks EXCEPT ![i] = k]
  BY DEF i
<1> HIDE DEF k
<1> QED BY <1>1, <1>2, <1>3, SamePieces

\* A piece that a thread gives back is no other thread's.
LEMMA ResetKeeps ==
  ASSUME ThreadsInv, NEW t \in threads, Reset(t)
  PROVE  ThreadsInv' /\ Len(tasks') = Len(tasks)
<1> DEFINE i == Index(t)
<1>1. PICK p \in t.pieces :
        /\ tasks' = [tasks EXCEPT ![i].waiting = @ \cup {p}]
        /\ Becomes(t, {[t EXCEPT !.pieces = u] : u \in {t.pieces \ {p}} \ {{}}})
  BY DEF Reset
<1> DEFINE k == [tasks[i] EXCEPT !.waiting = tasks[i].waiting \cup {p}]
           new == {[t EXCEPT !.pieces = u] : u \in {t.pieces \ {p}} \ {{}}}
<1>2. /\ i \in 1 .. Len(tasks) /\ tasks[i] \in Tasks /\ Id(tasks[i]) = t.task
      /\ \A j \in 1 .. Len(tasks) : Id(tasks[j]) = t.task => j = i
  BY IndexOfThread
<1>3. t \in Threads /\ t.pieces \subseteq Pieces(tasks[i].total)
  BY <1>2 DEF ThreadsInv, PiecesOfTask
<1>4. tasks' = [tasks EXCEPT ![i] = k]
  BY <1>1
<1> HIDE DEF i
<1>5. p \in Nat
  BY <1>3 DEF Threads
<1>6. /\ k \in Tasks /\ k.file = tasks[i].file /\ k.ts = tasks[i].ts
      /\ k.waiting = tasks[i].waiting \cup {p}
      /\ k.total = tasks[i].total /\ k.left = tasks[i].left
  BY <1>2, <1>5 DEF Tasks
<1> HIDE DEF k
<1>7. /\ tasks' \in Seq(Tasks) /\ Len(tasks') = Len(tasks)
      /\ tasks'[i] = k
      /\ \A j \in 1 .. Len(tasks) : j # i => tasks'[j] = tasks[j]
      /\ \A j \in 1 .. Len(tasks) :
           Id(tasks'[j]) = Id(tasks[j]) /\ tasks'[j].file = tasks[j].file
  BY <1>2, <1>4, <1>6, ChangeTask
<1>8. \A u \in new : u \in Threads /\ u.task = t.task /\ u.pieces = t.pieces \ {p}
  BY <1>3 DEF Threads
<1>9. \A u, v \in new : u = v
  OBVIOUS
<1>10. Becomes(t, new)
  BY <1>1
<1> HIDE DEF new
<1>11. ThreadsGo
  BY <1>8, <1>9, <1>10, BecomesGoes
<1>12. threads' = (threads \ {t}) \cup new
  BY <1>10 DEF Becomes
<1>13. \A u \in threads' : u.task = t.task => p \notin u.pieces
  <2>1. \A u \in threads \ {t} : u.task = t.task => p \notin u.pieces
    BY DEF ThreadsInv, PiecesAreAssignedOnce
  <2> QED BY <1>8, <1>12, <2>1
<1>14. TasksType'
  <2>1. k.waiting \subseteq Pieces(k.total) /\ k.left <= k.total
    BY <1>2, <1>3, <1>6 DEF ThreadsInv, TasksType
  <2> QED BY <1>7, <2>1 DEF ThreadsInv, TasksType
<1>15. OneTaskPerFile'
  BY <1>7 DEF ThreadsInv, OneTaskPerFile
<1>16. ThreadsHaveTask'
  <2> SUFFICES ASSUME NEW u \in threads'
               PROVE  \E j \in 1 .. Len(tasks') : Id(tasks'[j]) = u.task
    BY DEF ThreadsHaveTask
  <2>1. PICK v \in threads : u.task = v.task
    BY <1>11 DEF ThreadsGo
  <2>2. PICK j \in 1 .. Len(tasks) : Id(tasks[j]) = v.task
    BY DEF ThreadsInv, ThreadsHaveTask
  <2> QED BY <1>7, <2>1, <2>2
<1>17. ASSUME NEW u \in threads', NEW j \in 1 .. Len(tasks'), u.task = Id(tasks'[j])
       PROVE  u.pieces \subseteq Pieces(tasks'[j].total) /\ u.pieces \cap tasks'[j].waiting = {}
  <2>1. PICK v \in threads : u.task = v.task /\ u.pieces \subseteq v.pieces
    BY <1>11 DEF ThreadsGo
  <2>2. j \in 1 .. Len(tasks) /\ v.task = Id(tasks[j])
    BY <1>7, <1>17, <2>1
  <2>3. v.pieces \subseteq Pieces(tasks[j].total) /\ v.pieces \cap tasks[j].waiting = {}
    BY <2>2 DEF ThreadsInv, PiecesOfTask, PiecesAreAssignedOnce
  <2>4. CASE j # i
    BY <1>7, <2>1, <2>2, <2>3, <2>4
  <2>5. CASE j = i
    BY <1>2, <1>6, <1>7, <1>13, <2>1, <2>2, <2>3, <2>5
  <2> QED BY <2>4, <2>5
<1>18. PiecesOfTask'
  BY <1>17 DEF PiecesOfTask
<1>19. PiecesAreAssignedOnce'
  BY <1>11, <1>17 DEF ThreadsGo, PiecesAreAssignedOnce
<1> QED BY <1>7, <1>11, <1>14, <1>15, <1>16, <1>18, <1>19 DEF ThreadsInv, ThreadsGo

LEMMA DownloadKeeps ==
  ASSUME ThreadsInv, NEW t \in threads, Download(t)
  PROVE  ThreadsInv' /\ Len(tasks') = Len(tasks)
<1>1. CASE ConnectFails(t)
  BY <1>1, EndGoes, OnlyThreads DEF ConnectFails
<1>2. CASE RequestDelta(t)
  BY <1>2, GotoGoes, OnlyThreads DEF RequestDelta
<1>3. CASE AnswerDelta(t)
  <2>1. Index(t) \in 1 .. Len(tasks) /\ tasks[Index(t)] \in Tasks
    BY IndexOfThread
  <2>2. [tasks[Index(t)] EXCEPT !.delta = "data"] =
          [tasks[Index(t)] EXCEPT !.delta = "data", !.downloading = tasks[Index(t)].downloading]
    BY <2>1 DEF Tasks
  <2>3. tasks' = [tasks EXCEPT ![Index(t)] = [tasks[Index(t)] EXCEPT !.delta = "data"]]
    BY <1>3 DEF AnswerDelta
  <2>4. tasks[Index(t)].downloading \in BOOLEAN
    BY <2>1 DEF Tasks
  <2>5. ThreadsGo
    BY <1>3, EndGoes DEF AnswerDelta
  <2> QED BY <2>2, <2>3, <2>4, <2>5, SetDelta
<1>4. CASE LoseDelta(t)
  <2>1. ThreadsGo
    BY <1>4, EndGoes DEF LoseDelta
  <2>2. tasks' = [tasks EXCEPT ![Index(t)] =
                   [tasks[Index(t)] EXCEPT !.delta = "null", !.downloading = FALSE]]
    BY <1>4 DEF LoseDelta
  <2> QED BY <2>1, <2>2, SetDelta
<1>5. CASE RequestPiece(t)
  BY <1>5, GotoGoes, OnlyThreads DEF RequestPiece
<1>6. CASE Reset(t)
  BY <1>6, ResetKeeps
<1> QED BY <1>1, <1>2, <1>3, <1>4, <1>5, <1>6 DEF Download

(* Every step. *)

LEMMA NoTasks ==
  ASSUME tasks' = <<>>, threads' = {}
  PROVE  ThreadsInv' /\ Len(tasks') = 0
<1>1. tasks' \in Seq(Tasks) /\ Len(tasks') = 0
  BY EmptySeq
<1> QED BY <1>1 DEF ThreadsInv, TasksType, OneTaskPerFile, ThreadsHaveTask, PiecesOfTask,
                    PiecesAreAssignedOnce

LEMMA MainKeepsThreads ==
  ASSUME MainType, ThreadsInv, Main
  PROVE  ThreadsInv' /\ (Len(tasks') >= Len(tasks) \/ tasks' = <<>>)
<1>1. Len(tasks) \in Nat
  BY LenIsNat
<1>2. CASE UNCHANGED <<tasks, threads>>
  BY <1>1, <1>2, SameThreads
<1>3. CASE \E f \in Files : AddTask(f)
  BY <1>1, <1>3, AddTaskKeeps
<1>4. CASE \E how \in Places : Crash(how)
  BY <1>4, NoTasks DEF Crash
<1>5. CASE \E f \in Files : ReplaceTask(f)
  BY <1>1, <1>5, ReplaceTaskKeeps
<1>6. CASE \E f \in Files : UpdatePeers(f)
  BY <1>1, <1>6, UpdatePeersKeeps
<1>7. CASE StartDelta
  BY <1>1, <1>7, StartDeltaKeeps
<1>8. CASE MarkDelta
  BY <1>1, <1>8, MarkDeltaKeeps
<1>9. CASE StartThread
  BY <1>1, <1>9, StartThreadKeeps
<1>10. ASSUME NEW f \in Files, AddTaskJunk(f) \/ ReplaceTaskFails(f)
       PROVE  \E how \in Places : Crash(how)
  BY <1>10 DEF AddTaskJunk, ReplaceTaskFails, Places
<1>11. ASSUME \/ receive_t2p_segment \/ EndScan \/ EndList \/ CompleteDelta \/ CompleteFull
              \/ WriteFull \/ StartSplit \/ EndSplit \/ SkipTask
              \/ \E f \in Files : PassOver(f)
       PROVE  UNCHANGED <<tasks, threads>>
  BY <1>11 DEF receive_t2p_segment, EndScan, EndList, CompleteDelta, CompleteFull,
       WriteFull, StartSplit, EndSplit, SkipTask, PassOver
<1> QED BY <1>2, <1>3, <1>4, <1>5, <1>6, <1>7, <1>8, <1>9, <1>10, <1>11 DEF Main

\* The main thread's share of the files and of the file table.
LEMMA MainKeepsFiles ==
  ASSUME MainType, ThreadsInv, Main
  PROVE  FilesTypeOK'
<1>1. CASE UNCHANGED fileVars
  BY <1>1 DEF MainType, FilesTypeOK, fileVars
<1>2. CASE \E f \in Files : PassOver(f)
  <2>1. PICK f \in Files : PassOver(f)
    BY <1>2
  <2>2. [fileTable[f] EXCEPT !.status = "DELETED"] \in Entry
    BY DEF MainType, FilesTypeOK, Entry, Status
  <2>3. fileTable' \in [Files -> Entry]
    BY <2>1, <2>2 DEF PassOver, MainType, FilesTypeOK
  <2> QED BY <2>1, <2>3 DEF PassOver, MainType, FilesTypeOK
<1>3. CASE CompleteDelta \/ CompleteFull
  <2>1. cur \in Tasks
    BY <1>3, TypeOfCur DEF CompleteDelta, CompleteFull, At
  <2>2. cur.file \in Files /\ cur.ts \in Time
    BY <2>1 DEF Tasks
  <2> DEFINE e == [fileTable[cur.file] EXCEPT !.status = "SYNCED", !.latest = cur.ts]
  <2>3. fileTable' = [fileTable EXCEPT ![cur.file] = e]
    BY <1>3 DEF CompleteDelta, CompleteFull
  <2>4. e \in Entry
    <3>1. fileTable[cur.file] \in Entry
      BY <2>2 DEF MainType, FilesTypeOK
    <3> QED BY <2>2, <3>1 DEF Entry, Status
  <2> HIDE DEF e
  <2>5. fileTable' \in [Files -> Entry]
    BY <2>2, <2>3, <2>4 DEF MainType, FilesTypeOK
  <2> QED BY <1>3, <2>5 DEF CompleteDelta, CompleteFull, MainType, FilesTypeOK
<1>4. CASE WriteFull
  <2>1. cur \in Tasks
    BY <1>4, TypeOfCur DEF WriteFull, At
  <2>2. cur.file \in Files /\ cur.ts \in Time
    BY <2>1 DEF Tasks
  <2>3. Raise(cur.file, "IN_CLOSE_WRITE") /\ FilesTypeOK
    BY <1>4 DEF WriteFull, MainType
  <2>4. /\ events' \in Seq([file : Files, kind : {"IN_CLOSE_WRITE", "IN_DELETE"}])
        /\ Len(events') <= MaxEvents
    BY <2>2, <2>3, RaiseType
  <2>5. disk' \in [Files -> Time] /\ mtime' \in [Files -> Time]
    BY <1>4, <2>2, <2>3 DEF WriteFull, FilesTypeOK
  <2> QED BY <1>4, <2>3, <2>4, <2>5 DEF WriteFull, FilesTypeOK
<1> QED
  BY <1>1, <1>2, <1>3, <1>4
  DEF Main, receive_t2p_segment, AddTask, AddTaskJunk, ReplaceTask, ReplaceTaskFails, Crash,
      UpdatePeers, EndScan, EndList, StartDelta, MarkDelta, StartSplit, StartThread, EndSplit,
      SkipTask

\* A positive share of the pieces for each peer.
LEMMA SplitType ==
  ASSUME MainType, ThreadsInv, Main
  PROVE  split' \in [left : Nat, each : Nat, peer : Nat]
<1>1. CASE UNCHANGED split
  BY <1>1 DEF MainType
<1>2. CASE split' = NoSplit
  BY <1>2 DEF NoSplit
<1>3. CASE StartSplit
  <2> DEFINE n == Cardinality(cur.waiting)
             m == n + cur.peerNum - 1
             each == m \div cur.peerNum
  <2>1. at \in 1 .. Len(tasks) /\ cur \in Tasks /\ cur = tasks[at]
    BY <1>3, TypeOfCur DEF StartSplit, At, cur
  <2>2. cur.waiting \subseteq 1 .. cur.total /\ cur.total \in Nat
    BY <2>1 DEF ThreadsInv, TasksType, Pieces, Tasks
  <2>3. IsFiniteSet(1 .. cur.total)
    BY <2>2, FS_Interval
  <2>4. n \in Nat
    BY <2>2, <2>3, FS_Subset, FS_CardinalityType
  <2>5. cur.peerNum \in Nat /\ cur.peerNum > 0
    BY <1>3, <2>1 DEF StartSplit, Tasks
  <2>6. split' = [left |-> n, each |-> each, peer |-> 1]
    BY <1>3 DEF StartSplit
  <2> HIDE DEF n
  <2>7. m \in Nat
    BY <2>4, <2>5
  <2> HIDE DEF m
  <2>8. each \in Nat
    BY <2>5, <2>7
  <2> HIDE DEF each
  <2> QED BY <2>4, <2>6, <2>8
<1>4. CASE StartThread
  <2>1. split' = [split EXCEPT !.left = @ - Share, !.peer = @ + 1]
    BY <1>4 DEF StartThread
  <2>2. split.left - Share \in Nat
    BY DEF MainType, Share
  <2>3. split \in [left : Nat, each : Nat, peer : Nat] /\ split.peer + 1 \in Nat
    BY DEF MainType
  <2> HIDE DEF Share
  <2> QED BY <2>1, <2>2, <2>3
<1> QED
  BY <1>1, <1>2, <1>3, <1>4
  DEF Main, receive_t2p_segment, AddTask, AddTaskJunk, ReplaceTask, ReplaceTaskFails, Crash,
      UpdatePeers, PassOver, EndScan, EndList, StartDelta, MarkDelta, CompleteDelta,
      CompleteFull, WriteFull, EndSplit, SkipTask

LEMMA MainKeepsPlace ==
  ASSUME MainType, ThreadsInv, Main
  PROVE  /\ main' \in Places /\ at' \in 1 .. Len(tasks') + 1 /\ todo' \subseteq Files
         /\ table' \in [Files -> Versions]
<1>1. Len(tasks) \in Nat /\ Len(tasks') \in Nat
  <2>1. ThreadsInv'
    BY MainKeepsThreads
  <2> QED BY <2>1, LenIsNat, LenProperties DEF ThreadsInv, TasksType
<1>2. main' \in Places /\ todo' \subseteq Files /\ table' \in [Files -> Versions]
  BY UnknownType
  DEF MainType, FilesTypeOK, Main, receive_t2p_segment, Scan, AddTask, AddTaskJunk, ReplaceTask,
      ReplaceTaskFails, Crash, UpdatePeers, PassOver, EndScan, EndList, StartDelta, MarkDelta,
      CompleteDelta, CompleteFull, WriteFull, StartSplit, StartThread, EndSplit, SkipTask,
      Save, Step, Places
<1>3. at' = 1 \/ at' = at \/ (at' = at + 1 /\ at <= Len(tasks))
  BY DEF Main, receive_t2p_segment, AddTask, AddTaskJunk, ReplaceTask,
      ReplaceTaskFails, Crash, UpdatePeers, PassOver, EndScan, EndList, StartDelta, MarkDelta,
      CompleteDelta, CompleteFull, WriteFull, StartSplit, StartThread, EndSplit, SkipTask,
      Save, Step, At
<1>4. Len(tasks') >= Len(tasks) \/ at' = 1
  <2>1. CASE UNCHANGED tasks \/ at' = 1
    BY <1>1, <2>1
  <2>2. CASE \/ StartDelta \/ MarkDelta \/ StartThread
             \/ \E f \in Files : AddTask(f) \/ ReplaceTask(f) \/ UpdatePeers(f)
    BY <1>1, <2>2, StartDeltaKeeps, MarkDeltaKeeps, StartThreadKeeps, AddTaskKeeps,
       ReplaceTaskKeeps, UpdatePeersKeeps
  <2> QED
    BY <2>1, <2>2
    DEF Main, receive_t2p_segment, AddTaskJunk, ReplaceTaskFails, Crash, PassOver, EndScan,
        EndList, CompleteDelta, CompleteFull, WriteFull, StartSplit, EndSplit, SkipTask
<1>5. at \in 1 .. Len(tasks) + 1
  BY DEF MainType
<1> QED BY <1>1, <1>2, <1>3, <1>4, <1>5

LEMMA InitInv == Init => IInv
<1> SUFFICES ASSUME Init PROVE IInv
  OBVIOUS
<1>1. tasks \in Seq(Tasks) /\ Len(tasks) = 0
  BY EmptySeq DEF Init
<1>2. FilesTypeOK
  BY FilesInitType DEF Init
<1>3. table \in [Files -> Versions]
  BY UnknownType DEF Init
<1> QED BY <1>1, <1>2, <1>3 DEF IInv, TypeOK, Init, Places, NoSplit, OneTaskPerFile,
           ThreadsHaveTask, PiecesOfTask, PiecesAreAssignedOnce

LEMMA NextInv == IInv /\ [Next]_vars => IInv'
<1> SUFFICES ASSUME IInv, [Next]_vars PROVE IInv'
  OBVIOUS
<1>1. MainType /\ ThreadsInv
  BY Parts
<1> SUFFICES MainType' /\ ThreadsInv'
  BY DEF IInv, TypeOK, MainType, ThreadsInv, TasksType
<1>2. CASE Main
  BY <1>1, <1>2, MainKeepsThreads, MainKeepsFiles, MainKeepsPlace, SplitType DEF MainType
<1>3. CASE MonitorThread
  <2>1. FilesTypeOK'
    BY <1>1, <1>3, MonitorType DEF MonitorThread, MainType
  <2>2. ThreadsInv'
    BY <1>1, <1>3, SameThreads DEF MonitorThread, taskVars
  <2> QED BY <1>1, <1>3, <2>1, <2>2 DEF MonitorThread, taskVars, MainType
<1>4. CASE Others
  <2>1. FilesTypeOK'
    BY <1>1, <1>4, OthersType DEF MainType
  <2>2. ThreadsInv'
    BY <1>1, <1>4, SameThreads DEF Others, taskVars
  <2> QED BY <1>1, <1>4, <2>1, <2>2 DEF Others, taskVars, MainType
<1>5. CASE \E t \in threads : Download(t)
  <2>1. PICK t \in threads : Download(t)
    BY <1>5
  <2>2. ThreadsInv' /\ Len(tasks') = Len(tasks)
    BY <1>1, <2>1, DownloadKeeps
  <2>3. UNCHANGED <<fileVars, main, table, todo, at, split>>
    BY <2>1 DEF Download, ConnectFails, RequestDelta, AnswerDelta, LoseDelta, RequestPiece,
                Reset, MainUnchanged
  <2>4. FilesTypeOK'
    BY <1>1, <2>3 DEF MainType, FilesTypeOK, fileVars
  <2> QED BY <1>1, <2>2, <2>3, <2>4 DEF MainType
<1>6. CASE UNCHANGED vars
  <2>1. FilesTypeOK'
    BY <1>1, <1>6 DEF MainType, FilesTypeOK, fileVars, vars
  <2>2. ThreadsInv'
    BY <1>1, <1>6, SameThreads DEF taskVars, vars
  <2> QED BY <1>1, <1>6, <2>1, <2>2 DEF taskVars, vars, MainType
<1> QED BY <1>2, <1>3, <1>4, <1>5, <1>6 DEF Next

(* The edits of the user.  No task for the file is in the list: nothing but *)
(* the user writes the file, the status is not SYNCED, and what the tracker *)
(* does not know yet an event that is not read will tell it.                *)

Unread(f) ==
  \E k \in 1 .. Len(events) : events[k].file = f /\ events[k].kind = "IN_CLOSE_WRITE"

EditInv ==
  ~Crashed =>
    \A f \in Files : ~Task(f) =>
      /\ fileTable[f].status # "SYNCED"
      /\ disk[f] # 0 => disk[f] = mtime[f] /\ (world[f].latest >= disk[f] \/ Unread(f))

\* The list keeps a task for each file that it has one for.
TasksStay == \A f : Task(f) => Task(f)'

LEMMA OneTaskChanges ==
  ASSUME ThreadsInv, NEW i \in 1 .. Len(tasks), NEW k, k.file = tasks[i].file,
         tasks' = [tasks EXCEPT ![i] = k], Len(tasks') = Len(tasks)
  PROVE  TasksStay
<1>1. DOMAIN tasks = 1 .. Len(tasks)
  BY LenProperties DEF ThreadsInv, TasksType
<1>2. \A j \in 1 .. Len(tasks) : tasks'[j].file = tasks[j].file
  BY <1>1
<1> QED BY <1>2 DEF TasksStay, Task

LEMMA AddTaskStays ==
  ASSUME MainType, ThreadsInv, NEW f \in Files, AddTask(f)
  PROVE  TasksStay
<1>1. PICK new \in NewTasks(f) : tasks' = Append(tasks, new)
  BY DEF AddTask
<1>2. tasks \in Seq(Tasks) /\ new \in Tasks
  BY NewTasksType DEF ThreadsInv, TasksType
<1>3. /\ Len(tasks') = Len(tasks) + 1 /\ Len(tasks) \in Nat
      /\ \A j \in 1 .. Len(tasks) : tasks'[j] = tasks[j]
  BY <1>1, <1>2, AppendProperties, LenProperties
<1>4. \A j \in 1 .. Len(tasks) : j \in 1 .. Len(tasks')
  BY <1>3
<1> QED BY <1>3, <1>4 DEF TasksStay, Task

LEMMA ReplaceTaskStays ==
  ASSUME MainType, ThreadsInv, NEW f \in Files, ReplaceTask(f)
  PROVE  TasksStay
<1>1. PICK new \in NewTasks(f), i \in 1 .. Len(tasks) :
        Same(i, new) /\ tasks' = Append(Without(i), new)
  BY DEF ReplaceTask
<1>2. tasks \in Seq(Tasks) /\ new \in Tasks
  BY NewTasksType DEF ThreadsInv, TasksType
<1>3. PICK n \in Nat : n = Len(tasks)
  BY <1>2, LenProperties
<1>4. /\ Without(i) \in Seq(Tasks) /\ Len(Without(i)) = n - 1
      /\ \A j \in 1 .. n - 1 : Without(i)[j] = IF j < i THEN tasks[j] ELSE tasks[j + 1]
  BY <1>2, <1>3, WithoutProperties
<1>5. /\ Len(tasks') = n /\ tasks'[n] = new
      /\ \A j \in 1 .. n - 1 : tasks'[j] = IF j < i THEN tasks[j] ELSE tasks[j + 1]
  <2>1. /\ Len(tasks') = Len(Without(i)) + 1 /\ tasks'[Len(Without(i)) + 1] = new
        /\ \A j \in 1 .. Len(Without(i)) : tasks'[j] = Without(i)[j]
    BY <1>1, <1>2, <1>4, AppendProperties
  <2>2. n - 1 + 1 = n
    OBVIOUS
  <2> QED BY <1>4, <2>1, <2>2
<1>6. ASSUME NEW g, NEW j \in 1 .. n, tasks[j].file = g
      PROVE  \E k \in 1 .. n : tasks'[k].file = g
  <2>1. CASE j < i
    <3>1. j \in 1 .. n - 1
      BY <1>3, <2>1
    <3> QED BY <1>5, <1>6, <2>1, <3>1
  <2>2. CASE j = i
    <3>1. new.file = g /\ n \in 1 .. n
      BY <1>1, <1>3, <1>6, <2>2 DEF Same
    <3> QED BY <1>5, <3>1
  <2>3. CASE j > i
    <3>1. PICK k \in 1 .. n - 1 : k = j - 1
      BY <1>3, <2>3
    <3>2. k + 1 = j /\ ~(k < i) /\ k \in 1 .. n
      BY <1>3, <2>3, <3>1
    <3> QED BY <1>5, <1>6, <3>2
  <2> QED BY <1>3, <2>1, <2>2, <2>3
<1> QED BY <1>3, <1>5, <1>6 DEF TasksStay, Task

LEMMA UpdatePeersStays ==
  ASSUME MainType, ThreadsInv, NEW f \in Files, UpdatePeers(f)
  PROVE  TasksStay
<1>1. PICK new \in NewTasks(f), i \in 1 .. Len(tasks) :
        tasks' = [tasks EXCEPT ![i].peerNum = new.peerNum,
          ![i].stop = @ \/ (tasks[i].kind = "FULL" /\ tasks[i].left > BIGFILE_THRES)]
  BY DEF UpdatePeers
<1>2. tasks \in Seq(Tasks) /\ tasks[i] \in Tasks
  BY ElementOfSeq DEF ThreadsInv, TasksType
<1> DEFINE stop == tasks[i].stop \/ (tasks[i].kind = "FULL" /\ tasks[i].left > BIGFILE_THRES)
           k == [tasks[i] EXCEPT !.peerNum = new.peerNum, !.stop = stop]
<1>3. tasks' = [tasks EXCEPT ![i] = k]
  BY <1>1, <1>2
<1> HIDE DEF stop
<1>4. k.file = tasks[i].file
  BY <1>2 DEF Tasks
<1> HIDE DEF k
<1> QED BY <1>3, <1>4, UpdatePeersKeeps, OneTaskChanges

LEMMA MarksStay ==
  ASSUME MainType, ThreadsInv, MarkDelta \/ StartThread
  PROVE  TasksStay
<1>1. at \in 1 .. Len(tasks) /\ tasks[at] \in Tasks /\ Len(tasks') = Len(tasks)
  BY TypeOfCur, MarkDeltaKeeps, StartThreadKeeps DEF MarkDelta, StartThread, At, cur
<1>2. CASE MarkDelta
  <2>1. tasks' = [tasks EXCEPT ![at] = [tasks[at] EXCEPT !.downloading = TRUE]]
    BY <1>2 DEF MarkDelta
  <2>2. [tasks[at] EXCEPT !.downloading = TRUE].file = tasks[at].file
    BY <1>1 DEF Tasks
  <2> QED BY <1>1, <2>1, <2>2, OneTaskChanges
<1>3. CASE StartThread
  <2>1. PICK S : tasks' = [tasks EXCEPT ![at] = [tasks[at] EXCEPT !.waiting = S]]
    <3>1. tasks' = [tasks EXCEPT ![at] =
                     [tasks[at] EXCEPT !.waiting = @ \ Firsts(@, Share)]]
      BY <1>3 DEF StartThread
    <3> QED BY <3>1
  <2>2. [tasks[at] EXCEPT !.waiting = S].file = tasks[at].file
    BY <1>1 DEF Tasks
  <2> QED BY <1>1, <2>1, <2>2, OneTaskChanges
<1> QED BY <1>2, <1>3

LEMMA DownloadStays ==
  ASSUME ThreadsInv, NEW t \in threads, Download(t)
  PROVE  TasksStay
<1>1. PICK i \in 1 .. Len(tasks) : i = Index(t) /\ tasks[i] \in Tasks
  BY IndexOfThread
<1>2. Len(tasks') = Len(tasks)
  BY DownloadKeeps
<1>3. CASE UNCHANGED tasks
  BY <1>3 DEF TasksStay, Task
<1>4. CASE AnswerDelta(t)
  <2>1. tasks' = [tasks EXCEPT ![i] = [tasks[i] EXCEPT !.delta = "data"]]
    BY <1>1, <1>4 DEF AnswerDelta
  <2>2. [tasks[i] EXCEPT !.delta = "data"].file = tasks[i].file
    BY <1>1 DEF Tasks
  <2> QED BY <1>2, <2>1, <2>2, OneTaskChanges
<1>5. CASE LoseDelta(t)
  <2>1. tasks' = [tasks EXCEPT ![i] = [tasks[i] EXCEPT !.delta = "null", !.downloading = FALSE]]
    BY <1>1, <1>5 DEF LoseDelta
  <2>2. [tasks[i] EXCEPT !.delta = "null", !.downloading = FALSE].file = tasks[i].file
    BY <1>1 DEF Tasks
  <2> QED BY <1>2, <2>1, <2>2, OneTaskChanges
<1>6. CASE Reset(t)
  <2>1. PICK p : tasks' = [tasks EXCEPT ![i] = [tasks[i] EXCEPT !.waiting = @ \cup {p}]]
    BY <1>1, <1>6 DEF Reset
  <2>2. [tasks[i] EXCEPT !.waiting = @ \cup {p}].file = tasks[i].file
    BY <1>1 DEF Tasks
  <2> QED BY <1>2, <2>1, <2>2, OneTaskChanges
<1> QED BY <1>3, <1>4, <1>5, <1>6 DEF Download, ConnectFails, RequestDelta, RequestPiece

LEMMA MainStays ==
  ASSUME MainType, ThreadsInv, Main, ~Crashed'
  PROVE  TasksStay
<1>1. UNCHANGED tasks => TasksStay
  BY DEF TasksStay, Task
<1>2. \A f \in Files : AddTask(f) \/ ReplaceTask(f) \/ UpdatePeers(f) => TasksStay
  BY AddTaskStays, ReplaceTaskStays, UpdatePeersStays
<1>3. \A f \in Files : ~AddTaskJunk(f) /\ ~ReplaceTaskFails(f)
  BY DEF AddTaskJunk, ReplaceTaskFails, Crash, Crashed
<1>4. \A f \in Files : PassOver(f) => UNCHANGED tasks
  BY DEF PassOver
<1>5. MarkDelta \/ StartThread => TasksStay
  BY MarksStay
<1>6. (receive_t2p_segment \/ EndScan \/ EndList \/ StartDelta \/ CompleteDelta \/ CompleteFull
       \/ WriteFull \/ StartSplit \/ EndSplit \/ SkipTask) => UNCHANGED tasks
  BY DEF receive_t2p_segment, EndScan, EndList, StartDelta, CompleteDelta, CompleteFull, WriteFull,
         StartSplit, EndSplit, SkipTask
<1> QED BY <1>1, <1>2, <1>3, <1>4, <1>5, <1>6 DEF Main

(* Events that are not read. *)

LEMMA RaiseUnread ==
  ASSUME events \in Seq([file : Files, kind : {"IN_CLOSE_WRITE", "IN_DELETE"}]),
         NEW f \in Files, Raise(f, "IN_CLOSE_WRITE")
  PROVE  Unread(f)'
<1> DEFINE S == [file : Files, kind : {"IN_CLOSE_WRITE", "IN_DELETE"}]
<1>1. PICK e \in S : e = Event(f, "IN_CLOSE_WRITE")
  BY DEF Event
<1>2. e.file = f /\ e.kind = "IN_CLOSE_WRITE" /\ events' = Append(events, e)
  BY <1>1 DEF Event, Raise
<1>3. Len(events) \in Nat /\ Len(events') = Len(events) + 1 /\ events'[Len(events) + 1] = e
  BY <1>2, AppendProperties, LenProperties
<1>4. Len(events) + 1 \in 1 .. Len(events')
  BY <1>3
<1> QED BY <1>2, <1>3, <1>4 DEF Unread

LEMMA UnreadStays ==
  ASSUME events \in Seq([file : Files, kind : {"IN_CLOSE_WRITE", "IN_DELETE"}]),
         NEW g \in Files, NEW kind \in {"IN_CLOSE_WRITE", "IN_DELETE"}, Raise(g, kind), NEW f
  PROVE  Unread(f) => Unread(f)'
<1> DEFINE S == [file : Files, kind : {"IN_CLOSE_WRITE", "IN_DELETE"}]
<1>1. PICK e \in S : e = Event(g, kind)
  BY DEF Event
<1>2. events' = Append(events, e)
  BY <1>1 DEF Raise
<1>3. /\ Len(events) \in Nat /\ Len(events') = Len(events) + 1
      /\ \A k \in 1 .. Len(events) : events'[k] = events[k]
  BY <1>2, AppendProperties, LenProperties
<1>4. \A k \in 1 .. Len(events) : k \in 1 .. Len(events')
  BY <1>3
<1> QED BY <1>3, <1>4 DEF Unread

LEMMA ReadUnread ==
  ASSUME events \in Seq([file : Files, kind : {"IN_CLOSE_WRITE", "IN_DELETE"}]), events # <<>>,
         events' = Tail(events), NEW f,
         ~(Head(events).file = f /\ Head(events).kind = "IN_CLOSE_WRITE")
  PROVE  Unread(f) => Unread(f)'
<1>1. /\ Len(events) \in Nat /\ Len(events') = Len(events) - 1 /\ Head(events) = events[1]
      /\ \A k \in 1 .. Len(events') : events'[k] = events[k + 1]
  BY HeadTailProperties, LenProperties
<1>2. ASSUME NEW k \in 1 .. Len(events), events[k].file = f, events[k].kind = "IN_CLOSE_WRITE"
      PROVE  Unread(f)'
  <2>1. k # 1
    BY <1>1, <1>2
  <2>2. k - 1 \in 1 .. Len(events') /\ k - 1 + 1 = k
    BY <1>1, <2>1
  <2>3. events'[k - 1] = events[k]
    BY <1>1, <2>2
  <2> QED BY <1>2, <2>2, <2>3 DEF Unread
<1> QED BY <1>2 DEF Unread

(* What the steps do to the files. *)

LEMMA MergeGrows ==
  ASSUME NEW v \in Versions, NEW e \in Entry
  PROVE  /\ Merge(v, e).latest >= v.latest
         /\ e # NoEntry => Merge(v, e).latest >= e.latest
<1>1. v.latest \in Nat /\ e.latest \in Nat
  BY DEF Versions, Entry, Time
<1>2. Unknown.latest = 0
  BY DEF Unknown, Version
<1>3. \A prev : Version(e.latest, prev, e.status, 1, 1).latest = e.latest
  BY DEF Version
<1> QED BY <1>1, <1>2, <1>3 DEF Merge

\* The tracker's version of a file never gets older.
WorldGrows == \A f \in Files : world'[f].latest >= world[f].latest

LEMMA SameWorld ==
  ASSUME FilesTypeOK, UNCHANGED world
  PROVE  WorldGrows
<1>1. \A f \in Files : world[f].latest \in Nat
  BY DEF FilesTypeOK, Versions, Time
<1> QED BY <1>1 DEF WorldGrows

LEMMA ReportGrows ==
  ASSUME FilesTypeOK, fileTable' \in [Files -> Entry], sendTracker
  PROVE  /\ WorldGrows
         /\ \A f \in Files : fileTable'[f] # NoEntry => world'[f].latest >= fileTable'[f].latest
<1>1. \A f \in Files : world'[f] = Merge(world[f], fileTable'[f])
  BY DEF sendTracker
<1>2. \A f \in Files : world[f] \in Versions /\ fileTable'[f] \in Entry
  BY DEF FilesTypeOK
<1> QED BY <1>1, <1>2, MergeGrows DEF WorldGrows

LEMMA OthersGrow ==
  ASSUME FilesTypeOK, Others
  PROVE  WorldGrows
<1>1. PICK f \in Files : OtherWrites(f) \/ OtherDeletes(f) \/ HoldersEnd(f) \/ Edit(f) \/ Remove(f)
  BY DEF Others
<1>2. /\ \A g \in Files : world[g] \in Versions /\ world[g].latest \in Nat
      /\ world \in [Files -> Versions] /\ clock \in Nat
  BY DEF FilesTypeOK, Versions, Time
<1>3. CASE Edit(f) \/ Remove(f)
  BY <1>3, SameWorld DEF Edit, Remove
<1>4. CASE HoldersEnd(f)
  <2>1. PICK h : world' = [world EXCEPT ![f].peerNum = h]
    BY <1>4 DEF HoldersEnd
  <2>2. \A g \in Files : world'[g].latest = world[g].latest
    BY <1>2, <2>1 DEF Versions
  <2> QED BY <1>2, <2>2 DEF WorldGrows
<1>5. CASE OtherWrites(f) \/ OtherDeletes(f)
  <2>1. world[f].latest <= clock + 1 /\ clock' = clock + 1
    BY <1>2, <1>5 DEF OtherWrites, OtherDeletes, Newer
  <2>2. world'[f].latest = clock' /\ \A g \in Files : g # f => world'[g] = world[g]
    BY <1>2, <1>5 DEF OtherWrites, OtherDeletes, Version, Versions
  <2> QED BY <1>2, <2>1, <2>2 DEF WorldGrows
<1> QED BY <1>1, <1>3, <1>4, <1>5

\* A file that has no task, now or before: what Main does leaves it alone, but for a
\* status DELETED.
LEMMA MainLeaves ==
  ASSUME MainType, ThreadsInv, Main, NEW f \in Files, ~Task(f)
  PROVE  /\ UNCHANGED <<world, clock>> /\ disk'[f] = disk[f] /\ mtime'[f] = mtime[f]
         /\ fileTable'[f].status \in {fileTable[f].status, "DELETED"}
         /\ Unread(f) => Unread(f)'
<1>1. /\ disk \in [Files -> Time] /\ mtime \in [Files -> Time] /\ fileTable \in [Files -> Entry]
      /\ events \in Seq([file : Files, kind : {"IN_CLOSE_WRITE", "IN_DELETE"}])
  BY DEF MainType, FilesTypeOK
<1>2. CASE UNCHANGED fileVars
  BY <1>2 DEF fileVars, Unread
<1>3. CASE \E g \in Files : PassOver(g)
  BY <1>1, <1>3 DEF PassOver, Unread, Entry
<1>4. CASE CompleteDelta \/ CompleteFull
  <2>1. cur.file # f
    BY <1>4, TypeOfCur DEF CompleteDelta, CompleteFull, At, cur, Task
  <2> QED BY <1>1, <1>4, <2>1 DEF CompleteDelta, CompleteFull, Unread
<1>5. CASE WriteFull
  <2>1. cur.file # f
    BY <1>5, TypeOfCur DEF WriteFull, At, cur, Task
  <2>2. cur.file \in Files
    BY <1>5, TypeOfCur DEF WriteFull, At, Tasks
  <2>3. Unread(f) => Unread(f)'
    BY <1>1, <1>5, <2>2, UnreadStays DEF WriteFull
  <2> QED BY <1>1, <1>5, <2>1, <2>3 DEF WriteFull
<1> QED BY <1>2, <1>3, <1>4, <1>5 DEF Main, receive_t2p_segment, AddTask, AddTaskJunk, ReplaceTask,
  ReplaceTaskFails, Crash, UpdatePeers, EndScan, EndList, StartDelta, MarkDelta, StartSplit,
  StartThread, EndSplit, SkipTask

LEMMA EditStays ==
  ASSUME FilesTypeOK, Others, NEW f \in Files,
         disk[f] # 0 => disk[f] = mtime[f] /\ (world[f].latest >= disk[f] \/ Unread(f)),
         WorldGrows
  PROVE  disk'[f] # 0 => disk'[f] = mtime'[f] /\ (world'[f].latest >= disk'[f] \/ Unread(f)')
<1>1. PICK g \in Files : OtherWrites(g) \/ OtherDeletes(g) \/ HoldersEnd(g) \/ Edit(g) \/ Remove(g)
  BY DEF Others
<1>2. /\ disk \in [Files -> Time] /\ mtime \in [Files -> Time] /\ disk[f] \in Nat
      /\ world[f].latest \in Nat
      /\ events \in Seq([file : Files, kind : {"IN_CLOSE_WRITE", "IN_DELETE"}])
  BY DEF FilesTypeOK, Versions, Time
<1>3. /\ Unread(f) => Unread(f)'
      /\ Edit(f) => Unread(f)'
  <2>1. UNCHANGED events \/ \E kind \in {"IN_CLOSE_WRITE", "IN_DELETE"} : Raise(g, kind)
    BY <1>1 DEF OtherWrites, OtherDeletes, HoldersEnd, Edit, Remove
  <2>2. UNCHANGED events => (Unread(f) => Unread(f)')
    BY DEF Unread
  <2> QED BY <1>1, <1>2, <2>1, <2>2, UnreadStays, RaiseUnread DEF Edit
<1>4. CASE f = g /\ (Edit(g) \/ Remove(g))
  BY <1>2, <1>3, <1>4 DEF Edit, Remove
<1>5. (disk'[f] = disk[f] /\ mtime'[f] = mtime[f]) \/ (f = g /\ (Edit(g) \/ Remove(g)))
  BY <1>1, <1>2 DEF OtherWrites, OtherDeletes, HoldersEnd, Edit, Remove
<1>6. CASE disk'[f] = disk[f] /\ mtime'[f] = mtime[f]
  <2>1. world[f].latest >= disk[f] => world'[f].latest >= disk[f] \/ ~(world'[f].latest \in Int)
    BY <1>2 DEF WorldGrows
  <2>2. world'[f].latest \in Int
    <3>1. world' \in [Files -> Versions]
      BY OthersType DEF FilesTypeOK
    <3> QED BY <3>1 DEF Versions, Time
  <2> QED BY <1>3, <1>6, <2>1, <2>2
<1> QED BY <1>4, <1>5, <1>6

\* The file monitor reads an event: that of another file, or it reports the file.
LEMMA MonitorReports ==
  ASSUME FilesTypeOK, Monitor, NEW f \in Files, fileTable[f].status # "SYNCED",
         disk[f] # 0 => disk[f] = mtime[f] /\ (world[f].latest >= disk[f] \/ Unread(f))
  PROVE  /\ fileTable'[f].status # "SYNCED"
         /\ disk'[f] # 0 => disk'[f] = mtime'[f] /\ (world'[f].latest >= disk'[f] \/ Unread(f)')
<1> DEFINE ev == Head(events)
<1>1. /\ events \in Seq([file : Files, kind : {"IN_CLOSE_WRITE", "IN_DELETE"}]) /\ events # <<>>
      /\ events' = Tail(events) /\ UNCHANGED <<clock, disk, mtime>>
      /\ ev.file \in Files
      /\ disk \in [Files -> Time] /\ mtime \in [Files -> Time] /\ fileTable \in [Files -> Entry]
      /\ \A g \in Files : world[g].latest \in Nat
  <2>1. events \in Seq([file : Files, kind : {"IN_CLOSE_WRITE", "IN_DELETE"}]) /\ events # <<>>
    BY DEF Monitor, FilesTypeOK
  <2>2. ev \in [file : Files, kind : {"IN_CLOSE_WRITE", "IN_DELETE"}]
    BY <2>1, HeadTailProperties
  <2>3. \A g \in Files : world[g].latest \in Nat
    BY DEF FilesTypeOK, Versions, Time
  <2> QED BY <2>1, <2>2, <2>3 DEF Monitor, FilesTypeOK
<1>2. fileTable' \in [Files -> Entry] /\ \A g \in Files : world'[g].latest \in Nat
  <2>1. FilesTypeOK'
    BY MonitorType
  <2>2. fileTable' \in [Files -> Entry]
    BY <2>1 DEF FilesTypeOK
  <2>3. \A g \in Files : world'[g].latest \in Nat
    BY <2>1, SMTT(20) DEF FilesTypeOK, Versions, Time
  <2> QED BY <2>2, <2>3
<1>3. \/ ev.kind = "IN_CLOSE_WRITE" /\ fileCloseWrite(ev.file)
      \/ ev.kind = "IN_DELETE" /\ fileDeleted(ev.file)
  BY DEF Monitor
<1>4. WorldGrows
  <2>1. sendTracker \/ UNCHANGED world
    BY <1>3 DEF fileCloseWrite, fileAdded, fileModified, Synced, fileDeleted
  <2> QED BY <1>2, <2>1, SameWorld, ReportGrows
<1>5. fileTable'[f].status # "SYNCED"
  <2>1. CASE fileAdded(ev.file)
    BY <1>1, <2>1 DEF fileAdded
  <2>2. CASE fileModified(ev.file)
    BY <1>1, <2>2 DEF fileModified
  <2>3. CASE Synced(ev.file)
    BY <1>1, <2>3 DEF Synced, Entry
  <2>4. CASE fileDeleted(ev.file)
    BY <1>1, <2>4 DEF fileDeleted
  <2> QED BY <1>3, <2>1, <2>2, <2>3, <2>4 DEF fileCloseWrite
<1>6. CASE ev.file = f /\ ev.kind = "IN_CLOSE_WRITE" /\ disk[f] # 0
  <2>1. /\ fileTable'[f].latest = mtime[f] /\ sendTracker
    <3>1. fileAdded(f) \/ fileModified(f)
      BY <1>3, <1>6 DEF fileCloseWrite
    <3>2. ModifyTimes(f) = {mtime[f]}
      BY <1>6 DEF ModifyTimes
    <3> QED BY <1>1, <3>1, <3>2 DEF fileAdded, fileModified
  <2>2. fileTable'[f] # NoEntry
    BY <1>6, <2>1 DEF NoEntry
  <2>3. world'[f].latest >= fileTable'[f].latest
    BY <1>2, <2>1, <2>2, ReportGrows
  <2> QED BY <1>1, <1>5, <1>6, <2>1, <2>3
<1>7. CASE ~(ev.file = f /\ ev.kind = "IN_CLOSE_WRITE")
  <2>1. Unread(f) => Unread(f)'
    BY <1>1, <1>7, ReadUnread
  <2>2. world[f].latest >= disk[f] => world'[f].latest >= disk[f]
    BY <1>1, <1>2, <1>4 DEF WorldGrows, Time
  <2> QED BY <1>1, <1>5, <2>1, <2>2
<1>8. CASE disk[f] = 0
  BY <1>1, <1>5, <1>8
<1> QED BY <1>6, <1>7, <1>8

LEMMA EditInitially == Init => EditInv
<1> SUFFICES ASSUME Init, NEW f \in Files
             PROVE  /\ fileTable[f].status # "SYNCED"
                    /\ disk[f] # 0 => disk[f] = mtime[f] /\ world[f].latest >= disk[f]
  BY DEF EditInv
<1>1. PICK there \in SUBSET Edited :
        /\ disk = [g \in Files |-> IF g \in there THEN 1 ELSE 0]
        /\ mtime = disk
        /\ fileTable = [g \in Files |-> [NoEntry EXCEPT !.latest = disk[g]]]
        /\ \E other \in [Files -> UNION {Elsewhere(g) : g \in Files}] :
             /\ \A g \in Files : other[g] \in Elsewhere(g)
             /\ world = [g \in Files |->
                           IF g \in there THEN Merge(Unknown, fileTable[g]) ELSE other[g]]
  BY DEF Init, FilesInit
<1>2. FilesTypeOK
  BY FilesInitType DEF Init
<1>3. fileTable[f].status = "READ_N_WRITE" /\ fileTable[f].latest = disk[f]
  BY <1>1 DEF NoEntry
<1>4. CASE disk[f] # 0
  <2>1. world[f] = Merge(Unknown, fileTable[f]) /\ disk[f] = 1
    BY <1>1, <1>4
  <2>2. fileTable[f] # NoEntry /\ fileTable[f] \in Entry /\ Unknown \in Versions
    BY <1>2, <1>3, <2>1, UnknownType DEF NoEntry, FilesTypeOK
  <2>3. Merge(Unknown, fileTable[f]).latest >= fileTable[f].latest
    BY <2>2, MergeGrows
  <2> QED BY <1>1, <1>3, <2>1, <2>3
<1> QED BY <1>3, <1>4

LEMMA EditStep == IInv /\ EditInv /\ [Next]_vars => EditInv'
<1> SUFFICES ASSUME IInv, EditInv, [Next]_vars, ~Crashed', NEW f \in Files, ~Task(f)'
             PROVE  /\ fileTable'[f].status # "SYNCED"
                    /\ disk'[f] # 0 => /\ disk'[f] = mtime'[f]
                                       /\ world'[f].latest >= disk'[f] \/ Unread(f)'
  BY DEF EditInv
<1>1. MainType /\ ThreadsInv /\ FilesTypeOK
  BY Parts DEF MainType
<1>2. UNCHANGED taskVars => TasksStay /\ Crashed' = Crashed
  BY DEF TasksStay, Task, Crashed, taskVars
<1>3. Main => TasksStay /\ ~Crashed
  BY <1>1, MainStays DEF Main, Crashed, receive_t2p_segment, AddTask, AddTaskJunk, ReplaceTask,
     ReplaceTaskFails, UpdatePeers, PassOver, Scan, EndScan, EndList, At, StartDelta, MarkDelta,
     CompleteDelta, CompleteFull, WriteFull, StartSplit, StartThread, EndSplit, SkipTask
<1>4. \A t \in threads : Download(t) => TasksStay /\ UNCHANGED <<main, fileVars>>
  BY <1>1, DownloadStays DEF Download, ConnectFails, RequestDelta, AnswerDelta, LoseDelta,
     RequestPiece, Reset, MainUnchanged
<1>5. TasksStay /\ ~Crashed
  BY <1>2, <1>3, <1>4 DEF Next, MonitorThread, Others, Crashed, vars
<1>6. /\ ~Task(f) /\ fileTable[f].status # "SYNCED"
      /\ disk[f] # 0 => disk[f] = mtime[f] /\ (world[f].latest >= disk[f] \/ Unread(f))
  BY <1>5 DEF TasksStay, EditInv
<1>7. CASE Main
  BY <1>1, <1>6, <1>7, MainLeaves
<1>8. CASE MonitorThread
  BY <1>1, <1>6, <1>8, MonitorReports DEF MonitorThread
<1>9. CASE Others
  <2>1. fileTable' = fileTable
    BY <1>9 DEF Others, OtherWrites, OtherDeletes, HoldersEnd, Edit, Remove
  <2> QED BY <1>1, <1>6, <1>9, <2>1, OthersGrow, EditStays
<1>10. CASE UNCHANGED fileVars
  BY <1>6, <1>10 DEF fileVars, Unread
<1> QED BY <1>4, <1>7, <1>8, <1>9, <1>10 DEF Next, vars

(* Theorems. *)

\* The inductive invariant holds in every behaviour.
THEOREM Invariance == Spec => []IInv
  BY InitInv, NextInv, PTL DEF Spec

\* The variables of the peer have their types: a place of the list that the main
\* thread looks at is there, and what waits of a task are pieces it has (peer.c:219-341).
THEOREM TypeCorrect == Spec => []TypeOK
<1>1. IInv => TypeOK
  BY DEF IInv
<1> QED BY <1>1, Invariance, PTL

\* add_to_download_task never lets two tasks download one file (peer.c:724-768).
THEOREM ListHasOneTaskPerFile == Spec => []OneTaskPerFile
<1>1. IInv => OneTaskPerFile
  BY DEF IInv
<1> QED BY <1>1, Invariance, PTL

\* No download thread outlives its task: free_one_task joins them (peer.c:802-813).
THEOREM NoThreadOfFreedTask == Spec => []ThreadsHaveTask
<1>1. IInv => ThreadsHaveTask
  BY DEF IInv
<1> QED BY <1>1, Invariance, PTL

\* A piece is with one thread, or waits, or neither: whatever threads give back while
\* the main thread hands pieces out (peer.c:311-341, 668-677).
THEOREM NoPieceTwice == Spec => []PiecesAreAssignedOnce
<1>1. IInv => PiecesAreAssignedOnce
  BY DEF IInv
<1> QED BY <1>1, Invariance, PTL

\* What the user wrote is reported to the tracker once the file monitor has read its
\* events, whatever other peers report meanwhile and whatever is downloaded: an event may
\* be late, and one event may report several edits (monitor.c), but none is lost.
THEOREM NoEditIsLost == Spec => []EditsAreReported
<1>1. IInv /\ EditInv => EditsAreReported
  BY DEF EditInv, EditsAreReported, Unread
<1> QED BY <1>1, Invariance, EditInitially, EditStep, PTL DEF Spec
=============================================================================
