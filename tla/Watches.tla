------------------------------ MODULE Watches ------------------------------
(* The directories a peer watches (tofukasu_final/peer/monitor.c): the file *)
(* monitor walks through the tree below config->root, puts its files into   *)
(* the file table and asks inotify to watch each directory; then it reads   *)
(* the events, and watches directories that are made.  The watch table maps *)
(* a watch descriptor to a name.  The tree has one level below the root.    *)
(* What the user renames, inotify reports by events the peer passes over:   *)
(* nothing is renamed here.  Nor are files opened to be read, which the     *)
(* peer looks up in the watch table and then passes over (fileOpened).      *)
EXTENDS Integers, Sequences, FiniteSets

CONSTANTS
  Root,         \* config->root
  Dirs,         \* names of directories in it
  Files,        \* names of files
  In,           \* the directory of each
  Ignored,      \* directories in config->ignore
  Backups,      \* the files vim makes: .swp, .swx, 4913
  Recursive,    \* config->type
  Early,        \* the user is at work before the watches are set
  MAX_DIR_NUM,
  MaxEvents,    \* bound: events that are not read
  MaxChanges    \* bound: what the user does

None == "none"        \* no directory: it is gone, or its watch is
Null == "NULL"        \* no name
Freed == "freed"      \* a name whose memory was freed

\* A name is that of one thing (a path, in the code), and of the same kind for ever.
ASSUME WatchesAssumption ==
  /\ Root \notin Dirs /\ In \in [Files -> Dirs \cup {Root}]
  /\ Ignored \subseteq Dirs /\ Backups \subseteq Files
  /\ Recursive \in BOOLEAN /\ Early \in BOOLEAN
  /\ {None, Null, Freed} \cap (Dirs \cup {Root}) = {} /\ Files \cap Dirs = {}
  /\ MAX_DIR_NUM \in Nat \ {0} /\ MaxEvents \in Nat /\ MaxChanges \in Nat

VARIABLES
  dirs,       \* the directories that are there
  disk,       \* the files that are there, and whether they are empty
  changes,    \* what the user did
  config,     \* config
  stack,      \* the directories the walk is in, and their entries that are left
  wds,        \* inotify: the directory that each watch descriptor watches
  events,     \* inotify events that are not read
  mnt_table,  \* the watch table
  fileTable,  \* file_table
  deltas,     \* the files that have a delta file
  ended       \* how the process ended

watchVars == <<dirs, disk, changes, config, stack, wds, events, mnt_table, fileTable, deltas, ended>>

Runs == ended = "no"
End(how) == ended' = how
All == Dirs \cup {Root}
Entry(dir, wd) == [dir |-> dir, wd |-> wd]

(* The user, and the events inotify raises for it. *)

Watching(d) == {wd \in 1 .. Len(wds) : wds[wd] = d}
Event(wd, kind, name) == [wd |-> wd, kind |-> kind, name |-> name]
Raise(d, kind, name) ==
  /\ Len(events) < MaxEvents
  /\ \/ \E wd \in Watching(d) : events' = Append(events, Event(wd, kind, name))
     \/ Watching(d) = {} /\ UNCHANGED events

User ==
  /\ Runs /\ (Early \/ (config = "set" /\ stack = <<>>))
  /\ changes < MaxChanges /\ changes' = changes + 1
  /\ UNCHANGED <<config, stack, mnt_table, fileTable, deltas, ended>>

MakeDir(d) ==
  /\ User /\ d \notin dirs
  /\ dirs' = dirs \cup {d}
  /\ Raise(Root, "IN_CREATE", d)
  /\ UNCHANGED <<disk, wds>>

\* rmdir, of a directory without files; its watch ends.
RemoveDir(d) ==
  /\ User /\ d \in dirs /\ \A f \in Files : In[f] = d => disk[f] = None
  /\ dirs' = dirs \ {d}
  /\ wds' = [wd \in DOMAIN wds |-> IF wds[wd] = d THEN None ELSE wds[wd]]
  /\ Raise(Root, "IN_DELETE", d)
  /\ UNCHANGED disk

Write(f, size) ==
  /\ User /\ In[f] \in dirs \cup {Root}
  /\ disk' = [disk EXCEPT ![f] = size]
  /\ Raise(In[f], "IN_CLOSE_WRITE", f)
  /\ UNCHANGED <<dirs, wds>>

Remove(f) ==
  /\ User /\ disk[f] # None
  /\ disk' = [disk EXCEPT ![f] = None]
  /\ Raise(In[f], "IN_DELETE", f)
  /\ UNCHANGED <<dirs, wds>>

(* The watch table. *)

watchFilter(d) == d \notin Ignored

\* What inotify watches when d is watched, and the new slot of the table, if there is one.
NewWatch(d) == [wds |-> Append(wds, d), slot |-> <<Entry(d, Len(wds) + 1)>>]
watchDirectoryAnyhow(d) == \* mutant: no limit
  IF d \notin dirs \cup {Root} THEN {[wds |-> wds, slot |-> <<>>]} ELSE {NewWatch(d)}
watchDirectory(d) ==
  IF Len(mnt_table) + 1 >= MAX_DIR_NUM \/ d \notin dirs \cup {Root}
    THEN {[wds |-> wds, slot |-> <<>>]}
  ELSE IF Watching(d) = {} THEN {NewWatch(d)}
  ELSE {[wds |-> wds, slot |-> <<Entry(d, wd)>>] : wd \in Watching(d)}

getPathByWdLast(wd) == \* mutant: the table is searched from its end
  LET at == {i \in 1 .. Len(mnt_table) : mnt_table[i].wd = wd} IN
  IF at = {} THEN Null ELSE mnt_table[CHOOSE i \in at : \A j \in at : i >= j].dir
getPathByWd(wd) ==
  LET at == {i \in 1 .. Len(mnt_table) : mnt_table[i].wd = wd} IN
  IF at = {} THEN Null ELSE mnt_table[CHOOSE i \in at : \A j \in at : i <= j].dir

(* The walk: initWatch, traverseDir. *)

Children(d) ==
  {f \in Files : In[f] = d /\ disk[f] # None} \cup (IF d = Root THEN dirs ELSE {})
Visit(d) == [dir |-> d, left |-> Children(d)]
top == stack[Len(stack)]
Below == SubSeq(stack, 1, Len(stack) - 1)
Walks == Runs /\ config = "set" /\ stack # <<>> /\ UNCHANGED <<dirs, disk, changes, config, ended, deltas>>

readConfigFile ==
  /\ Runs /\ config = "unset" /\ config' = "set"
  /\ stack' = <<Visit(Root)>>
  /\ UNCHANGED <<dirs, disk, changes, wds, events, mnt_table, fileTable, deltas, ended>>

\* A file: it is added to the table, as it was when the directory was read.
VisitFile(f) ==
  /\ Walks /\ f \in top.left
  /\ stack' = Append(Below, [top EXCEPT !.left = @ \ {f}])
  /\ fileTable' = [fileTable EXCEPT ![f] = "READ_N_WRITE"]
  /\ UNCHANGED <<wds, events, mnt_table>>

VisitDir(d) ==
  /\ Walks /\ d \in top.left
  /\ LET on == Append(Below, [top EXCEPT !.left = @ \ {d}]) IN
       stack' = IF Recursive /\ watchFilter(d) THEN Append(on, Visit(d)) ELSE on
  /\ UNCHANGED <<wds, events, mnt_table, fileTable>>

\* The directory is watched after its entries are read.
EndVisit ==
  /\ Walks /\ top.left = {}
  /\ stack' = Below
  /\ \E new \in watchDirectory(top.dir) : wds' = new.wds /\ mnt_table' = mnt_table \o new.slot
  /\ UNCHANGED <<events, fileTable>>

(* The events: file_monitor_thread. *)

\* "table[entNum].watchD = watchDirectory(...)": the 1 is stored into the slot the
\* directory got, or into the next one, and the name is freed when the event is done.
Stored(slot) ==
  {[i \in DOMAIN slot |-> Entry(Freed, wd)] : wd \in {1} \cup {slot[i].wd : i \in DOMAIN slot}}
DirCreate(d) ==
  /\ \E new \in watchDirectory(d) :
       wds' = new.wds /\ \E slot \in Stored(new.slot) : mnt_table' = mnt_table \o slot
  /\ UNCHANGED <<fileTable, deltas, ended>>

\* The entry is swapped with the last one, which is cleared, but entNum stays.
\* A freed name may be equal or not, and freeing it again ends the process or not.
Last == Len(mnt_table)
Named(d, i) == mnt_table[i].dir = d
Clear ==
  /\ mnt_table' = [mnt_table EXCEPT ![Last] = Entry(Null, 0)]
  /\ wds' = [wds EXCEPT ![mnt_table[Last].wd] = None]
DirDelete(d) ==
  /\ \/ /\ Last > 0 /\ (Named(d, Last) \/ Named(Freed, Last))
        /\ \A i \in 1 .. Last - 1 : ~Named(d, i) /\ ~Named(Null, i)
        /\ Clear
        /\ ended' \in {ended} \cup (IF Named(Freed, Last) THEN {"abort"} ELSE {})
     \/ /\ \/ \E i \in 1 .. Last : Named(Null, i)      \* strcmp(NULL, ...)
           \/ \E i \in 1 .. Last - 1 : Named(d, i) \/ Named(Freed, i)  \* the last is NULL now
        /\ End("segv") /\ UNCHANGED <<mnt_table, wds>>
     \/ /\ \A i \in 1 .. Last : ~Named(d, i) /\ ~Named(Null, i)
        /\ UNCHANGED <<mnt_table, wds, ended>>
  /\ UNCHANGED <<fileTable, deltas>>

\* A file that is not in the table is added, another one gets a delta, unless its
\* directory was made later and .delta has none of this name.
FileCloseWrite(f) ==
  /\ fileTable' = [fileTable EXCEPT ![f] = "READ_N_WRITE"]
  /\ deltas' \in {deltas, IF fileTable[f] = None THEN deltas ELSE deltas \cup {f}}
  /\ UNCHANGED <<wds, mnt_table, ended>>

FileDelete(f) ==
  /\ fileTable' = [fileTable EXCEPT ![f] = IF @ = None THEN @ ELSE "DELETED"]
  /\ UNCHANGED <<wds, mnt_table, deltas, ended>>

Handle(ev) ==
  IF ev.name \in Dirs
  THEN (ev.kind = "IN_CREATE" /\ DirCreate(ev.name)) \/ (ev.kind = "IN_DELETE" /\ DirDelete(ev.name))
  ELSE (ev.kind = "IN_CLOSE_WRITE" /\ FileCloseWrite(ev.name)) \/ (ev.kind = "IN_DELETE" /\ FileDelete(ev.name))
NothingDone == UNCHANGED <<wds, mnt_table, fileTable, deltas, ended>>

Dir(name) == IF name \in Dirs THEN Root ELSE In[name]

\* Without a name strlen ends the process; a freed one is still there, or any other.
ReadEvent ==
  /\ Runs /\ config = "set" /\ stack = <<>> /\ events # <<>>
  /\ events' = Tail(events)
  /\ LET ev == Head(events)
         path == getPathByWd(ev.wd) IN
       CASE ev.name \in Backups -> NothingDone
         [] ev.name \notin Backups /\ path = Null ->
              End("segv") /\ UNCHANGED <<wds, mnt_table, fileTable, deltas>>
         [] ev.name \notin Backups /\ path # Null ->
              \/ (ev.name \in Ignored \/ path # Dir(ev.name)) /\ NothingDone
              \/ ev.name \notin Ignored /\ path \in {Dir(ev.name), Freed} /\ Handle(ev)
  /\ UNCHANGED <<dirs, disk, changes, config, stack>>

\* After clearAll: config->ignoreNum.
MonitorNull ==
  /\ Runs /\ config = "NULL" /\ (stack # <<>> \/ events # <<>>)
  /\ End("segv")
  /\ UNCHANGED <<dirs, disk, changes, config, stack, wds, events, mnt_table, fileTable, deltas>>

(* Initial states and properties. *)

\* (A bound: no file is empty at first.)
WatchesInit ==
  /\ dirs \in SUBSET Dirs
  /\ disk \in [Files -> {None, "bytes"}]
  /\ \A f \in Files : disk[f] # None => In[f] \in dirs \cup {Root}
  /\ changes = 0
  /\ config = "unset" /\ stack = <<>> /\ wds = <<>> /\ events = <<>> /\ mnt_table = <<>>
  /\ fileTable = [f \in Files |-> None]
  /\ deltas = {}
  /\ ended = "no"

FileMonitor ==
  \/ readConfigFile \/ EndVisit \/ ReadEvent \/ MonitorNull
  \/ \E f \in Files : VisitFile(f)
  \/ \E d \in Dirs : VisitDir(d)

Changes ==
  \/ \E d \in Dirs : MakeDir(d) \/ RemoveDir(d)
  \/ \E f \in Files : Remove(f) \/ \E size \in {"empty", "bytes"} : Write(f, size)

WatchesTypeOK ==
  /\ dirs \subseteq Dirs /\ disk \in [Files -> {None, "empty", "bytes"}]
  /\ changes \in 0 .. MaxChanges /\ config \in {"unset", "set", "NULL"}
  /\ stack \in Seq([dir : All, left : SUBSET (Files \cup Dirs)])
  /\ wds \in Seq(All \cup {None})
  /\ events \in Seq([wd : 1 .. Len(wds), kind : {"IN_CREATE", "IN_DELETE", "IN_CLOSE_WRITE"},
                      name : Files \cup Dirs])
  /\ mnt_table \in Seq([dir : All \cup {Null, Freed}, wd : 0 .. Len(wds)])
  /\ Len(mnt_table) < MAX_DIR_NUM
  /\ fileTable \in [Files -> {None, "READ_N_WRITE", "DELETED"}]
  /\ deltas \subseteq Files
  /\ ended \in {"no", "segv", "abort", "SIGPIPE", "exit"}

\* Where the watch table names a directory that inotify watches, and no event is
\* left, the file table says which files are there (but those of vim): no event is
\* lost between the walk and the watch, or given to a file of another directory.
FilesAreKnown ==
  Runs /\ config = "set" /\ stack = <<>> /\ events = <<>> =>
    \A i \in 1 .. Last, f \in Files \ Backups :
      In[f] = mnt_table[i].dir /\ mnt_table[i].wd \in Watching(In[f])
        => (disk[f] # None <=> fileTable[f] = "READ_N_WRITE")
=============================================================================
