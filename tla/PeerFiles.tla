----------------------------- MODULE PeerFiles -----------------------------
(* The files of one peer (tofukasu_final/peer/monitor.c): what is on its    *)
(* disk, what its file table says of it, the inotify events in between, and *)
(* the tracker's table, which its reports and the other peers change.       *)
(* A version of a file is its modification time.                            *)
EXTENDS Integers, Sequences, FiniteSets

CONSTANTS
  Files,       \* names of files
  Holders,     \* bound: how many of the other peers have a version of a file
  Edited,      \* bound: the files this peer may have, which the user edits and removes
  Written,     \* bound: the files the other peers write and delete
  Sizes,       \* how many pieces each version of a file has that others write
  MaxTime,     \* bound: edits, here and elsewhere
  MaxEvents    \* bound: inotify events that are not read

ASSUME FilesAssumption ==
  /\ Sizes \in [Files -> Seq(Nat)] /\ \A f \in Files : Len(Sizes[f]) >= MaxTime
  /\ Holders \in [Files -> SUBSET Nat]
  /\ Edited \subseteq Files /\ Written \subseteq Files
  /\ MaxTime \in Nat \ {0} /\ MaxEvents \in Nat

VARIABLES
  clock,       \* the time of the last edit anywhere
  disk,        \* the version whose bytes a file has, 0 if there is no file
  mtime,       \* when it was written here
  fileTable,   \* file_table
  events,      \* inotify events the file monitor has not read
  world        \* the tracker's file table

fileVars == <<clock, disk, mtime, fileTable, events, world>>

Time == 0 .. MaxTime

\* READ_ONLY and WRITING_IN_PROGRESS are set nowhere.
Status == {"READ_N_WRITE", "DELETED", "SYNCED"}

Entry == [latest : Time, prev : Time, status : Status]
NoEntry == [latest |-> 0, prev |-> 0, status |-> "READ_N_WRITE"]
Known(f) == fileTable[f] # NoEntry

\* What the tracker says of a file; pieces is its length in units of piece_len.
Version(latest, prev, status, pieces, peerNum) ==
  [latest |-> latest, prev |-> prev, status |-> status, pieces |-> pieces, peerNum |-> peerNum]
Unknown == Version(0, 0, "READ_N_WRITE", 0, 0)
Versions == [latest : Time, prev : Time, status : Status, pieces : Nat, peerNum : Nat]

(* The tracker merges a report into its table. *)

\* filetable_add_file, or a newer version.  A holder of the same version is not counted.
Merge(v, e) ==
  IF e = NoEntry \/ (v # Unknown /\ e.latest <= v.latest) THEN v
  ELSE Version(e.latest, IF v = Unknown THEN 0 ELSE e.prev, e.status, 1, 1)  \* our files are short

sendTracker == world' = [f \in Files |-> Merge(world[f], fileTable'[f])]

(* The other peers. *)

\* What is not newer than its version, the tracker passes over.
Newer(f) == clock < MaxTime /\ world[f].latest <= clock

\* One of them writes a file, from the newest version or from an older one.
OtherWrites(f) ==
  /\ f \in Written /\ Newer(f)
  /\ clock' = clock + 1
  /\ \E h \in Holders[f], old \in {0, world[f].latest} :
       world' = [world EXCEPT ![f] = Version(clock', old, "READ_N_WRITE", Sizes[f][clock'], h)]
  /\ UNCHANGED <<disk, mtime, fileTable, events>>

OtherDeletes(f) ==
  /\ f \in Written /\ Newer(f) /\ world[f] # Unknown
  /\ clock' = clock + 1
  /\ world' = [world EXCEPT ![f].latest = clock', ![f].prev = world[f].latest,
                                  ![f].status = "DELETED"]
  /\ UNCHANGED <<disk, mtime, fileTable, events>>

\* Peers with the version end; a peer that gets it is not counted (Tracker).
HoldersEnd(f) ==
  /\ fileTable[f].latest # world[f].latest
  /\ \E h \in Holders[f] :
       h < world[f].peerNum /\ world' = [world EXCEPT ![f].peerNum = h]
  /\ UNCHANGED <<clock, disk, mtime, fileTable, events>>

(* The user, and the events of what is done to the files. *)

Event(f, kind) == [file |-> f, kind |-> kind]
Raise(f, kind) ==
  /\ Len(events) < MaxEvents
  /\ events' = Append(events, Event(f, kind))

Edit(f) ==
  /\ f \in Edited /\ clock < MaxTime
  /\ clock' = clock + 1
  /\ disk' = [disk EXCEPT ![f] = clock']
  /\ mtime' = [mtime EXCEPT ![f] = clock']
  /\ Raise(f, "IN_CLOSE_WRITE")
  /\ UNCHANGED <<fileTable, world>>

Remove(f) ==
  /\ f \in Edited /\ disk[f] # 0
  /\ disk' = [disk EXCEPT ![f] = 0]
  /\ Raise(f, "IN_DELETE")
  /\ UNCHANGED <<clock, mtime, fileTable, world>>

(* The file monitor. *)

\* getFileInfo: what it was before, if there is no such file any more.
ModifyTimes(f) == IF disk[f] # 0 THEN {mtime[f]} ELSE Time \ {0}

fileAdded(f) ==
  /\ \E t \in ModifyTimes(f) :
       fileTable' = [fileTable EXCEPT ![f] = [latest |-> t, prev |-> 0, status |-> "READ_N_WRITE"]]
  /\ sendTracker

fileModifiedQuietly(f) == \* mutant: returns 0, and nothing is sent
  /\ \E t \in ModifyTimes(f) :
       fileTable' = [fileTable EXCEPT
         ![f] = [latest |-> t, prev |-> @.latest, status |-> "READ_N_WRITE"]]
  /\ UNCHANGED world
fileModified(f) ==
  /\ \E t \in ModifyTimes(f) :
       fileTable' = [fileTable EXCEPT
         ![f] = [latest |-> t, prev |-> @.latest, status |-> "READ_N_WRITE"]]
  /\ sendTracker

\* A file that was downloaded: the event is that of its own writing.
Synced(f) ==
  /\ fileTable' = [fileTable EXCEPT ![f].status = "READ_N_WRITE"]
  /\ UNCHANGED world

fileCloseWrite(f) ==
  \/ ~Known(f) /\ fileAdded(f)
  \/ Known(f) /\ fileTable[f].status = "SYNCED" /\ Synced(f)
  \/ Known(f) /\ fileTable[f].status # "SYNCED" /\ fileModified(f)

fileDeleted(f) ==
  \/ ~Known(f) /\ UNCHANGED <<fileTable, world>>
  \/ /\ Known(f)
     /\ fileTable' = [fileTable EXCEPT
          ![f] = [latest |-> clock, prev |-> @.latest, status |-> "DELETED"]]
     /\ sendTracker

\* file_monitor_thread: the next event.
Monitor ==
  /\ events # <<>>
  /\ events' = Tail(events)
  /\ LET f == Head(events).file IN
       \/ Head(events).kind = "IN_CLOSE_WRITE" /\ fileCloseWrite(f)
       \/ Head(events).kind = "IN_DELETE" /\ fileDeleted(f)
  /\ UNCHANGED <<clock, disk, mtime>>

\* traverseDir has put the files that were there into the table, which is
\* reported; the tracker knows them, or has other files from other peers.
Elsewhere(f) ==
  {Unknown} \cup
  {Version(1, 0, "READ_N_WRITE", Sizes[f][1], h) : h \in Holders[f]}
FilesInit ==
  /\ clock = 1
  /\ \E there \in SUBSET Edited :
       /\ disk = [f \in Files |-> IF f \in there THEN 1 ELSE 0]
       /\ mtime = disk
       /\ fileTable = [f \in Files |-> [NoEntry EXCEPT !.latest = disk[f]]]
       /\ \E other \in [Files -> UNION {Elsewhere(f) : f \in Files}] :
            /\ \A f \in Files : other[f] \in Elsewhere(f)
            /\ world = [f \in Files |->
                          IF f \in there THEN Merge(Unknown, fileTable[f]) ELSE other[f]]
  /\ events = <<>>

FilesTypeOK ==
  /\ clock \in Time /\ disk \in [Files -> Time] /\ mtime \in [Files -> Time]
  /\ fileTable \in [Files -> Entry]
  /\ events \in Seq([file : Files, kind : {"IN_CLOSE_WRITE", "IN_DELETE"}])
  /\ Len(events) <= MaxEvents
  /\ world \in [Files -> Versions]
=============================================================================
