--------------------------- MODULE Upload_proofs ---------------------------
(***************************************************************************)
(* Proofs about the file monitor and the uploads of a peer, for any tree   *)
(* of directories and files, any number of watches, events and changes:    *)
(* each variable keeps its type, and where the user waits for the watches  *)
(* the file table of the peer is true in every watched directory.          *)
(***************************************************************************)
EXTENDS Upload, SequenceTheorems, WellFoundedInduction, TLAPS

Frame == [dir : All, left : SUBSET (Files \cup Dirs)]
Kinds == {"IN_CREATE", "IN_DELETE", "IN_CLOSE_WRITE"}
Events(n) == [wd : 1 .. n, kind : Kinds, name : Files \cup Dirs]
Entries(n) == [dir : All \cup {Null, Freed}, wd : 0 .. n]

-----------------------------------------------------------------------------
(* What watchDirectory leaves in the watch table.                          *)

\* Nothing, or one entry for the directory d: under its own name, or a freed one.
Grows(d, name) ==
  \/ mnt_table' = mnt_table /\ wds' = wds
  \/ \E wd \in 1 .. Len(wds) + 1 :
       /\ Len(mnt_table) + 1 < MAX_DIR_NUM
       /\ mnt_table' = Append(mnt_table, Entry(name, wd))
       /\ \/ wds' = wds
          \/ wds' = Append(wds, d) /\ Watching(d) = {}
       /\ wd <= Len(wds')
       /\ name = d => wds'[wd] = d

\* A directory has one descriptor, an old one or the next.
LEMMA OneDescriptor ==
  ASSUME WatchesTypeOK, NEW d \in All, NEW new \in watchDirectory(d)
  PROVE  \/ new.wds = wds /\ new.slot = <<>>
         \/ \E wd \in 1 .. Len(wds) + 1 :
              /\ Len(mnt_table) + 1 < MAX_DIR_NUM
              /\ new.slot = <<Entry(d, wd)>>
              /\ \/ new.wds = wds
                 \/ new.wds = Append(wds, d) /\ Watching(d) = {}
              /\ wd <= Len(new.wds) /\ new.wds[wd] = d
<1>1. wds \in Seq(All \cup {None}) /\ mnt_table \in Seq(Entries(Len(wds)))
  BY DEF WatchesTypeOK, Entries
<1>2. Len(wds) \in Nat /\ Len(mnt_table) \in Nat /\ MAX_DIR_NUM \in Nat
  BY <1>1, LenProperties, WatchesAssumption
<1>3. /\ Len(Append(wds, d)) = Len(wds) + 1
      /\ Append(wds, d)[Len(wds) + 1] = d
  BY <1>1, AppendProperties
<1>4. CASE Len(mnt_table) + 1 >= MAX_DIR_NUM \/ d \notin dirs \cup {Root}
  BY <1>4 DEF watchDirectory
<1>5. CASE /\ ~(Len(mnt_table) + 1 >= MAX_DIR_NUM \/ d \notin dirs \cup {Root})
           /\ Watching(d) = {}
  <2>1. new = NewWatch(d)
    BY <1>5 DEF watchDirectory
  <2>2. new.wds = Append(wds, d) /\ new.slot = <<Entry(d, Len(wds) + 1)>>
    BY <2>1 DEF NewWatch
  <2> QED
    BY <1>2, <1>3, <1>5, <2>2
<1>6. CASE /\ ~(Len(mnt_table) + 1 >= MAX_DIR_NUM \/ d \notin dirs \cup {Root})
           /\ Watching(d) # {}
  <2>1. PICK wd \in Watching(d) : new = [wds |-> wds, slot |-> <<Entry(d, wd)>>]
    BY <1>6 DEF watchDirectory
  <2>2. wd \in 1 .. Len(wds) /\ wds[wd] = d
    BY DEF Watching
  <2> QED
    BY <1>2, <1>6, <2>1, <2>2
<1> QED
  BY <1>4, <1>5, <1>6

LEMMA TopFrame ==
  ASSUME WatchesTypeOK, stack # <<>>
  PROVE  /\ stack \in Seq(Frame) /\ Len(stack) \in 1 .. Len(stack)
         /\ top \in Frame /\ top.dir \in All /\ top.left \subseteq Files \cup Dirs
         /\ Below \in Seq(Frame) /\ Len(Below) = Len(stack) - 1
         /\ \A k \in 1 .. Len(stack) - 1 : Below[k] = stack[k]
<1>1. stack \in Seq(Frame)
  BY DEF WatchesTypeOK, Frame
<1>2. Len(stack) \in 1 .. Len(stack) /\ Len(stack) \in Nat
  BY <1>1, EmptySeq
<1>3. top \in Frame
  BY <1>1, <1>2, ElementOfSeq DEF top
<1>4. top.dir \in All /\ top.left \subseteq Files \cup Dirs
  BY <1>3 DEF Frame
<1>5. \A k \in 1 .. Len(stack) - 1 : stack[k] \in Frame
  BY <1>1, <1>2, ElementOfSeq
<1>6. /\ Below \in Seq(Frame) /\ Len(Below) = Len(stack) - 1
      /\ \A k \in 1 .. Len(stack) - 1 : Below[k] = stack[k]
  <2>1. PICK n \in Nat : n = Len(stack) - 1
    BY <1>2
  <2>2. /\ SubSeq(stack, 1, n) \in Seq(Frame)
        /\ Len(SubSeq(stack, 1, n)) = IF 1 <= n THEN n - 1 + 1 ELSE 0
        /\ \A k \in 1 .. n - 1 + 1 : SubSeq(stack, 1, n)[k] = stack[1 + k - 1]
    BY <1>5, <2>1, SubSeqProperties
  <2>3. (IF 1 <= n THEN n - 1 + 1 ELSE 0) = n /\ \A k \in 1 .. n : 1 + k - 1 = k
    OBVIOUS
  <2>4. n - 1 + 1 = n
    OBVIOUS
  <2> QED
    BY <2>1, <2>2, <2>3, <2>4 DEF Below
<1> QED
  BY <1>1, <1>2, <1>3, <1>4, <1>6

LEMMA EndVisitGrows ==
  ASSUME WatchesTypeOK, EndVisit
  PROVE  top.dir \in All /\ Grows(top.dir, top.dir)
<1>3. top.dir \in All
  BY TopFrame DEF EndVisit, Walks
<1>4. PICK new \in watchDirectory(top.dir) :
        wds' = new.wds /\ mnt_table' = mnt_table \o new.slot
  BY DEF EndVisit
<1>5. mnt_table \in Seq(Entries(Len(wds)))
  BY DEF WatchesTypeOK, Entries
<1>6. CASE new.wds = wds /\ new.slot = <<>>
  BY <1>3, <1>4, <1>5, <1>6, ConcatEmptySeq DEF Grows
<1>7. CASE \E wd \in 1 .. Len(wds) + 1 :
              /\ Len(mnt_table) + 1 < MAX_DIR_NUM
              /\ new.slot = <<Entry(top.dir, wd)>>
              /\ \/ new.wds = wds
                 \/ new.wds = Append(wds, top.dir) /\ Watching(top.dir) = {}
              /\ wd <= Len(new.wds) /\ new.wds[wd] = top.dir
  <2>1. \A e : mnt_table \o <<e>> = Append(mnt_table, e)
    BY <1>5
  <2> QED
    BY <1>3, <1>4, <1>7, <2>1 DEF Grows
<1> QED
  BY <1>3, <1>4, <1>6, <1>7, OneDescriptor

LEMMA DirCreateGrows ==
  ASSUME WatchesTypeOK, NEW d \in Dirs, DirCreate(d)
  PROVE  Grows(d, Freed)
<1>1. d \in All /\ d # Freed
  BY WatchesAssumption DEF All
<1>0. PICK new \in watchDirectory(d) :
        wds' = new.wds /\ \E slot \in Stored(new.slot) : mnt_table' = mnt_table \o slot
  BY DEF DirCreate
<1>2. PICK slot \in Stored(new.slot) : wds' = new.wds /\ mnt_table' = mnt_table \o slot
  BY <1>0
<1>3. mnt_table \in Seq(Entries(Len(wds))) /\ wds \in Seq(All \cup {None})
  BY DEF WatchesTypeOK, Entries
<1>4. CASE new.wds = wds /\ new.slot = <<>>
  <2>1. slot = <<>>
    BY <1>2, <1>4 DEF Stored
  <2> QED
    BY <1>2, <1>3, <1>4, <2>1, ConcatEmptySeq DEF Grows
<1>5. ASSUME NEW wd \in 1 .. Len(wds) + 1,
             Len(mnt_table) + 1 < MAX_DIR_NUM,
             new.slot = <<Entry(d, wd)>>,
             new.wds = wds \/ (new.wds = Append(wds, d) /\ Watching(d) = {}),
             wd <= Len(new.wds)
      PROVE  Grows(d, Freed)
  <2>1. PICK w \in {1, wd} : slot = <<Entry(Freed, w)>>
    <3>1. DOMAIN new.slot = {1} /\ new.slot[1].wd = wd
      BY <1>5 DEF Entry
    <3>2. PICK w \in {1} \cup {new.slot[i].wd : i \in DOMAIN new.slot} :
            slot = [i \in DOMAIN new.slot |-> Entry(Freed, w)]
      BY <1>2 DEF Stored
    <3> QED
      BY <3>1, <3>2
  <2>2. Len(wds) \in Nat
    BY <1>3, LenProperties
  <2>3. w \in 1 .. Len(wds) + 1 /\ w <= Len(new.wds)
    <3>1. Len(new.wds) \in Nat
      BY <1>3, <1>5, <1>1, AppendProperties, LenProperties, <2>2
    <3> QED
      BY <1>5, <2>2, <3>1
  <2>4. mnt_table' = Append(mnt_table, Entry(Freed, w))
    BY <1>2, <1>3, <2>1
  <2> QED
    BY <1>1, <1>2, <1>5, <2>3, <2>4 DEF Grows
<1> QED
  BY <1>1, <1>4, <1>5, OneDescriptor

-----------------------------------------------------------------------------
(* Types.                                                                  *)

LEMMA GrowsType ==
  ASSUME WatchesTypeOK, NEW d \in All, NEW name \in All \cup {Freed}, Grows(d, name)
  PROVE  /\ wds' \in Seq(All \cup {None}) /\ Len(wds) <= Len(wds')
         /\ mnt_table' \in Seq(Entries(Len(wds'))) /\ Len(mnt_table') < MAX_DIR_NUM
<1>1. /\ wds \in Seq(All \cup {None}) /\ Len(wds) \in Nat
      /\ mnt_table \in Seq(Entries(Len(wds))) /\ Len(mnt_table) \in Nat
      /\ Len(mnt_table) < MAX_DIR_NUM /\ MAX_DIR_NUM \in Nat
  BY WatchesAssumption, LenProperties DEF WatchesTypeOK, Entries
<1>2. CASE mnt_table' = mnt_table /\ wds' = wds
  BY <1>1, <1>2
<1>3. ASSUME NEW wd \in 1 .. Len(wds) + 1,
             Len(mnt_table) + 1 < MAX_DIR_NUM,
             mnt_table' = Append(mnt_table, Entry(name, wd)),
             wds' = wds \/ wds' = Append(wds, d),
             wd <= Len(wds')
      PROVE  /\ wds' \in Seq(All \cup {None}) /\ Len(wds) <= Len(wds')
             /\ mnt_table' \in Seq(Entries(Len(wds'))) /\ Len(mnt_table') < MAX_DIR_NUM
  <2>1. wds' \in Seq(All \cup {None}) /\ Len(wds') \in Nat /\ Len(wds) <= Len(wds')
    <3>1. CASE wds' = wds
      BY <1>1, <3>1
    <3>2. CASE wds' = Append(wds, d)
      BY <1>1, <3>2, AppendProperties
    <3> QED
      BY <1>3, <3>1, <3>2
  <2>2. Entries(Len(wds)) \subseteq Entries(Len(wds'))
    BY <1>1, <2>1 DEF Entries
  <2>3. mnt_table \in Seq(Entries(Len(wds')))
    BY <1>1, <2>2, SeqMonotonic
  <2>4. Entry(name, wd) \in Entries(Len(wds'))
    BY <1>1, <1>3, <2>1 DEF Entry, Entries
  <2> QED
    BY <1>1, <1>3, <2>1, <2>3, <2>4, AppendProperties
<1> QED
  BY <1>2, <1>3 DEF Grows

\* The watch of the last entry ends, and the entry is cleared.
LEMMA ClearType ==
  ASSUME WatchesTypeOK, Clear, Last > 0
  PROVE  /\ wds' \in Seq(All \cup {None}) /\ Len(wds') = Len(wds)
         /\ mnt_table' \in Seq(Entries(Len(wds'))) /\ Len(mnt_table') = Len(mnt_table)
         /\ Last \in 1 .. Len(mnt_table)
         /\ \A i \in 1 .. Last : mnt_table'[i] = IF i = Last THEN Entry(Null, 0) ELSE mnt_table[i]
         /\ \A w \in 1 .. Len(wds) :
              wds'[w] = IF w = mnt_table[Last].wd THEN None ELSE wds[w]
<1>1. /\ wds \in Seq(All \cup {None}) /\ Len(wds) \in Nat
      /\ mnt_table \in Seq(Entries(Len(wds))) /\ Len(mnt_table) \in Nat
  BY LenProperties DEF WatchesTypeOK, Entries
<1>2. Last \in 1 .. Len(mnt_table) /\ Entry(Null, 0) \in Entries(Len(wds))
  BY <1>1 DEF Last, Entry, Entries
<1>3. mnt_table' = [mnt_table EXCEPT ![Last] = Entry(Null, 0)]
  BY DEF Clear
<1>4. mnt_table' \in Seq(Entries(Len(wds))) /\ Len(mnt_table') = Len(mnt_table)
      /\ \A i \in 1 .. Len(mnt_table) :
           mnt_table'[i] = IF i = Last THEN Entry(Null, 0) ELSE mnt_table[i]
  BY <1>1, <1>2, <1>3, ExceptSeq
<1>5. mnt_table[Last] \in Entries(Len(wds))
  BY <1>1, <1>2, ElementOfSeq
<1>6. PICK w \in 0 .. Len(wds) : w = mnt_table[Last].wd
  BY <1>5 DEF Entries
<1>7. wds' = [wds EXCEPT ![w] = None]
  BY <1>6 DEF Clear
<1>8. CASE w = 0
  <2>1. wds \in [1 .. Len(wds) -> All \cup {None}] /\ 0 \notin 1 .. Len(wds)
    BY <1>1, LenProperties
  <2>2. wds' = wds
    BY <1>7, <1>8, <2>1
  <2> QED
    BY <1>1, <1>2, <1>4, <1>6, <1>8, <2>2 DEF Last
<1>9. CASE w \in 1 .. Len(wds)
  <2>1. /\ wds' \in Seq(All \cup {None}) /\ Len(wds') = Len(wds)
        /\ \A v \in 1 .. Len(wds) : wds'[v] = IF v = w THEN None ELSE wds[v]
    BY <1>1, <1>7, <1>9, ExceptSeq
  <2> QED
    BY <1>1, <1>2, <1>4, <1>6, <2>1 DEF Last
<1> QED
  BY <1>1, <1>8, <1>9

\* An event is that of a descriptor there was: descriptors only get more.
LEMMA EventsType ==
  ASSUME NEW n \in Nat, NEW m \in Nat, n <= m, NEW s \in Seq(Events(n))
  PROVE  s \in Seq(Events(m))
<1>1. Events(n) \subseteq Events(m)
  BY DEF Events
<1> QED
  BY <1>1, SeqMonotonic

LEMMA RaiseType ==
  ASSUME WatchesTypeOK, NEW d \in All, NEW kind \in Kinds, NEW name \in Files \cup Dirs,
         Raise(d, kind, name)
  PROVE  /\ events' \in Seq(Events(Len(wds)))
         /\ \/ \E wd \in Watching(d) : events' = Append(events, Event(wd, kind, name))
            \/ Watching(d) = {} /\ events' = events
<1>1. events \in Seq(Events(Len(wds)))
  BY DEF WatchesTypeOK, Events, Kinds
<1>2. ASSUME NEW wd \in Watching(d)
      PROVE  Event(wd, kind, name) \in Events(Len(wds))
  BY DEF Watching, Event, Events
<1>3. ASSUME NEW e \in Events(Len(wds))
      PROVE  Append(events, e) \in Seq(Events(Len(wds)))
  BY <1>1, AppendProperties
<1> QED
  BY <1>1, <1>2, <1>3 DEF Raise

\* Where a directory is removed, the watch of it ends.
LEMMA RemoveDirType ==
  ASSUME WatchesTypeOK, NEW d \in Dirs,
         wds' = [wd \in DOMAIN wds |-> IF wds[wd] = d THEN None ELSE wds[wd]]
  PROVE  /\ wds' \in Seq(All \cup {None}) /\ Len(wds') = Len(wds)
         /\ \A w \in 1 .. Len(wds) : wds'[w] = IF wds[w] = d THEN None ELSE wds[w]
<1>1. /\ wds \in Seq(All \cup {None}) /\ Len(wds) \in Nat
      /\ DOMAIN wds = 1 .. Len(wds) /\ wds \in [1 .. Len(wds) -> All \cup {None}]
  BY LenProperties DEF WatchesTypeOK
<1>2. wds' \in [1 .. Len(wds) -> All \cup {None}]
  BY <1>1
<1>3. wds' \in Seq(All \cup {None})
  BY <1>1, <1>2, SeqDef
<1>4. Len(wds') = Len(wds)
  <2>1. DOMAIN wds' = 1 .. Len(wds') /\ Len(wds') \in Nat
    BY <1>3, LenProperties
  <2>2. DOMAIN wds' = 1 .. Len(wds)
    BY <1>2
  <2> QED
    BY <1>1, <2>1, <2>2
<1> QED
  BY <1>1, <1>3, <1>4

LEMMA ChangesType ==
  ASSUME WatchesTypeOK, Changes
  PROVE  WatchesTypeOK'
<1>1. /\ User
      /\ events' \in Seq(Events(Len(wds))) /\ wds' \in Seq(All \cup {None}) /\ Len(wds') = Len(wds)
      /\ dirs' \subseteq Dirs /\ disk' \in [Files -> {None, "empty", "bytes"}]
  <2>1. /\ events \in Seq(Events(Len(wds))) /\ wds \in Seq(All \cup {None}) /\ dirs \subseteq Dirs
        /\ disk \in [Files -> {None, "empty", "bytes"}]
    BY DEF WatchesTypeOK, Events, Kinds
  <2>2. ASSUME NEW d \in Dirs, MakeDir(d)
        PROVE  <1>1!:
    <3>1. events' \in Seq(Events(Len(wds)))
      BY <2>2, RaiseType DEF MakeDir, Kinds, All
    <3> QED
      BY <2>1, <2>2, <3>1 DEF MakeDir
  <2>3. ASSUME NEW d \in Dirs, RemoveDir(d)
        PROVE  <1>1!:
    <3>1. events' \in Seq(Events(Len(wds)))
      BY <2>3, RaiseType DEF RemoveDir, Kinds, All
    <3>2. wds' \in Seq(All \cup {None}) /\ Len(wds') = Len(wds)
      BY <2>3, RemoveDirType DEF RemoveDir
    <3> QED
      BY <2>1, <2>3, <3>1, <3>2 DEF RemoveDir
  <2>4. ASSUME NEW f \in Files, NEW size \in {"empty", "bytes"}, Write(f, size)
        PROVE  <1>1!:
    <3>1. events' \in Seq(Events(Len(wds)))
      BY <2>4, RaiseType, WatchesAssumption DEF Write, Kinds, All
    <3> QED
      BY <2>1, <2>4, <3>1 DEF Write
  <2>5. ASSUME NEW f \in Files, Remove(f)
        PROVE  <1>1!:
    <3>1. events' \in Seq(Events(Len(wds)))
      BY <2>5, RaiseType, WatchesAssumption DEF Remove, Kinds, All
    <3> QED
      BY <2>1, <2>5, <3>1 DEF Remove
  <2> QED
    BY <2>2, <2>3, <2>4, <2>5 DEF Changes
<1>2. changes' \in 0 .. MaxChanges
  BY <1>1, WatchesAssumption DEF User, WatchesTypeOK
<1> QED
  BY <1>1, <1>2 DEF User, WatchesTypeOK, Events, Kinds

LEMMA VisitType ==
  ASSUME WatchesTypeOK, NEW d \in All
  PROVE  Visit(d) \in Frame
BY DEF WatchesTypeOK, Visit, Children, Frame

LEMMA WalkType ==
  ASSUME WatchesTypeOK,
         \/ readConfigFile \/ EndVisit
         \/ \E f \in Files : VisitFile(f)
         \/ \E d \in Dirs : VisitDir(d)
  PROVE  WatchesTypeOK'
<1>1. /\ events \in Seq(Events(Len(wds))) /\ wds \in Seq(All \cup {None}) /\ Len(wds) \in Nat
      /\ stack \in Seq(Frame) /\ mnt_table \in Seq(Entries(Len(wds)))
  BY LenProperties DEF WatchesTypeOK, Events, Kinds, Frame, Entries
<1>2. CASE readConfigFile
  <2>1. stack' \in Seq(Frame)
    <3>1. Visit(Root) \in Frame
      BY VisitType DEF All
    <3> QED
      BY <1>2, <3>1 DEF readConfigFile
  <2> QED
    BY <1>2, <2>1 DEF readConfigFile, WatchesTypeOK, Frame
<1>3. ASSUME NEW x \in Files \cup Dirs, Walks
      PROVE  Append(Below, [top EXCEPT !.left = @ \ {x}]) \in Seq(Frame)
  <2>1. Below \in Seq(Frame) /\ top \in Frame
    BY <1>3, TopFrame DEF Walks
  <2>2. [top EXCEPT !.left = @ \ {x}] \in Frame
    BY <2>1 DEF Frame
  <2> QED
    BY <2>1, <2>2, AppendProperties
<1>4. ASSUME NEW f \in Files, VisitFile(f)
      PROVE  WatchesTypeOK'
  <2>1. stack' \in Seq(Frame)
    BY <1>3, <1>4 DEF VisitFile
  <2> QED
    BY <1>4, <2>1 DEF VisitFile, Walks, WatchesTypeOK, Frame
<1>5. ASSUME NEW d \in Dirs, VisitDir(d)
      PROVE  WatchesTypeOK'
  <2>1. Append(Below, [top EXCEPT !.left = @ \ {d}]) \in Seq(Frame)
    BY <1>3, <1>5 DEF VisitDir
  <2>2. Visit(d) \in Frame
    BY VisitType DEF All
  <2>3. stack' \in Seq(Frame)
    BY <1>5, <2>1, <2>2, AppendProperties DEF VisitDir
  <2> QED
    BY <1>5, <2>3 DEF VisitDir, Walks, WatchesTypeOK, Frame
<1>6. CASE EndVisit
  <2>1. stack' \in Seq(Frame)
    BY <1>6, TopFrame DEF EndVisit, Walks
  <2>2. /\ wds' \in Seq(All \cup {None}) /\ Len(wds) <= Len(wds') /\ Len(wds') \in Nat
        /\ mnt_table' \in Seq(Entries(Len(wds'))) /\ Len(mnt_table') < MAX_DIR_NUM
    BY <1>6, EndVisitGrows, GrowsType, LenProperties
  <2>3. events' \in Seq(Events(Len(wds')))
    BY <1>1, <1>6, <2>2, EventsType DEF EndVisit
  <2> QED
    BY <1>6, <2>1, <2>2, <2>3 DEF EndVisit, Walks, WatchesTypeOK, Frame, Events, Kinds, Entries
<1> QED
  BY <1>2, <1>4, <1>5, <1>6

LEMMA ReadEventType ==
  ASSUME WatchesTypeOK, ReadEvent
  PROVE  WatchesTypeOK'
<1>1. /\ events \in Seq(Events(Len(wds))) /\ events # <<>>
      /\ wds \in Seq(All \cup {None}) /\ Len(wds) \in Nat
      /\ mnt_table \in Seq(Entries(Len(wds)))
  BY LenProperties DEF WatchesTypeOK, Events, Kinds, Entries, ReadEvent
<1>2. events' \in Seq(Events(Len(wds))) /\ Head(events) \in Events(Len(wds))
  BY <1>1, HeadTailProperties DEF ReadEvent
<1>3. PICK ev \in Events(Len(wds)) : ev = Head(events)
  BY <1>2
<1>4. ev.name \in Files \cup Dirs
  BY DEF Events
<1>5. /\ wds' \in Seq(All \cup {None}) /\ Len(wds) <= Len(wds')
      /\ mnt_table' \in Seq(Entries(Len(wds'))) /\ Len(mnt_table') < MAX_DIR_NUM
      /\ fileTable' \in [Files -> {None, "READ_N_WRITE", "DELETED"}]
      /\ deltas' \subseteq Files
      /\ ended' \in {"no", "segv", "abort", "SIGPIPE", "exit"}
  <2>0. /\ Len(mnt_table) < MAX_DIR_NUM
        /\ fileTable \in [Files -> {None, "READ_N_WRITE", "DELETED"}]
        /\ deltas \subseteq Files
        /\ ended \in {"no", "segv", "abort", "SIGPIPE", "exit"}
    BY DEF WatchesTypeOK
  <2>1. CASE NothingDone
    BY <1>1, <2>0, <2>1 DEF NothingDone
  <2>2. CASE End("segv") /\ UNCHANGED <<wds, mnt_table, fileTable, deltas>>
    BY <1>1, <2>0, <2>2 DEF End
  <2>3. CASE ev.name \in Dirs /\ DirCreate(ev.name)
    <3>1. Grows(ev.name, Freed)
      BY <2>3, DirCreateGrows
    <3> QED
      BY <2>0, <2>3, <3>1, GrowsType DEF DirCreate, All
  <2>4. CASE DirDelete(ev.name)
    <3>1. CASE Last > 0 /\ Clear /\ ended' \in {ended, "abort"}
      <4>1. /\ wds' \in Seq(All \cup {None}) /\ Len(wds') = Len(wds)
            /\ mnt_table' \in Seq(Entries(Len(wds'))) /\ Len(mnt_table') = Len(mnt_table)
        BY <3>1, ClearType
      <4> QED
        BY <1>1, <2>0, <2>4, <3>1, <4>1 DEF DirDelete
    <3>2. CASE UNCHANGED <<mnt_table, wds>> /\ ended' \in {ended, "segv"}
      BY <1>1, <2>0, <2>4, <3>2 DEF DirDelete
    <3> QED
      BY <2>4, <3>1, <3>2 DEF DirDelete, End
  <2>5. CASE ev.name \notin Dirs /\ FileCloseWrite(ev.name)
    BY <1>1, <1>4, <2>0, <2>5 DEF FileCloseWrite
  <2>6. CASE ev.name \notin Dirs /\ FileDelete(ev.name)
    BY <1>1, <1>4, <2>0, <2>6 DEF FileDelete
  <2>7. Handle(ev) => \/ ev.name \in Dirs /\ DirCreate(ev.name)
                      \/ DirDelete(ev.name)
                      \/ ev.name \notin Dirs /\ FileCloseWrite(ev.name)
                      \/ ev.name \notin Dirs /\ FileDelete(ev.name)
    BY DEF Handle
  <2>8. \/ NothingDone \/ Handle(ev)
        \/ End("segv") /\ UNCHANGED <<wds, mnt_table, fileTable, deltas>>
    BY <1>3 DEF ReadEvent
  <2> QED
    BY <2>1, <2>2, <2>3, <2>4, <2>5, <2>6, <2>7, <2>8
<1>6. Len(wds') \in Nat
  BY <1>5, LenProperties
<1>7. events' \in Seq(Events(Len(wds')))
  BY <1>1, <1>2, <1>5, <1>6, EventsType
<1> QED
  BY <1>5, <1>7 DEF ReadEvent, WatchesTypeOK, Events, Kinds, Entries

\* All the monitor and the user do keeps the types of the files and watches.
LEMMA WatchesType ==
  ASSUME WatchesTypeOK, FileMonitor \/ Changes
  PROVE  WatchesTypeOK'
<1>1. CASE MonitorNull
  BY <1>1 DEF MonitorNull, End, WatchesTypeOK
<1> QED
  BY <1>1, WalkType, ReadEventType, ChangesType DEF FileMonitor

\* The threads that serve change config and ended, and nothing else of them.
Serving ==
  /\ UNCHANGED <<dirs, disk, changes, stack, wds, events, mnt_table, fileTable, deltas>>
  /\ config' \in {config, "NULL"}
  /\ ended' \in {ended, "segv", "abort", "SIGPIPE", "exit"}

LEMMA ServingSteps ==
  ASSUME \/ \E r \in Requests : Ask(r)
         \/ Accept \/ Serve \/ ServeGone \/ ServeNull \/ Close \/ clearAll \/ clearTable
         \/ UNCHANGED vars
  PROVE  Serving
<1>1. ASSUME NEW r \in Requests, Ask(r) PROVE Serving
  BY <1>1 DEF Ask, watchVars, Serving
<1>2. CASE Accept \/ Serve \/ Close \/ UNCHANGED vars
  BY <1>2 DEF Accept, Serve, Close, vars, watchVars, Serving
<1>3. CASE ServeGone
  BY <1>3 DEF ServeGone, Serving
<1>4. CASE ServeNull \/ clearAll
  BY <1>4 DEF ServeNull, clearAll, End, Serving
<1>5. CASE clearTable
  BY <1>5 DEF clearTable, Serving
<1> QED
  BY <1>1, <1>2, <1>3, <1>4, <1>5

LEMMA NextType ==
  ASSUME TypeOK, [Next]_vars
  PROVE  TypeOK'
<1>1. WatchesTypeOK'
  <2>1. CASE FileMonitor \/ Changes
    BY <2>1, WatchesType DEF TypeOK
  <2>2. CASE Serving
    BY <2>2 DEF Serving, TypeOK, WatchesTypeOK
  <2> QED
    BY <2>1, <2>2, ServingSteps DEF Next, Monitors
<1>2. /\ conn' \in {"none", "backlog", "part", "request", "gone", "answer", "silence"}
      /\ request' \in Requests \cup {NoRequest} /\ sockets' \in 0 .. MaxSockets
  <2>1. CASE UNCHANGED uploadVars
    BY <2>1 DEF uploadVars, TypeOK
  <2>2. ASSUME NEW r \in Requests, Ask(r) PROVE <1>2!:
    BY <2>2 DEF Ask, TypeOK
  <2>3. CASE Accept
    BY <2>3, UploadAssumption DEF Accept, TypeOK
  <2>4. CASE Serve \/ ServeGone \/ Close
    BY <2>4 DEF Serve, ServeGone, Close, TypeOK
  <2> QED
    BY <2>1, <2>2, <2>3, <2>4
       DEF Next, Monitors, ServeNull, clearAll, clearTable, vars, uploadVars
<1> QED
  BY <1>1, <1>2 DEF TypeOK

\* Each variable of the file monitor and of the uploads keeps its type; the watch table
\* never holds MAX_DIR_NUM entries, and no more descriptors are taken than there are.
THEOREM TypeCorrect == Spec => []TypeOK
<1>1. Init => TypeOK
  <2> SUFFICES ASSUME Init PROVE TypeOK
    OBVIOUS
  <2>1. wds \in Seq(All \cup {None}) /\ Len(mnt_table) < MAX_DIR_NUM
    BY WatchesAssumption DEF Init, WatchesInit
  <2>2. 0 \in 0 .. MaxChanges /\ 0 \in 0 .. MaxSockets
    BY WatchesAssumption, UploadAssumption
  <2> QED
    BY <2>1, <2>2 DEF Init, WatchesInit, TypeOK, WatchesTypeOK
<1>2. TypeOK /\ [Next]_vars => TypeOK'
  BY NextType
<1> QED
  BY <1>1, <1>2, PTL DEF Spec

-----------------------------------------------------------------------------
(* The watch table and the descriptors.  An entry that names a directory   *)
(* has a descriptor that watches this directory or none any more; entries  *)
(* whose name is freed come behind all of them.  So the first entry with a *)
(* descriptor that is watched is the one that names its directory.         *)

OneWatch ==
  \A v, w \in 1 .. Len(wds) : wds[v] = wds[w] /\ wds[v] # None => v = w

EntryInv(i) ==
  /\ mnt_table[i].dir \in All =>
       /\ mnt_table[i].wd \in 1 .. Len(wds)
       /\ wds[mnt_table[i].wd] \in {mnt_table[i].dir, None}
  /\ mnt_table[i].dir = Null => mnt_table[i].wd = 0
  /\ mnt_table[i].dir = Freed =>
       /\ config # "unset" /\ stack = <<>>
       /\ \A j \in i .. Len(mnt_table) : mnt_table[j].dir \notin All

TableInv == OneWatch /\ \A i \in 1 .. Len(mnt_table) : EntryInv(i)

\* Entry i names the directory d, and inotify watches it.
Live(i, d) ==
  /\ i \in 1 .. Len(mnt_table) /\ mnt_table[i].dir = d
  /\ mnt_table[i].wd \in 1 .. Len(wds) /\ wds[mnt_table[i].wd] = d

\* Watches end and entries are cleared.
Shrinks ==
  /\ Len(wds') = Len(wds) /\ \A w \in 1 .. Len(wds) : wds'[w] \in {wds[w], None}
  /\ Len(mnt_table') = Len(mnt_table)
  /\ \A i \in 1 .. Len(mnt_table) : mnt_table'[i] \in {mnt_table[i], Entry(Null, 0)}

LEMMA Names == None \notin All /\ Null \notin All /\ Freed \notin All /\ Null # Freed
BY WatchesAssumption DEF All, Null, Freed

LEMMA ShrinksTable ==
  ASSUME WatchesTypeOK, TableInv, Shrinks,
         config # "unset" /\ stack = <<>> => config' # "unset" /\ stack' = <<>>
  PROVE  TableInv'
<1>1. OneWatch'
  BY DEF TableInv, OneWatch, Shrinks
<1>2. ASSUME NEW i \in 1 .. Len(mnt_table)
      PROVE  EntryInv(i)'
  <2>1. CASE mnt_table'[i] = mnt_table[i]
    <3>1. EntryInv(i)
      BY DEF TableInv
    <3>2. mnt_table[i].dir = Freed =>
            \A j \in i .. Len(mnt_table') : mnt_table'[j].dir \notin All
      <4> SUFFICES ASSUME mnt_table[i].dir = Freed, NEW j \in i .. Len(mnt_table)
                   PROVE  mnt_table'[j].dir \notin All
        BY DEF Shrinks
      <4>1. j \in 1 .. Len(mnt_table)
        OBVIOUS
      <4>2. mnt_table'[j] = mnt_table[j] \/ mnt_table'[j].dir = Null
        BY <4>1 DEF Shrinks, Entry
      <4> QED
        BY <3>1, <4>2, Names DEF EntryInv
    <3> QED
      BY <2>1, <3>1, <3>2 DEF EntryInv, Shrinks
  <2>2. CASE mnt_table'[i] = Entry(Null, 0)
    BY <2>2, Names DEF EntryInv, Entry
  <2> QED
    BY <2>1, <2>2 DEF Shrinks
<1> QED
  BY <1>1, <1>2 DEF TableInv, Shrinks

LEMMA GrowsTable ==
  ASSUME WatchesTypeOK, TableInv, NEW d \in All, NEW name \in {d, Freed}, Grows(d, name),
         UNCHANGED config, stack = <<>> => stack' = <<>>,
         name = Freed => config # "unset" /\ stack = <<>>,
         name = d => stack # <<>>
  PROVE  TableInv'
<1>1. /\ wds \in Seq(All \cup {None}) /\ Len(wds) \in Nat
      /\ mnt_table \in Seq(Entries(Len(wds))) /\ Len(mnt_table) \in Nat
  BY LenProperties DEF WatchesTypeOK, Entries
<1>2. CASE mnt_table' = mnt_table /\ wds' = wds
  BY <1>2, ShrinksTable DEF Shrinks
<1>3. ASSUME NEW wd \in 1 .. Len(wds) + 1,
             mnt_table' = Append(mnt_table, Entry(name, wd)),
             \/ wds' = wds
             \/ wds' = Append(wds, d) /\ Watching(d) = {},
             wd <= Len(wds'),
             name = d => wds'[wd] = d
      PROVE  TableInv'
  <2>1. /\ Len(wds') \in Nat /\ Len(wds) <= Len(wds')
        /\ \A w \in 1 .. Len(wds) : wds'[w] = wds[w]
    BY <1>1, <1>3, AppendProperties
  <2>2. OneWatch'
    <3>1. CASE wds' = wds
      BY <3>1 DEF TableInv, OneWatch
    <3>2. CASE wds' = Append(wds, d) /\ Watching(d) = {}
      <4>1. Len(wds') = Len(wds) + 1 /\ wds'[Len(wds) + 1] = d
        BY <1>1, <3>2, AppendProperties
      <4>2. \A w \in 1 .. Len(wds) : wds[w] # d
        BY <3>2 DEF Watching
      <4>3. \A w \in 1 .. Len(wds') : w \in 1 .. Len(wds) \/ w = Len(wds) + 1
        BY <1>1, <4>1
      <4> QED
        BY <2>1, <4>1, <4>2, <4>3 DEF TableInv, OneWatch
    <3> QED
      BY <1>3, <3>1, <3>2
  <2>3. Entry(name, wd) \in Entries(Len(wds) + 1)
    BY <1>1 DEF Entry, Entries
  <2>4. Entries(Len(wds)) \subseteq Entries(Len(wds) + 1)
    BY <1>1 DEF Entries
  <2>5. mnt_table \in Seq(Entries(Len(wds) + 1))
    BY <1>1, <2>4, SeqMonotonic
  <2>6. /\ Len(mnt_table') = Len(mnt_table) + 1
        /\ mnt_table'[Len(mnt_table) + 1] = Entry(name, wd)
        /\ \A i \in 1 .. Len(mnt_table) : mnt_table'[i] = mnt_table[i]
    BY <1>3, <2>3, <2>5, AppendProperties
  <2>7. ASSUME NEW i \in 1 .. Len(mnt_table)
        PROVE  EntryInv(i)'
    <3>1. EntryInv(i) /\ mnt_table'[i] = mnt_table[i]
      BY <2>6 DEF TableInv
    <3>2. mnt_table[i].dir = Freed =>
            /\ name = Freed
            /\ \A j \in i .. Len(mnt_table') : mnt_table'[j].dir \notin All
      <4> SUFFICES ASSUME mnt_table[i].dir = Freed
                   PROVE  /\ name = Freed
                          /\ \A j \in i .. Len(mnt_table) + 1 : mnt_table'[j].dir \notin All
        BY <2>6
      <4>1. name = Freed
        BY <3>1 DEF EntryInv
      <4>2. \A j \in i .. Len(mnt_table) + 1 :
              j = Len(mnt_table) + 1 \/ (j \in i .. Len(mnt_table) /\ j \in 1 .. Len(mnt_table))
        BY <1>1
      <4>3. mnt_table'[Len(mnt_table) + 1].dir = Freed
        BY <2>6, <4>1 DEF Entry
      <4>4. \A j \in i .. Len(mnt_table) : mnt_table[j].dir \notin All
        BY <3>1 DEF EntryInv
      <4> QED
        BY <2>6, <4>1, <4>2, <4>3, <4>4, Names
    <3>3. mnt_table[i].dir \in All =>
            /\ mnt_table[i].wd \in 1 .. Len(wds')
            /\ wds'[mnt_table[i].wd] \in {mnt_table[i].dir, None}
      BY <1>1, <2>1, <3>1 DEF EntryInv
    <3> QED
      BY <3>1, <3>2, <3>3 DEF EntryInv
  <2>8. PICK n \in Nat : n = Len(mnt_table) + 1
    BY <1>1
  <2>9. EntryInv(n)'
    <3>1. mnt_table'[n].dir = name /\ mnt_table'[n].wd = wd /\ Len(mnt_table') = n
      BY <2>6, <2>8 DEF Entry
    <3>2. wd \in 1 .. Len(wds')
      BY <1>1, <1>3, <2>1
    <3>3. \A j \in n .. n : j = n
      OBVIOUS
    <3> QED
      BY <1>3, <3>1, <3>2, <3>3, Names DEF EntryInv
  <2>10. \A i \in 1 .. Len(mnt_table') : i \in 1 .. Len(mnt_table) \/ i = n
    BY <1>1, <2>6, <2>8
  <2> QED
    BY <2>2, <2>7, <2>9, <2>10 DEF TableInv
<1> QED
  BY <1>2, <1>3 DEF Grows

\* Watches end where the user removes a directory and where DirDelete clears an entry.
LEMMA DirDeleteShrinks ==
  ASSUME WatchesTypeOK, NEW d, DirDelete(d)
  PROVE  Shrinks
<1>1. CASE Last > 0 /\ Clear
  <2>1. Last = Len(mnt_table)
    BY DEF Last
  <2> QED
    BY <1>1, <2>1, ClearType DEF Shrinks
<1>2. CASE UNCHANGED <<mnt_table, wds>>
  BY <1>2 DEF Shrinks
<1> QED
  BY <1>1, <1>2 DEF DirDelete

LEMMA ChangesShrinks ==
  ASSUME WatchesTypeOK, Changes
  PROVE  Shrinks
<1>1. mnt_table' = mnt_table
  BY DEF Changes, MakeDir, RemoveDir, Write, Remove, User
<1>2. ASSUME NEW d \in Dirs, RemoveDir(d)
      PROVE  Len(wds') = Len(wds) /\ \A w \in 1 .. Len(wds) : wds'[w] \in {wds[w], None}
  BY <1>2, RemoveDirType DEF RemoveDir
<1>3. \/ wds' = wds
      \/ Len(wds') = Len(wds) /\ \A w \in 1 .. Len(wds) : wds'[w] \in {wds[w], None}
  BY <1>2 DEF Changes, MakeDir, Write, Remove
<1> QED
  BY <1>1, <1>3 DEF Shrinks

\* The cases of ReadEvent.
LEMMA ReadEventSteps ==
  ASSUME WatchesTypeOK, ReadEvent
  PROVE  /\ events # <<>> /\ Head(events) \in Events(Len(wds))
         /\ events' = Tail(events) /\ config = "set" /\ stack = <<>>
         /\ UNCHANGED <<disk, config, stack>>
         /\ \/ NothingDone
            \/ End("segv") /\ UNCHANGED <<wds, mnt_table, fileTable, deltas>>
            \/ Head(events).name \in Dirs /\ DirCreate(Head(events).name)
            \/ Head(events).name \in Dirs /\ DirDelete(Head(events).name)
            \/ /\ Head(events).name \in Files /\ Head(events).kind = "IN_CLOSE_WRITE"
               /\ FileCloseWrite(Head(events).name)
            \/ /\ Head(events).name \in Files /\ Head(events).kind = "IN_DELETE"
               /\ FileDelete(Head(events).name)
<1>1. events \in Seq(Events(Len(wds))) /\ events # <<>>
  BY DEF WatchesTypeOK, Events, Kinds, ReadEvent
<1>2. Head(events) \in Events(Len(wds))
  BY <1>1, HeadTailProperties
<1> DEFINE ev == Head(events)
<1>4. ev.name \in Files \cup Dirs
  BY <1>2 DEF Events
<1>5. \/ NothingDone \/ Handle(ev)
      \/ End("segv") /\ UNCHANGED <<wds, mnt_table, fileTable, deltas>>
  BY DEF ReadEvent
<1>6. /\ events' = Tail(events) /\ config = "set" /\ stack = <<>>
      /\ UNCHANGED <<disk, config, stack>>
  BY DEF ReadEvent
<1>7. Handle(ev) =>
        \/ ev.name \in Dirs /\ DirCreate(ev.name)
        \/ ev.name \in Dirs /\ DirDelete(ev.name)
        \/ ev.name \in Files /\ ev.kind = "IN_CLOSE_WRITE" /\ FileCloseWrite(ev.name)
        \/ ev.name \in Files /\ ev.kind = "IN_DELETE" /\ FileDelete(ev.name)
  BY <1>4 DEF Handle
<1> QED
  BY <1>1, <1>2, <1>5, <1>6, <1>7

LEMMA ReadEventTable ==
  ASSUME WatchesTypeOK, ReadEvent
  PROVE  Shrinks \/ \E d \in Dirs : Grows(d, Freed)
<1>1. NothingDone => Shrinks
  BY DEF NothingDone, Shrinks
<1>2. UNCHANGED <<wds, mnt_table>> => Shrinks
  BY DEF Shrinks
<1>3. \A d \in Dirs : DirCreate(d) => Grows(d, Freed)
  BY DirCreateGrows
<1>4. \A d \in Dirs : DirDelete(d) => Shrinks
  BY DirDeleteShrinks
<1>5. \A f : FileCloseWrite(f) \/ FileDelete(f) => Shrinks
  BY <1>2 DEF FileCloseWrite, FileDelete
<1> QED
  BY <1>1, <1>2, <1>3, <1>4, <1>5, ReadEventSteps

\* What a step does to the watch table.
LEMMA TableSteps ==
  ASSUME TypeOK, [Next]_vars
  PROVE  \/ Shrinks
         \/ EndVisit /\ Grows(top.dir, top.dir)
         \/ ReadEvent /\ \E d \in Dirs : Grows(d, Freed)
<1>1. WatchesTypeOK
  BY DEF TypeOK
<1>2. UNCHANGED <<wds, mnt_table>> => Shrinks
  BY DEF Shrinks
<1>3. Serving \/ readConfigFile \/ MonitorNull => Shrinks
  BY <1>2 DEF Serving, readConfigFile, MonitorNull
<1>4. \A f \in Files : VisitFile(f) => Shrinks
  BY <1>2 DEF VisitFile
<1>5. \A d \in Dirs : VisitDir(d) => Shrinks
  BY <1>2 DEF VisitDir
<1>6. Changes => Shrinks
  BY <1>1, ChangesShrinks
<1>7. EndVisit => Grows(top.dir, top.dir)
  BY <1>1, EndVisitGrows
<1>8. ReadEvent => Shrinks \/ \E d \in Dirs : Grows(d, Freed)
  BY <1>1, ReadEventTable
<1> QED
  BY <1>3, <1>4, <1>5, <1>6, <1>7, <1>8, ServingSteps DEF Next, Monitors, FileMonitor

\* The walk begins once, and does not begin again when it is at its end.
LEMMA WalkSteps ==
  ASSUME TypeOK, [Next]_vars, config # "unset", stack = <<>>
  PROVE  config' # "unset" /\ stack' = <<>>
<1>1. Serving => config' # "unset" /\ stack' = <<>>
  BY DEF Serving
<1>2. Changes => config' # "unset" /\ stack' = <<>>
  BY DEF Changes, MakeDir, RemoveDir, Write, Remove, User
<1>3. FileMonitor => config' # "unset" /\ stack' = <<>>
  BY DEF FileMonitor, readConfigFile, EndVisit, VisitFile, VisitDir, Walks, ReadEvent, MonitorNull
<1> QED
  BY <1>1, <1>2, <1>3, ServingSteps DEF Next, Monitors

LEMMA TableStep ==
  ASSUME TypeOK, TableInv, [Next]_vars
  PROVE  TableInv'
<1>1. WatchesTypeOK
  BY DEF TypeOK
<1>2. CASE Shrinks
  BY <1>1, <1>2, ShrinksTable, WalkSteps
<1>3. CASE EndVisit /\ Grows(top.dir, top.dir)
  <2>1. top.dir \in All /\ stack # <<>> /\ UNCHANGED config
    BY <1>1, <1>3, EndVisitGrows DEF EndVisit, Walks
  <2>2. PICK d \in All : d = top.dir
    BY <2>1
  <2>3. Grows(d, d) /\ d # Freed
    BY <1>3, <2>2, Names DEF Grows
  <2> QED
    BY <1>1, <2>1, <2>3, GrowsTable
<1>4. ASSUME NEW d \in Dirs, ReadEvent, Grows(d, Freed)
      PROVE  TableInv'
  <2>1. d \in All /\ d # Freed
    BY Names DEF All
  <2>2. stack = <<>> /\ config = "set" /\ UNCHANGED <<config, stack>>
    BY <1>4 DEF ReadEvent
  <2> QED
    BY <1>1, <1>4, <2>1, <2>2, GrowsTable
<1> QED
  BY <1>2, <1>3, <1>4, TableSteps

\* An entry whose directory is watched was there before, as it is, unless the walk has
\* just made it.
Stays(i, d) ==
  Live(i, d) /\ mnt_table'[i] = mnt_table[i] /\ wds'[mnt_table[i].wd] = d

LEMMA LiveStays ==
  ASSUME TypeOK, TableInv, [Next]_vars, NEW d \in All, NEW i, Live(i, d)'
  PROVE  \/ Stays(i, d)
         \/ EndVisit /\ top.dir = d
<1>1. /\ wds \in Seq(All \cup {None}) /\ Len(wds) \in Nat
      /\ mnt_table \in Seq(Entries(Len(wds))) /\ Len(mnt_table) \in Nat
  BY LenProperties DEF TypeOK, WatchesTypeOK, Entries
<1>2. CASE Shrinks
  <2>1. i \in 1 .. Len(mnt_table)
    BY <1>2 DEF Live, Stays, Shrinks
  <2>2. mnt_table'[i] = mnt_table[i]
    BY <1>2, <2>1, Names DEF Live, Shrinks, Entry
  <2>3. mnt_table[i].wd \in 1 .. Len(wds) /\ wds'[mnt_table[i].wd] = d
    BY <1>2, <2>2 DEF Live, Stays, Shrinks
  <2> QED
    BY <1>2, <2>1, <2>2, <2>3, Names DEF Live, Stays, Shrinks
<1>3. ASSUME NEW c \in All, NEW name \in {c, Freed}, Grows(c, name)
      PROVE  Stays(i, d) \/ name = d
  <2>1. CASE mnt_table' = mnt_table /\ wds' = wds
    BY <2>1 DEF Live, Stays
  <2>2. ASSUME NEW wd \in 1 .. Len(wds) + 1,
               mnt_table' = Append(mnt_table, Entry(name, wd)),
               wds' = wds \/ wds' = Append(wds, c)
        PROVE  Stays(i, d) \/ name = d
    <3>1. Entry(name, wd) \in Entries(Len(wds) + 1)
      BY <1>1 DEF Entry, Entries
    <3>2. Entries(Len(wds)) \subseteq Entries(Len(wds) + 1)
      BY <1>1 DEF Entries
    <3>3. mnt_table \in Seq(Entries(Len(wds) + 1))
      BY <1>1, <3>2, SeqMonotonic
    <3>4. /\ Len(mnt_table') = Len(mnt_table) + 1
          /\ mnt_table'[Len(mnt_table) + 1] = Entry(name, wd)
          /\ \A j \in 1 .. Len(mnt_table) : mnt_table'[j] = mnt_table[j]
      BY <2>2, <3>1, <3>3, AppendProperties
    <3>5. \A w \in 1 .. Len(wds) : wds'[w] = wds[w]
      BY <1>1, <2>2, AppendProperties
    <3>6. i \in 1 .. Len(mnt_table) \/ i = Len(mnt_table) + 1
      BY <1>1, <3>4 DEF Live, Stays
    <3>7. CASE i = Len(mnt_table) + 1
      BY <3>4, <3>7 DEF Live, Entry
    <3>8. CASE i \in 1 .. Len(mnt_table)
      <4>1. mnt_table'[i] = mnt_table[i] /\ EntryInv(i) /\ mnt_table[i].dir = d
        BY <3>4, <3>8 DEF TableInv, Live
      <4>2. mnt_table[i].wd \in 1 .. Len(wds)
        BY <4>1 DEF EntryInv
      <4> QED
        BY <3>5, <3>8, <4>1, <4>2 DEF Live, Stays
    <3> QED
      BY <3>6, <3>7, <3>8
  <2> QED
    BY <1>3, <2>1, <2>2 DEF Grows
<1>4. CASE EndVisit /\ Grows(top.dir, top.dir)
  <2>1. PICK c \in All : c = top.dir
    BY <1>4, EndVisitGrows DEF TypeOK
  <2>2. Grows(c, c)
    BY <1>4, <2>1 DEF Grows
  <2> QED
    BY <1>3, <1>4, <2>1, <2>2
<1>5. ASSUME NEW c \in Dirs, Grows(c, Freed)
      PROVE  Stays(i, d)
  BY <1>3, <1>5, Names DEF All
<1> QED
  BY <1>2, <1>4, <1>5, TableSteps

\* getPathByWd finds the directory of the event.
LEMMA PathIsKnown ==
  ASSUME WatchesTypeOK, TableInv, NEW d \in All, NEW i, Live(i, d)
  PROVE  getPathByWd(mnt_table[i].wd) = d
<1>1. Len(mnt_table) \in Nat /\ mnt_table \in Seq(Entries(Len(wds)))
  BY LenProperties DEF WatchesTypeOK, Entries
<1>2. PICK at : at = {j \in 1 .. Len(mnt_table) : mnt_table[j].wd = mnt_table[i].wd}
  OBVIOUS
<1>3. i \in at /\ at # {} /\ at \subseteq Nat
  BY <1>2 DEF Live
<1>4. PICK m \in at : \A j \in at : <<j, m>> \notin OpToRel(<, Nat)
  <2>1. \E m \in at : \A j \in at : ~(<<j, m>> \in OpToRel(<, Nat))
    BY <1>3, WFMin, NatLessThanWellFounded
  <2> QED
    BY <2>1
<1>5. \A j \in at : m <= j
  <2>1. m \in Nat /\ \A j \in at : j \in Nat
    BY <1>3
  <2>2. \A j \in at : ~(j < m)
    BY <1>4, <2>1 DEF OpToRel
  <2> QED
    BY <2>1, <2>2
<1>6. PICK k : k = (CHOOSE j \in at : \A l \in at : j <= l)
  OBVIOUS
<1>7. k \in at /\ \A j \in at : k <= j
  BY <1>5, <1>6
<1>8. k \in 1 .. Len(mnt_table) /\ mnt_table[k].wd = mnt_table[i].wd /\ i \in k .. Len(mnt_table)
  BY <1>1, <1>2, <1>3, <1>7 DEF Live
<1>9. mnt_table[k].dir = d
  <2>1. EntryInv(k) /\ mnt_table[k] \in Entries(Len(wds))
    BY <1>1, <1>8, ElementOfSeq DEF TableInv
  <2>2. mnt_table[k].dir \in All \cup {Null, Freed}
    BY <2>1 DEF Entries
  <2>3. mnt_table[k].wd # 0 /\ wds[mnt_table[k].wd] = d
    BY <1>8 DEF Live
  <2> QED
    BY <1>8, <2>1, <2>2, <2>3, Names DEF EntryInv, Live
<1> QED
  BY <1>2, <1>3, <1>6, <1>9 DEF getPathByWd

\* While a directory is watched and the watch table names it, whatever the user did and
\* whenever, getPathByWd finds its name for the events of its files (monitor.c): the
\* entries for directories made later, with descriptor 1 or another one, do not hide it.
THEOREM PathsAreKnown ==
  Spec => [](\A d \in All : \A i \in 1 .. Len(mnt_table) :
               Live(i, d) => getPathByWd(mnt_table[i].wd) = d)
<1>1. Init => TableInv
  <2> SUFFICES ASSUME Init PROVE TableInv
    OBVIOUS
  <2>1. Len(wds) = 0 /\ Len(mnt_table) = 0
    BY DEF Init, WatchesInit
  <2> QED
    BY <2>1 DEF TableInv, OneWatch
<1>2. TypeOK /\ TableInv /\ [Next]_vars => TableInv'
  BY TableStep
<1>3. TypeOK /\ TableInv =>
        \A d \in All : \A i \in 1 .. Len(mnt_table) :
          Live(i, d) => getPathByWd(mnt_table[i].wd) = d
  BY PathIsKnown DEF TypeOK
<1> QED
  BY <1>1, <1>2, <1>3, TypeCorrect, PTL DEF Spec

-----------------------------------------------------------------------------
(* The files of a watched directory.  The last event of a file that is not *)
(* read yet tells whether the file is there, and the file table tells it   *)
(* of a file without an event; all these events have one descriptor, that  *)
(* of the entry.                                                           *)

Of(f) == {k \in 1 .. Len(events) : events[k].name = f}

Agrees(f, wd) ==
  /\ \A k \in Of(f) : events[k].wd = wd
  /\ Of(f) = {} => (disk[f] # None <=> fileTable[f] = "READ_N_WRITE")
  /\ \A k \in Of(f) :
       (\A j \in Of(f) : j <= k) => (disk[f] # None <=> events[k].kind = "IN_CLOSE_WRITE")

FileInv ==
  \A f \in Files \ Backups : \A i \in 1 .. Len(mnt_table) :
    Live(i, In[f]) => Agrees(f, mnt_table[i].wd)

\* While the walk lasts the user waits, and what a directory had when it was read is in
\* the table or left to be visited.
WalkInv ==
  /\ config = "unset" =>
       stack = <<>> /\ mnt_table = <<>> /\ \A f \in Files : fileTable[f] = None
  /\ config = "unset" \/ stack # <<>> =>
       /\ events = <<>>
       /\ \A f \in Files : fileTable[f] = "READ_N_WRITE" => disk[f] # None
  /\ \A k \in 1 .. Len(stack), f \in Files :
       /\ f \in stack[k].left => disk[f] # None
       /\ In[f] = stack[k].dir /\ disk[f] # None =>
            f \in stack[k].left \/ fileTable[f] = "READ_N_WRITE"

KnownInv == Runs => TableInv /\ WalkInv /\ FileInv

LEMMA AgreesStays ==
  ASSUME NEW f, NEW wd, Agrees(f, wd), UNCHANGED events,
         disk'[f] = disk[f], fileTable'[f] = fileTable[f]
  PROVE  Agrees(f, wd)'
BY DEF Agrees, Of

\* An event of another file is raised, or one of this file.
LEMMA AgreesRaise ==
  ASSUME NEW n \in Nat, events \in Seq(Events(n)), NEW e \in Events(n),
         events' = Append(events, e),
         NEW f, NEW wd, Agrees(f, wd), fileTable'[f] = fileTable[f],
         \/ e.name # f /\ disk'[f] = disk[f]
         \/ e.name = f /\ e.wd = wd /\ (disk'[f] # None <=> e.kind = "IN_CLOSE_WRITE")
  PROVE  Agrees(f, wd)'
<1>1. /\ Len(events) \in Nat /\ Len(events') = Len(events) + 1
      /\ events'[Len(events) + 1] = e
      /\ \A k \in 1 .. Len(events) : events'[k] = events[k]
  BY AppendProperties, LenProperties
<1>2. PICK last \in Nat : last = Len(events) + 1
  BY <1>1
<1>3. \A k : k \in 1 .. last <=> k \in 1 .. Len(events) \/ k = last
  BY <1>1, <1>2
<1>4. \A k \in 1 .. Len(events) : k <= last /\ ~(last <= k)
  BY <1>1, <1>2
<1>5. CASE e.name # f /\ disk'[f] = disk[f]
  <2>1. Of(f)' = Of(f)
    BY <1>1, <1>2, <1>3, <1>5 DEF Of
  <2>2. \A k \in Of(f) : events'[k] = events[k]
    BY <1>1 DEF Of
  <2> QED
    BY <1>5, <2>1, <2>2 DEF Agrees
<1>6. CASE e.name = f /\ e.wd = wd /\ (disk'[f] # None <=> e.kind = "IN_CLOSE_WRITE")
  <2>1. Of(f)' = Of(f) \cup {last}
    BY <1>1, <1>2, <1>3, <1>6 DEF Of
  <2>2. \A k \in Of(f) : events'[k] = events[k] /\ ~(last <= k)
    BY <1>1, <1>4 DEF Of
  <2>3. events'[last] = e
    BY <1>1, <1>2
  <2>4. \A k \in Of(f)' : (\A j \in Of(f)' : j <= k) => k = last
    BY <2>1, <2>2
  <2> QED
    BY <1>6, <2>1, <2>2, <2>3, <2>4 DEF Agrees
<1> QED
  BY <1>5, <1>6

\* The first event is read: that of another file, or of this file.
LEMMA AgreesRead ==
  ASSUME NEW n \in Nat, events \in Seq(Events(n)), events # <<>>, events' = Tail(events),
         NEW f, NEW wd, Agrees(f, wd), disk'[f] = disk[f],
         \/ Head(events).name # f /\ fileTable'[f] = fileTable[f]
         \/ /\ Head(events).name = f
            /\ fileTable'[f] = "READ_N_WRITE" <=> Head(events).kind = "IN_CLOSE_WRITE"
  PROVE  Agrees(f, wd)'
<1>1. /\ Len(events) \in Nat /\ Len(events) >= 1 /\ Len(events') = Len(events) - 1
      /\ Len(events') \in Nat
      /\ \A k \in 1 .. Len(events') : events'[k] = events[k + 1]
      /\ Head(events) = events[1]
  BY HeadTailProperties, LenProperties, EmptySeq
<1>2. \A k : k \in 1 .. Len(events') <=> k \in Nat \ {0} /\ k + 1 \in 1 .. Len(events)
  BY <1>1
<1>3. \A k \in 1 .. Len(events) : k = 1 \/ (k - 1 \in 1 .. Len(events') /\ k - 1 + 1 = k)
  BY <1>1
<1>4. \A k \in Of(f)' : k \in Nat /\ k + 1 \in Of(f) /\ events'[k] = events[k + 1]
  BY <1>1, <1>2 DEF Of
<1>5. \A k \in Of(f) : k \in Nat /\ (k = 1 \/ (k - 1 \in Of(f)' /\ k - 1 + 1 = k))
  BY <1>1, <1>3 DEF Of
<1>6. \A k \in Of(f)' : events'[k].wd = wd
  BY <1>4 DEF Agrees
<1>7. ASSUME NEW k \in Of(f)', \A j \in Of(f)' : j <= k
      PROVE  disk'[f] # None <=> events'[k].kind = "IN_CLOSE_WRITE"
  <2>1. \A j \in Of(f) : j <= k + 1
    BY <1>4, <1>5, <1>7
  <2> QED
    BY <1>4, <2>1 DEF Agrees
<1>8. ASSUME Of(f)' = {}
      PROVE  disk'[f] # None <=> fileTable'[f] = "READ_N_WRITE"
  <2>1. \A k \in Of(f) : k = 1
    BY <1>5, <1>8
  <2>2. CASE Head(events).name # f /\ fileTable'[f] = fileTable[f]
    <3>1. Of(f) = {}
      BY <1>1, <2>1, <2>2 DEF Of
    <3> QED
      BY <2>2, <3>1 DEF Agrees
  <2>3. CASE /\ Head(events).name = f
             /\ fileTable'[f] = "READ_N_WRITE" <=> Head(events).kind = "IN_CLOSE_WRITE"
    <3>1. 1 \in Of(f) /\ \A j \in Of(f) : j <= 1
      BY <1>1, <2>1, <2>3 DEF Of
    <3> QED
      BY <1>1, <2>3, <3>1 DEF Agrees
  <2> QED
    BY <2>2, <2>3
<1> QED
  BY <1>6, <1>7, <1>8 DEF Agrees

LEMMA ChangesWalk ==
  ASSUME ~Early, Changes
  PROVE  WalkInv'
<1>1. config' = "set" /\ stack' = <<>>
  BY DEF Changes, MakeDir, RemoveDir, Write, Remove, User
<1> QED
  BY <1>1 DEF WalkInv

\* A visit that has some of its entries left, in place of the last one.
LEMMA VisitWalk ==
  ASSUME WatchesTypeOK, WalkInv, Walks, NEW x \in top.left, UNCHANGED events,
         \/ fileTable' = fileTable /\ x \notin Files
         \/ fileTable' = [fileTable EXCEPT ![x] = "READ_N_WRITE"] /\ x \in Files,
         \/ stack' = Append(Below, [top EXCEPT !.left = @ \ {x}])
         \/ \E d \in Dirs :
              stack' = Append(Append(Below, [top EXCEPT !.left = @ \ {x}]), Visit(d))
  PROVE  WalkInv'
<1>1. /\ stack \in Seq(Frame) /\ stack # <<>> /\ Len(stack) \in Nat \ {0} /\ top \in Frame
      /\ Below \in Seq(Frame) /\ Len(Below) = Len(stack) - 1
      /\ \A k \in 1 .. Len(stack) - 1 : Below[k] = stack[k]
      /\ fileTable \in [Files -> {None, "READ_N_WRITE", "DELETED"}]
  BY TopFrame DEF Walks, WatchesTypeOK
<1>2. /\ config = "set" /\ config' = "set" /\ events' = <<>> /\ UNCHANGED disk
      /\ \A f \in Files : fileTable[f] = "READ_N_WRITE" => disk[f] # None
  BY <1>1 DEF Walks, WalkInv
<1>3. PICK on \in Frame : on = [top EXCEPT !.left = @ \ {x}]
  BY <1>1 DEF Frame
<1>4. on.dir = top.dir /\ on.left = top.left \ {x}
  BY <1>1, <1>3 DEF Frame
<1>5. PICK n \in Nat : n = Len(stack)
  BY <1>1
<1>6. /\ Append(Below, on) \in Seq(Frame) /\ Len(Append(Below, on)) = n
      /\ Append(Below, on)[n] = on
      /\ \A k \in 1 .. n - 1 : Append(Below, on)[k] = stack[k]
  <2>1. Len(Below) + 1 = n /\ \A k : k \in 1 .. n - 1 <=> k \in 1 .. Len(Below)
    BY <1>1, <1>5
  <2> QED
    BY <1>1, <1>5, <2>1, AppendProperties
<1>7. \A f \in Files : f \in top.left => disk[f] # None
  BY <1>1 DEF WalkInv, top
<1>8. \A f \in Files : fileTable'[f] = fileTable[f] \/ (f = x /\ fileTable'[f] = "READ_N_WRITE")
  BY <1>1
<1>9. \A f \in Files : fileTable'[f] = "READ_N_WRITE" => disk'[f] # None
  BY <1>2, <1>7, <1>8
<1>10. DEFINE Told(s, f) ==
         /\ f \in s.left => disk'[f] # None
         /\ In[f] = s.dir /\ disk'[f] # None => f \in s.left \/ fileTable'[f] = "READ_N_WRITE"
<1>11. ASSUME NEW k \in 1 .. n, NEW f \in Files
       PROVE  Told(Append(Below, on)[k], f)
  <2>1. CASE k = n
    <3>1. /\ f \in top.left => disk[f] # None
          /\ In[f] = top.dir /\ disk[f] # None => f \in top.left \/ fileTable[f] = "READ_N_WRITE"
      BY <1>1 DEF WalkInv, top
    <3>2. f = x => fileTable'[f] = "READ_N_WRITE"
      BY <1>1
    <3> QED
      BY <1>2, <1>4, <1>6, <1>8, <2>1, <3>1, <3>2
  <2>2. CASE k \in 1 .. n - 1
    <3>1. /\ f \in stack[k].left => disk[f] # None
          /\ In[f] = stack[k].dir /\ disk[f] # None =>
               f \in stack[k].left \/ fileTable[f] = "READ_N_WRITE"
      BY <1>1, <1>5, <2>2 DEF WalkInv
    <3> QED
      BY <1>2, <1>6, <1>8, <2>2, <3>1
  <2> QED
    BY <1>1, <1>5, <2>1, <2>2
<1>12. \A k \in 1 .. Len(stack'), f \in Files : Told(stack'[k], f)
  <2>1. CASE stack' = Append(Below, on)
    BY <1>6, <1>11, <2>1
  <2>2. ASSUME NEW d \in Dirs, stack' = Append(Append(Below, on), Visit(d))
        PROVE  \A k \in 1 .. Len(stack'), f \in Files : Told(stack'[k], f)
    <3>1. Visit(d) \in Frame
      BY VisitType DEF All
    <3>2. /\ Len(stack') = n + 1 /\ stack'[n + 1] = Visit(d)
          /\ \A k \in 1 .. n : stack'[k] = Append(Below, on)[k]
      BY <1>6, <2>2, <3>1, AppendProperties
    <3>3. \A f \in Files : Told(Visit(d), f)
      BY <1>2, WatchesAssumption DEF Visit, Children, WatchesTypeOK
    <3>4. \A k \in 1 .. n + 1 : k \in 1 .. n \/ k = n + 1
      OBVIOUS
    <3> QED
      BY <1>11, <3>2, <3>3, <3>4
  <2> QED
    BY <1>3, <2>1, <2>2
<1> QED
  BY <1>2, <1>9, <1>12 DEF WalkInv

LEMMA EndVisitWalk ==
  ASSUME WatchesTypeOK, WalkInv, EndVisit
  PROVE  WalkInv'
<1>1. /\ stack # <<>> /\ Len(Below) = Len(stack) - 1 /\ Len(stack) \in Nat
      /\ \A k \in 1 .. Len(stack) - 1 : Below[k] = stack[k]
  BY TopFrame DEF EndVisit, Walks
<1>2. /\ stack' = Below /\ config' = "set" /\ config = "set" /\ UNCHANGED <<disk, events, fileTable>>
  BY DEF EndVisit, Walks
<1>3. \A k \in 1 .. Len(stack) - 1 : k \in 1 .. Len(stack)
  BY <1>1
<1> QED
  BY <1>1, <1>2, <1>3 DEF WalkInv

LEMMA ReadConfigWalk ==
  ASSUME WatchesTypeOK, WalkInv, readConfigFile
  PROVE  WalkInv'
<1>1. /\ stack' = <<Visit(Root)>> /\ config' = "set" /\ config = "unset"
      /\ UNCHANGED <<disk, events, fileTable>>
  BY DEF readConfigFile
<1>2. Len(stack') = 1 /\ stack'[1] = Visit(Root) /\ \A k \in 1 .. 1 : k = 1
  BY <1>1
<1>3. \A f \in Files :
        /\ f \in Visit(Root).left => disk[f] # None
        /\ In[f] = Visit(Root).dir /\ disk[f] # None => f \in Visit(Root).left
  BY WatchesAssumption DEF Visit, Children, WatchesTypeOK
<1> QED
  BY <1>1, <1>2, <1>3 DEF WalkInv

LEMMA WalkStep ==
  ASSUME ~Early, TypeOK, WalkInv, [Next]_vars, Runs'
  PROVE  WalkInv'
<1>1. WatchesTypeOK
  BY DEF TypeOK
<1>2. CASE Changes
  BY <1>2, ChangesWalk
<1>3. CASE Serving
  BY <1>3 DEF Serving, WalkInv
<1>4. ASSUME NEW f \in Files, VisitFile(f)
      PROVE  WalkInv'
  BY <1>1, <1>4, VisitWalk DEF VisitFile
<1>5. ASSUME NEW d \in Dirs, VisitDir(d)
      PROVE  WalkInv'
  <2>1. d \notin Files
    BY WatchesAssumption
  <2> QED
    BY <1>1, <1>5, <2>1, VisitWalk DEF VisitDir
<1>6. CASE EndVisit
  BY <1>1, <1>6, EndVisitWalk
<1>7. CASE readConfigFile
  BY <1>1, <1>7, ReadConfigWalk
<1>8. CASE ReadEvent
  <2>1. config' = "set" /\ stack' = <<>>
    BY <1>8 DEF ReadEvent
  <2> QED
    BY <2>1 DEF WalkInv
<1>9. MonitorNull => ~Runs'
  BY DEF MonitorNull, End, Runs
<1> QED
  BY <1>2, <1>3, <1>4, <1>5, <1>6, <1>7, <1>8, <1>9, ServingSteps DEF Next, Monitors, FileMonitor

LEMMA LiveIsWatching ==
  ASSUME NEW d \in All, NEW i \in 1 .. Len(mnt_table)
  PROVE  Live(i, d) <=> mnt_table[i].dir = d /\ mnt_table[i].wd \in Watching(d)
BY DEF Live, Watching

\* The user changes a file of a directory that is watched: the event has the descriptor
\* of the entry.
LEMMA ChangeFile ==
  ASSUME WatchesTypeOK, OneWatch, NEW f \in Files, NEW i, Live(i, In[f]),
         Agrees(f, mnt_table[i].wd), NEW g \in Files, NEW kind \in Kinds,
         Raise(In[g], kind, g), UNCHANGED <<mnt_table, fileTable>>,
         \A h \in Files \ {g} : disk'[h] = disk[h],
         disk'[g] # None <=> kind = "IN_CLOSE_WRITE"
  PROVE  Agrees(f, mnt_table[i].wd)'
<1>1. PICK wd : wd = mnt_table[i].wd
  OBVIOUS
<1>2. /\ events \in Seq(Events(Len(wds))) /\ Len(wds) \in Nat
      /\ \A h \in Files : In[h] \in All /\ In[h] # None
  BY LenProperties, WatchesAssumption, Names DEF WatchesTypeOK, Events, Kinds, All
<1>3. wd \in 1 .. Len(wds) /\ wds[wd] = In[f]
  BY <1>1 DEF Live
<1>4. Agrees(f, wd)'
  <2>1. CASE Watching(In[g]) = {} /\ events' = events
    <3>1. f # g
      BY <1>3, <2>1 DEF Watching
    <3> QED
      BY <1>1, <2>1, <3>1, AgreesStays
  <2>2. ASSUME NEW w \in Watching(In[g]), events' = Append(events, Event(w, kind, g))
        PROVE  Agrees(f, wd)'
    <3>1. w \in 1 .. Len(wds) /\ wds[w] = In[g]
      BY <2>2 DEF Watching
    <3>2. PICK e \in Events(Len(wds)) : e = Event(w, kind, g)
      BY <3>1 DEF Event, Events
    <3>3. e.name = g /\ e.wd = w /\ e.kind = kind
      BY <3>2 DEF Event
    <3>4. f = g => w = wd
      BY <1>2, <1>3, <3>1 DEF OneWatch
    <3> QED
      BY <1>1, <1>2, <2>2, <3>2, <3>3, <3>4, AgreesRaise
  <2> QED
    BY <1>2, <2>1, <2>2, RaiseType
<1> QED
  BY <1>1, <1>4

\* He makes or removes a directory: its name is that of no file.
LEMMA ChangeDir ==
  ASSUME WatchesTypeOK, NEW f \in Files, NEW wd, Agrees(f, wd),
         NEW g \in Dirs, NEW kind \in Kinds, Raise(Root, kind, g), UNCHANGED <<fileTable, disk>>
  PROVE  Agrees(f, wd)'
<1>1. events \in Seq(Events(Len(wds))) /\ Len(wds) \in Nat
  BY LenProperties DEF WatchesTypeOK, Events, Kinds
<1>2. g # f
  BY WatchesAssumption
<1>3. CASE events' = events
  BY <1>3, AgreesStays
<1>4. ASSUME NEW w \in Watching(Root), events' = Append(events, Event(w, kind, g))
      PROVE  Agrees(f, wd)'
  <2>1. PICK e \in Events(Len(wds)) : e = Event(w, kind, g)
    BY DEF Event, Events, Watching
  <2>2. e.name = g
    BY <2>1 DEF Event
  <2> QED
    BY <1>1, <1>2, <1>4, <2>1, <2>2, AgreesRaise
<1> QED
  BY <1>3, <1>4, RaiseType DEF All

LEMMA ChangesFile ==
  ASSUME WatchesTypeOK, OneWatch, Changes, NEW f \in Files, NEW i, Live(i, In[f]),
         Agrees(f, mnt_table[i].wd)
  PROVE  Agrees(f, mnt_table[i].wd)'
<1>1. UNCHANGED <<mnt_table, fileTable>> /\ disk \in [Files -> {None, "empty", "bytes"}]
  BY DEF Changes, MakeDir, RemoveDir, Write, Remove, User, WatchesTypeOK
<1>2. PICK wd : wd = mnt_table[i].wd
  OBVIOUS
<1>3. ASSUME NEW d \in Dirs, MakeDir(d) \/ RemoveDir(d)
      PROVE  Agrees(f, wd)'
  BY <1>1, <1>2, <1>3, ChangeDir DEF MakeDir, RemoveDir, Kinds
<1>4. ASSUME NEW g \in Files, NEW size \in {"empty", "bytes"}, Write(g, size)
      PROVE  Agrees(f, mnt_table[i].wd)'
  <2>1. /\ disk'[g] # None /\ \A h \in Files \ {g} : disk'[h] = disk[h]
        /\ Raise(In[g], "IN_CLOSE_WRITE", g)
    BY <1>1, <1>4 DEF Write, None
  <2> QED
    BY <1>1, <2>1, ChangeFile DEF Kinds
<1>5. ASSUME NEW g \in Files, Remove(g)
      PROVE  Agrees(f, mnt_table[i].wd)'
  <2>1. /\ disk'[g] = None /\ \A h \in Files \ {g} : disk'[h] = disk[h]
        /\ Raise(In[g], "IN_DELETE", g)
    BY <1>1, <1>5 DEF Remove
  <2> QED
    BY <1>1, <2>1, ChangeFile DEF Kinds
<1>6. Agrees(f, wd)' => Agrees(f, mnt_table[i].wd)'
  BY <1>1, <1>2
<1> QED
  BY <1>3, <1>4, <1>5, <1>6 DEF Changes

\* getPathByWd gives the event to the file's own directory, so Handle is called.
LEMMA ReadEventFile ==
  ASSUME WatchesTypeOK, TableInv, ReadEvent, Runs', NEW f \in Files \ Backups, NEW i,
         Live(i, In[f]), Agrees(f, mnt_table[i].wd)
  PROVE  /\ UNCHANGED disk
         /\ \/ Head(events).name # f /\ fileTable'[f] = fileTable[f]
            \/ /\ Head(events).name = f
               /\ fileTable'[f] = "READ_N_WRITE" <=> Head(events).kind = "IN_CLOSE_WRITE"
<1> DEFINE ev == Head(events)
<1>1. /\ events \in Seq(Events(Len(wds))) /\ events # <<>> /\ ev \in Events(Len(wds))
      /\ fileTable \in [Files -> {None, "READ_N_WRITE", "DELETED"}] /\ UNCHANGED disk
  BY ReadEventSteps DEF WatchesTypeOK, Events, Kinds
<1>2. ASSUME ev.name # f
      PROVE  fileTable'[f] = fileTable[f]
  <2>1. NothingDone \/ UNCHANGED fileTable => fileTable'[f] = fileTable[f]
    BY DEF NothingDone
  <2>2. \A d : DirCreate(d) \/ DirDelete(d) => fileTable'[f] = fileTable[f]
    BY DEF DirCreate, DirDelete
  <2>3. \A g \in Files : g # f /\ (FileCloseWrite(g) \/ FileDelete(g)) =>
          fileTable'[f] = fileTable[f]
    BY <1>1 DEF FileCloseWrite, FileDelete
  <2> QED
    BY <1>2, <2>1, <2>2, <2>3, ReadEventSteps
<1>3. ASSUME ev.name = f
      PROVE  fileTable'[f] = "READ_N_WRITE" <=> ev.kind = "IN_CLOSE_WRITE"
  <2>1. ev.wd = mnt_table[i].wd
    <3>1. 1 \in Of(f) /\ events[1] = ev
      BY <1>1, <1>3, EmptySeq DEF Of
    <3> QED
      BY <3>1 DEF Agrees
  <2>2. In[f] \in All
    BY WatchesAssumption DEF All
  <2>3. getPathByWd(ev.wd) = In[f]
    BY <2>1, <2>2, PathIsKnown
  <2>4. f \notin Dirs /\ f \notin Ignored /\ f \notin Backups /\ In[f] # Null
    BY <2>2, WatchesAssumption, Names
  <2>5. Dir(f) = In[f]
    BY <2>4 DEF Dir
  <2>6. Handle(ev)
    BY <1>3, <2>3, <2>4, <2>5 DEF ReadEvent
  <2>7. \/ ev.kind = "IN_CLOSE_WRITE" /\ FileCloseWrite(f)
        \/ ev.kind = "IN_DELETE" /\ FileDelete(f)
    BY <1>3, <2>4, <2>6 DEF Handle
  <2>8. FileCloseWrite(f) => fileTable'[f] = "READ_N_WRITE"
    BY <1>1 DEF FileCloseWrite
  <2>9. FileDelete(f) => fileTable'[f] # "READ_N_WRITE"
    BY <1>1 DEF FileDelete, None
  <2> QED
    BY <2>7, <2>8, <2>9
<1> QED
  BY <1>1, <1>2, <1>3

\* The walk adds a file that was there when its directory was read; no event is raised yet.
LEMMA VisitFileStays ==
  ASSUME WatchesTypeOK, WalkInv, NEW g \in Files, VisitFile(g), NEW f \in Files, NEW wd,
         Agrees(f, wd)
  PROVE  Agrees(f, wd)'
<1>1. /\ events = <<>> /\ UNCHANGED <<events, disk>> /\ stack # <<>>
      /\ fileTable \in [Files -> {None, "READ_N_WRITE", "DELETED"}]
      /\ fileTable' = [fileTable EXCEPT ![g] = "READ_N_WRITE"]
  BY DEF VisitFile, Walks, WalkInv, WatchesTypeOK
<1>2. CASE f # g
  BY <1>1, <1>2, AgreesStays
<1>3. CASE f = g
  <2>1. disk[f] # None
    BY <1>1, <1>3, TopFrame DEF VisitFile, WalkInv, top
  <2>2. Of(f)' = {}
    BY <1>1 DEF Of
  <2> QED
    BY <1>1, <1>3, <2>1, <2>2 DEF Agrees
<1> QED
  BY <1>2, <1>3

LEMMA FileStep ==
  ASSUME ~Early, TypeOK, TableInv, WalkInv, FileInv, [Next]_vars, Runs'
  PROVE  FileInv'
<1> SUFFICES ASSUME NEW f \in Files \ Backups, NEW i, Live(i, In[f])'
             PROVE  Agrees(f, mnt_table[i].wd)'
  BY DEF FileInv, Live
<1>1. WatchesTypeOK /\ In[f] \in All
  BY WatchesAssumption DEF TypeOK, All
<1>2. CASE EndVisit /\ top.dir = In[f]
  <2>1. /\ stack # <<>> /\ top.left = {} /\ events = <<>> /\ UNCHANGED <<events, disk, fileTable>>
    BY <1>2 DEF EndVisit, Walks, WalkInv
  <2>2. Len(stack) \in 1 .. Len(stack)
    BY <1>1, <2>1, TopFrame
  <2>3. disk[f] # None => fileTable[f] = "READ_N_WRITE"
    BY <1>2, <2>1, <2>2 DEF WalkInv, top
  <2>4. fileTable[f] = "READ_N_WRITE" => disk[f] # None
    BY <2>1 DEF WalkInv
  <2>5. Of(f)' = {}
    BY <2>1 DEF Of
  <2> QED
    BY <2>1, <2>3, <2>4, <2>5 DEF Agrees
<1>3. CASE Stays(i, In[f])
  <2>1. PICK wd : wd = mnt_table[i].wd
    OBVIOUS
  <2>2. Live(i, In[f]) /\ mnt_table'[i].wd = wd /\ Agrees(f, wd)
    BY <1>3, <2>1 DEF Stays, FileInv, Live
  <2>3. Agrees(f, mnt_table[i].wd)
    BY <2>1, <2>2
  <2>4. CASE Changes
    BY <1>1, <2>2, <2>3, <2>4, ChangesFile DEF TableInv
  <2>5. CASE ReadEvent
    <3>1. events \in Seq(Events(Len(wds))) /\ Len(wds) \in Nat /\ events # <<>>
          /\ events' = Tail(events)
      BY <1>1, <2>5, ReadEventSteps, LenProperties DEF WatchesTypeOK, Events, Kinds
    <3>2. Agrees(f, wd)'
      BY <1>1, <2>2, <2>3, <2>5, <3>1, ReadEventFile, AgreesRead
    <3> QED
      BY <2>2, <3>2
  <2>6. ASSUME UNCHANGED <<events, disk, fileTable>>
        PROVE  Agrees(f, mnt_table[i].wd)'
    <3>1. Agrees(f, wd)'
      BY <2>2, <2>6, AgreesStays
    <3> QED
      BY <2>2, <3>1
  <2>7. ASSUME NEW g \in Files, VisitFile(g)
        PROVE  Agrees(f, mnt_table[i].wd)'
    <3>1. Agrees(f, wd)'
      BY <1>1, <2>2, <2>7, VisitFileStays
    <3> QED
      BY <2>2, <3>1
  <2>8. Serving \/ EndVisit \/ readConfigFile \/ MonitorNull => UNCHANGED <<events, disk, fileTable>>
    BY DEF Serving, EndVisit, Walks, readConfigFile, MonitorNull
  <2>9. \A d \in Dirs : VisitDir(d) => UNCHANGED <<events, disk, fileTable>>
    BY DEF VisitDir, Walks
  <2> QED
    BY <2>4, <2>5, <2>6, <2>7, <2>8, <2>9, ServingSteps DEF Next, Monitors, FileMonitor
<1> QED
  BY <1>1, <1>2, <1>3, LiveStays

LEMMA KnownInitially == Init => KnownInv
<1> SUFFICES ASSUME Init PROVE TableInv /\ WalkInv /\ FileInv
  BY DEF KnownInv
<1>1. /\ Len(wds) = 0 /\ Len(mnt_table) = 0 /\ Len(stack) = 0 /\ Len(events) = 0
      /\ config = "unset" /\ stack = <<>> /\ mnt_table = <<>> /\ events = <<>>
      /\ \A f \in Files : fileTable[f] = None
  BY DEF Init, WatchesInit
<1>2. TableInv /\ FileInv
  BY <1>1 DEF TableInv, OneWatch, FileInv
<1>3. WalkInv
  BY <1>1 DEF WalkInv, None
<1> QED
  BY <1>2, <1>3

\* Where the user waits until the watches are set, and as long as the peer runs: in a
\* directory that inotify watches and the watch table names, and once every event is
\* read, the file table has exactly the files that are there (but those of vim).
THEOREM TableIsTrue ==
  ASSUME ~Early
  PROVE  Spec => []FilesAreKnown
<1>1. TypeOK /\ KnownInv /\ [Next]_vars => KnownInv'
  <2> SUFFICES ASSUME TypeOK, KnownInv, [Next]_vars, Runs'
               PROVE  (TableInv /\ WalkInv /\ FileInv)'
    BY DEF KnownInv
  <2>1. Runs
    <3>1. CASE UNCHANGED vars
      BY <3>1 DEF vars, watchVars, Runs
    <3>2. CASE Next
      BY <3>2 DEF Next, Monitors, FileMonitor, Changes, readConfigFile, EndVisit, VisitFile,
        VisitDir, Walks, ReadEvent, MonitorNull, MakeDir, RemoveDir, Write, Remove, User,
        Ask, Accept, Serve, ServeGone, ServeNull, Close, clearAll, clearTable
    <3> QED
      BY <3>1, <3>2
  <2> QED
    BY <2>1, TableStep, WalkStep, FileStep DEF KnownInv
<1>2. TypeOK /\ KnownInv => FilesAreKnown
  <2> SUFFICES ASSUME TypeOK, KnownInv, Runs, events = <<>>,
                      NEW i \in 1 .. Last, NEW f \in Files \ Backups,
                      In[f] = mnt_table[i].dir, mnt_table[i].wd \in Watching(In[f])
               PROVE  disk[f] # None <=> fileTable[f] = "READ_N_WRITE"
    BY DEF FilesAreKnown
  <2>1. Live(i, In[f])
    BY LiveIsWatching, WatchesAssumption DEF Last, All
  <2>2. Agrees(f, mnt_table[i].wd)
    BY <2>1 DEF KnownInv, FileInv, Last
  <2>3. Of(f) = {}
    BY DEF Of
  <2> QED
    BY <2>2, <2>3 DEF Agrees
<1> QED
  BY <1>1, <1>2, KnownInitially, TypeCorrect, PTL DEF Spec
=============================================================================
