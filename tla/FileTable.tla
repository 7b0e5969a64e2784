------------------------------ MODULE FileTable ------------------------------
(* An entry of the tracker's file table (tofukasu_final/common/filetable.c,  *)
(* and the merge of tracker.c): the newest version of a file that a peer has *)
(* reported, and the array of the IP addresses of the peers that have it.    *)
(* A version is its modification time; 0 stands for a file not in the table. *)
(* Sizes, status and the previous version are passed on and decide nothing.  *)
EXTENDS Naturals

CONSTANTS
  Peers,         \* the IP addresses of the peers
  IpLen,         \* the length of each as a string
  MAX_PEER_NUM,  \* slots of the array peerIP
  NoIP,          \* a slot filled with zeros
  Garbled        \* a slot whose bytes are no peer's address, or not known

ASSUME FileTableAssumption ==
  /\ IpLen \in [Peers -> Nat]
  /\ MAX_PEER_NUM \in Nat \ {0, 1}
  /\ NoIP \notin Peers /\ Garbled \notin Peers /\ NoIP # Garbled

Slot == 0 .. MAX_PEER_NUM - 1
IP == Peers \cup {NoIP, Garbled}
FileEntry == [latest : Nat, peerNum : 0 .. MAX_PEER_NUM, peerIP : [Slot -> IP]]

NoFile == [latest |-> 0, peerNum |-> 0, peerIP |-> [i \in Slot |-> NoIP]]

\* The peers an entry names to those who want the file.
Listed(file) == {file.peerIP[i] : i \in 0 .. file.peerNum - 1}

\* memcpy(dst, ip, strlen(ip)): the end of a longer address stays behind the new one.
Copied(dst, ip) ==
  IF \/ dst \in {NoIP, ip}
     \/ dst \in Peers /\ ip \in Peers /\ IpLen[dst] <= IpLen[ip]
  THEN ip ELSE Garbled

\* A report by the peer ip of the version v of a file.
\* A file that is not in the table: filetable_add_file.  The slots after the first are
\* as malloc left them; nothing reads a slot from peerNum on.
AddFile(v, ip) ==
  [latest |-> v, peerNum |-> 1, peerIP |-> [i \in Slot |-> IF i = 0 THEN ip ELSE Garbled]]

\* A newer version: the slots in use are cleared, and the reporter's copied to the first.
Cleared(file) == [i \in Slot |-> IF i < file.peerNum THEN NoIP ELSE file.peerIP[i]]
NewVersion(file, v, ip) ==
  [latest |-> v, peerNum |-> 1,
   peerIP |-> [Cleared(file) EXCEPT ![0] = Copied(Cleared(file)[0], ip)]]

\* Mutant: the reporter is counted, and the slots are not.
SameVersionCounts(file, ip) ==
  [file EXCEPT !.peerNum = @ + 1, !.peerIP[file.peerNum] = Copied(@, ip)]

\* The version in the table: the reporter goes to the next slot; peerNum stays.
SameVersion(file, ip) ==
  [file EXCEPT !.peerIP[file.peerNum] = Copied(file.peerIP[file.peerNum], ip)]

\* Mutant: a file that is not in the table is passed over.
MergeFileKnown(file, v, ip) ==
  IF file.latest = 0 THEN file
  ELSE IF v > file.latest THEN NewVersion(file, v, ip)
  ELSE IF v = file.latest THEN SameVersion(file, ip)
  ELSE file

MergeFile(file, v, ip) ==
  IF v = 0 THEN file
  ELSE IF file.latest = 0 THEN AddFile(v, ip)
  ELSE IF v > file.latest THEN NewVersion(file, v, ip)
  ELSE IF v = file.latest THEN SameVersion(file, ip)
  ELSE file

\* The last slot's address replaces that of the dead peer.
RemoveAt(file, i) ==
  LET last == file.peerNum - 1 IN
  [file EXCEPT !.peerNum = last,
               !.peerIP = [file.peerIP EXCEPT
                             ![i] = Copied(file.peerIP[i], file.peerIP[last]),
                             ![last] = NoIP]]

\* Mutant: the search ends before slot 0.
filetable_remove_peerIPAfterFirst(file, ip) ==
  LET held == {i \in 1 .. file.peerNum - 1 : file.peerIP[i] = ip} IN
  IF held = {} THEN file
  ELSE RemoveAt(file, CHOOSE i \in held : \A j \in held : j <= i)

\* Only the last of the slots in use that hold the address is looked for.
filetable_remove_peerIP(file, ip) ==
  LET held == {i \in 0 .. file.peerNum - 1 : file.peerIP[i] = ip} IN
  IF held = {} THEN file
  ELSE RemoveAt(file, CHOOSE i \in held : \A j \in held : j <= i)
=============================================================================
