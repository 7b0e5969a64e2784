------------------------------ MODULE Framing ------------------------------
(* Messages as bytes on a connection: the frames of lab4 (common/pkt.c,    *)
(* common/seg.c), of lab2 (common/seg.c), where a TCP connection stands    *)
(* for the network, and of tofukasu_final (common/seg.c).  A frame is      *)
(* written by several send() calls, one for each mark and structure, and   *)
(* read one byte at a time by a finite state machine.  The module looks at *)
(* one connection, of a kind that Init chooses:                            *)
(*   LAB2     mnp_sendseg of lab2, by the same threads as in lab4          *)
(*   MRT-MNP  mnp_sendseg by the application, seghandler and timer threads *)
(*   MNP-MRT  forwardsegToMRT by pkthandler                                *)
(*   MNP-ON   overlay_sendpkt by pkthandler, routeupdate_daemon and        *)
(*            waitTransport                                                *)
(*   ON-MNP   forwardpktToMNP by the listen_to_neighbor threads            *)
(*   ON-ON    sendpkt by waitNetwork                                       *)
(*   P2P      pieces between peers, one thread at each end                 *)
(*   P2T      reports to the tracker, by the file monitor                  *)
(*   T2P      tables to a peer, by its handshake thread and the monitor    *)
(* A byte is one of the five that marks are made of, or any other.         *)
EXTENDS Integers, Sequences

CONSTANTS
  Links,      \* the kinds of connection to look at
  Threads,    \* the threads that write to a connection
  Writers,    \* those of each kind
  Turns,      \* whether threads take turns: none sends while another is in a frame
  SIZE,       \* sizeof of the packet, segment or head of a frame
  FSIZE,      \* sizeof(file_t)
  Bodies,     \* bound: packets, segments and heads of each kind of connection
  Files,      \* bound: the lists of file entries or data that follow a head
  MaxMsgs,    \* bound: messages written
  Cap         \* bytes a connection holds before send() blocks

Byte == {"!", "&", "#", "^", "$", "."}
AllLinks == {"LAB2", "MRT-MNP", "MNP-MRT", "MNP-ON", "ON-MNP", "ON-ON", "P2P", "P2T", "T2P"}
Tofukasu == {"P2P", "P2T", "T2P"}
Tables == {"P2T", "T2P"}
Lossy == {"MNP-MRT", "LAB2"}   \* the reader calls seglost
Addressed == {"MRT-MNP", "MNP-MRT", "MNP-ON"}  \* a nodeID comes before the body

ASSUME FramingAssumption ==
  /\ Links \subseteq AllLinks /\ Turns \subseteq BOOLEAN
  /\ Writers \in [AllLinks -> SUBSET Threads]
  /\ {SIZE, FSIZE, MaxMsgs, Cap} \subseteq Nat
  /\ \A l \in AllLinks : Bodies[l] \subseteq Seq(Byte) /\ Files[l] \subseteq Seq(Seq(Byte))

VARIABLES
  link,       \* the kind of the connection
  turns,      \* its threads happen to take turns
  stream,     \* the bytes on it
  tx,         \* the send() calls a writer has yet to make for its frame
  rx,         \* the reader: the state of its automaton, its buffer, the parts it has read
  fault,      \* how the reader's process ended
  written, taken, read  \* the messages: written, taken from the stream, handed on

vars == <<link, turns, stream, tx, rx, fault, written, taken, read>>

(* The messages. *)

\* The characters behind a '!' that end part n of a frame.
Closing(n) ==
  IF link \notin Tofukasu THEN {"#"}
  ELSE IF n = 1 THEN {"^"}
  ELSE IF link = "P2P" THEN {"#"} ELSE {"$", "#"}

\* A mark inside a part would be taken for its end: the messages here have none.
Unmarked(bytes, n) ==
  \A i \in 1 .. Len(bytes) - 1 : ~(bytes[i] = "!" /\ bytes[i + 1] \in Closing(n))

Messages ==
  {m \in [node : {"."}, body : Bodies[link], files : Files[link]] :
     /\ link # "ON-ON" => Len(m.body) = SIZE
     /\ Unmarked(m.body, 1)
     /\ link = "P2P" => Len(m.files) = 1
     /\ link \in Tables => \A i \in 1 .. Len(m.files) : Len(m.files[i]) = FSIZE
     /\ link \notin Tofukasu => m.files = <<>>
     /\ \A i \in 1 .. Len(m.files) : Unmarked(m.files[i], 2)}

(* The send() calls of each function, in order. *)

Mark(c) == <<"!", c>>
Frame(struct) == <<Mark("&"), struct, Mark("#")>>

overlay_sendpkt(nextNodeID, pkt) == Frame(<<nextNodeID>> \o pkt)
forwardpktToMNP(pkt) == Frame(pkt)
sendpkt(pkt) == Frame(pkt)   \* of its data only header.length bytes
lab2_mnp_sendseg(seg) == Frame(seg)
mnp_sendseg(dest_nodeID, seg) == Frame(<<dest_nodeID>> \o seg)
forwardsegToMRT(src_nodeID, seg) == Frame(<<src_nodeID>> \o seg)

send_p2p_segment(head, data) == <<Mark("&"), head, Mark("^"), data, Mark("#")>>

\* A head, and each file entry with its mark.
Entry(files, i) == IF i % 2 = 1 THEN files[(i + 1) \div 2] ELSE Mark("$")
Entries(files) == [i \in 1 .. 2 * Len(files) |-> Entry(files, i)]
send_p2t_segment(head, files) == <<Mark("&"), head, Mark("^")>> \o Entries(files) \o <<Mark("#")>>
send_t2p_segment(head, files) == <<Mark("&"), head, Mark("^")>> \o Entries(files) \o <<Mark("#")>>

Calls(m) ==
  CASE link = "MNP-ON"  -> overlay_sendpkt(m.node, m.body)
    [] link = "ON-MNP"  -> forwardpktToMNP(m.body)
    [] link = "ON-ON"   -> sendpkt(m.body)
    [] link = "LAB2"    -> lab2_mnp_sendseg(m.body)
    [] link = "MRT-MNP" -> mnp_sendseg(m.node, m.body)
    [] link = "MNP-MRT" -> forwardsegToMRT(m.node, m.body)
    [] link = "P2P"     -> send_p2p_segment(m.body, m.files[1])
    [] link = "P2T"     -> send_p2t_segment(m.body, m.files)
    [] link = "T2P"     -> send_t2p_segment(m.body, m.files)

(* The writers. *)

\* send() waits until its bytes find room.
PutAtOnce(bytes) == stream' = stream \o bytes  \* mutant: no room needed
Put(bytes) == Len(stream) + Len(bytes) <= Cap /\ stream' = stream \o bytes

\* A thread writes the first mark of a frame ...
Begin(w) ==
  /\ w \in Writers[link] /\ tx[w] = <<>> /\ Len(written) < MaxMsgs
  /\ turns => \A v \in Threads : tx[v] = <<>>
  /\ \E m \in Messages :
       /\ Put(Head(Calls(m)))
       /\ tx' = [tx EXCEPT ![w] = Tail(Calls(m))]
       /\ written' = Append(written, m)
  /\ UNCHANGED <<link, turns, rx, fault, taken, read>>

\* ... and what follows, call by call.
Continue(w) ==
  /\ tx[w] # <<>>
  /\ Put(Head(tx[w]))
  /\ tx' = [tx EXCEPT ![w] = Tail(@)]
  /\ UNCHANGED <<link, turns, rx, fault, written, taken, read>>

(* The readers: one byte a step. *)

Fresh == [state |-> "START1", buf |-> <<>>, parts |-> <<>>]

byte == Head(stream)
Reads == stream # <<>> /\ fault = "none" /\ stream' = Tail(stream)
                       /\ UNCHANGED <<link, turns, tx, written>>
Part == Len(rx.parts) + 1
Closes == rx.state = "STOP1" /\ byte \in Closing(Part)

\* The buffer, less the '!' of the mark.
Body == SubSeq(rx.buf, 1, Len(rx.buf) - 1)

\* A byte behind the end of the buffer may end the process, or do no harm.  The
\* buffer for the data of a piece is as long as its head says.
Room == IF Part = 1 THEN SIZE + (IF link \in Addressed THEN 1 ELSE 0) + 2 ELSE FSIZE + 2
Overruns == Len(rx.buf) >= Room /\ ~(link = "P2P" /\ Part = 2)

\* The automaton START1, START2, RECV, STOP1 (in tofukasu_final 0, 1, then
\* 2 and 3 for the head, 4 and 5 for what follows).
Next1(start) == IF byte = "!" THEN "START2" ELSE start
Next2 == IF byte = "&" THEN "RECV" ELSE "START1"
InPartOnce == IF byte = "!" /\ rx.state = "RECV" THEN "STOP1" ELSE "RECV"  \* mutant: '!!#' is not an end
InPart == IF byte = "!" THEN "STOP1" ELSE "RECV"
Scan(start) ==
  /\ Reads /\ ~Closes
  /\ CASE rx.state = "START1" -> rx' = [rx EXCEPT !.state = Next1(start)] /\ UNCHANGED fault
       [] rx.state = "START2" -> rx' = [rx EXCEPT !.state = Next2] /\ UNCHANGED fault
       [] OTHER -> \/ /\ rx' = [rx EXCEPT !.state = InPart, !.buf = Append(@, byte)]
                      /\ UNCHANGED fault
                   \/ Overruns /\ fault' = "overrun" /\ UNCHANGED rx
  /\ UNCHANGED <<taken, read>>

\* The last mark: the message is handed on, the next call starts afresh.
Deliver(node, body, files) ==
  /\ rx' = Fresh
  /\ taken' = taken + 1
  /\ read' = Append(read, [node |-> node, body |-> body, files |-> files])
  /\ UNCHANGED fault

\* seglost
Drop == rx' = Fresh /\ taken' = taken + 1 /\ UNCHANGED <<read, fault>>

\* An assertion fails.
Abort == fault' = "assertion" /\ UNCHANGED <<rx, taken, read>>

\* A part that is not the last.
ClosePart(part) ==
  /\ rx' = [state |-> "RECV", buf |-> <<>>, parts |-> Append(rx.parts, part)]
  /\ UNCHANGED <<taken, read, fault>>

\* memcpy of n bytes of the buffer, whatever was read into it.
Copy(n) == [i \in 1 .. n |-> IF i <= Len(rx.buf) THEN rx.buf[i] ELSE "."]

\* As many bytes as a segment has, without a test.
lab2_mnp_recvseg ==
  /\ link = "LAB2"
  /\ Scan("START1") \/ (Reads /\ Closes /\ (Deliver(".", Copy(SIZE), <<>>) \/ Drop))

recvpkt ==
  /\ link = "ON-ON"
  /\ Scan("START1") \/ (Reads /\ Closes /\ Deliver(".", Body, <<>>))

\* mutant: no assertion
overlay_recvpktAnySize ==
  /\ link = "ON-MNP"
  /\ Scan("START1") \/ (Reads /\ Closes /\ Deliver(".", Body, <<>>))

\* assert(idx - 1 == sizeof(mnp_pkt_t))
overlay_recvpkt ==
  /\ link = "ON-MNP"
  /\ \/ Scan("START1")
     \/ Reads /\ Closes /\ Len(Body) = SIZE /\ Deliver(".", Body, <<>>)
     \/ Reads /\ Closes /\ Len(Body) # SIZE /\ Abort

\* A nodeID and a body, with the same assertion.
DeliverArg == Deliver(Body[1], Tail(Body), <<>>)

getpktToSend ==
  /\ link = "MNP-ON"
  /\ \/ Scan("START1")
     \/ Reads /\ Closes /\ Len(Body) = SIZE + 1 /\ DeliverArg
     \/ Reads /\ Closes /\ Len(Body) # SIZE + 1 /\ Abort

getsegToSend ==
  /\ link = "MRT-MNP"
  /\ \/ Scan("START1")
     \/ Reads /\ Closes /\ Len(Body) = SIZE + 1 /\ DeliverArg
     \/ Reads /\ Closes /\ Len(Body) # SIZE + 1 /\ Abort

\* START1 falls through to START2: a '&' alone starts a frame.
mnp_recvseg ==
  /\ link = "MNP-MRT"
  /\ \/ Scan(Next2)
     \/ Reads /\ Closes /\ Len(Body) = SIZE + 1 /\ (DeliverArg \/ Drop)
     \/ Reads /\ Closes /\ Len(Body) # SIZE + 1 /\ Abort

receive_p2p_segment ==
  /\ link = "P2P"
  /\ \/ Scan("START1")
     \/ Reads /\ Closes /\ Part = 1 /\ ClosePart(Copy(SIZE))
     \/ Reads /\ Closes /\ Part = 2 /\ Deliver(".", rx.parts[1], <<Body>>)

\* The head, then entries until '!#'; what stands before that mark is dropped.
ReceiveTable ==
  \/ Scan("START1")
  \/ Reads /\ Closes /\ Part = 1 /\ ClosePart(Copy(SIZE))
  \/ Reads /\ Closes /\ Part > 1 /\ byte = "$" /\ ClosePart(Copy(FSIZE))
  \/ Reads /\ Closes /\ Part > 1 /\ byte = "#" /\ Deliver(".", rx.parts[1], Tail(rx.parts))

receive_p2t_segment == link = "P2T" /\ ReceiveTable
receive_t2p_segment == link = "T2P" /\ ReceiveTable

Receive ==
  \/ lab2_mnp_recvseg \/ recvpkt \/ overlay_recvpkt \/ getpktToSend \/ getsegToSend \/ mnp_recvseg
  \/ receive_p2p_segment \/ receive_p2t_segment \/ receive_t2p_segment

Init ==
  /\ link \in Links
  /\ turns \in Turns
  /\ stream = <<>>
  /\ tx = [w \in Threads |-> <<>>]
  /\ rx = Fresh
  /\ fault = "none"
  /\ written = <<>> /\ taken = 0 /\ read = <<>>

Next == (\E w \in Threads : Begin(w) \/ Continue(w)) \/ Receive

Spec == Init /\ [][Next]_vars

\* A frame that is begun is finished, and a reader reads on.
Fairness == (\A w \in Threads : WF_vars(Continue(w))) /\ WF_vars(Receive)
FairSpec == Spec /\ Fairness

(* Properties. *)

TypeOK ==
  /\ link \in AllLinks /\ turns \in BOOLEAN
  /\ stream \in Seq(Byte) /\ Len(stream) <= Cap
  /\ tx \in [Threads -> Seq(Seq(Byte))]
  /\ rx \in [state : {"START1", "START2", "RECV", "STOP1"}, buf : Seq(Byte), parts : Seq(Seq(Byte))]
  /\ fault \in {"none", "assertion", "overrun"}
  /\ taken \in Nat

\* What is written is read, in order, once, and in the end, whatever the bytes
\* of the messages, if no two threads are in a frame at a time and no mark is
\* among the data.  A segment may be dropped by seglost.
Orderly == turns \/ \A v, w \in Writers[link] : v = w
Frames ==
  INSTANCE FrameStream WITH
    lossy <- link \in Lossy,
    written <- IF Orderly THEN written ELSE <<>>,
    taken <- IF Orderly THEN taken ELSE 0,
    read <- IF Orderly THEN read ELSE <<>>
ImplementsFrames == Frames!Spec

\* Whatever the threads mix, no packet or segment is handed on between the
\* processes of a node in lab4 that none of them wrote: the assertion on the
\* size fails first.
NothingForged ==
  link \notin Tofukasu \cup {"LAB2"} =>
    \A i \in 1 .. Len(read) : \E j \in 1 .. Len(written) : read[i] = written[j]
=============================================================================
