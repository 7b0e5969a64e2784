--------------------------- MODULE Framing_proofs ---------------------------
(***************************************************************************)
(* Proofs about the frames of lab4 and lab2, for any messages, any number  *)
(* of threads and any capacity of the connection: each variable keeps its  *)
(* type, no packet is handed on that nobody wrote however the threads mix  *)
(* their frames, and an orderly connection implements FrameStream.         *)
(***************************************************************************)
EXTENDS Framing, SequenceTheorems, TLAPS

-----------------------------------------------------------------------------
(* The inductive invariant.  It tells what the bytes are that were ever    *)
(* written to the connection: whole frames, each of one thread, and behind *)
(* them what the threads have begun.  There is no variable for that line   *)
(* of bytes: the invariant says that there is such a line.                 *)

Lab == AllLinks \ Tofukasu

\* The readers that assert the size of what they have read.
Checked == {"MRT-MNP", "MNP-MRT", "MNP-ON", "ON-MNP"}

\* The structure between the two marks of a frame, and its size.
Struct(m) == IF link \in Addressed THEN <<m.node>> \o m.body ELSE m.body
Width == IF link \in Addressed THEN SIZE + 1 ELSE SIZE

\* The structure s is framed on the line behind position a.
Opens(line, a) == line[a + 1] = "!" /\ line[a + 2] = "&"
Holds(line, a, s) == \A i \in 1 .. Len(s) : line[a + 2 + i] = s[i]
Closed(line, z) == line[z + 1] = "!" /\ line[z + 2] = "#"
Framed(line, a, s) == Opens(line, a) /\ Holds(line, a, s) /\ Closed(line, a + Len(s) + 2)

\* The first n messages stand on the line one behind the other; message k ends at cut[k].
Whole(line, cut, n) ==
  /\ line \in Seq(Byte) /\ n \in 0 .. Len(written) /\ cut \in [0 .. n -> Nat]
  /\ cut[0] = 0
  /\ \A k \in 0 .. n : cut[k] <= Len(line)
  /\ \A k \in 1 .. n :
       /\ cut[k] = cut[k - 1] + Len(Struct(written[k])) + 4
       /\ Framed(line, cut[k - 1], Struct(written[k]))

\* Behind them, from position a: nothing ...
Idle(line, a, n) ==
  /\ n = Len(written) /\ Len(line) = a
  /\ \A w \in Threads : tx[w] = <<>>

\* ... or the frame of one thread, less its end ...
InFrame(line, a, n) ==
  /\ n + 1 = Len(written) /\ Len(line) >= a + 2 /\ Opens(line, a)
  /\ \E w \in Writers[link] : LET s == Struct(written[n + 1]) IN
       /\ \A v \in Threads \ {w} : tx[v] = <<>>
       /\ \/ Len(line) = a + 2 /\ tx[w] = <<s, Mark("#")>>
          \/ Len(line) = a + Len(s) + 2 /\ tx[w] = <<Mark("#")>> /\ Holds(line, a, s)

\* ... or first marks only, of several threads ...
NoEnd(line, a) == \A i \in a + 1 .. Len(line) - 1 : ~Closed(line, i - 1)
Begun(line, a, n) ==
  /\ n < Len(written) /\ Len(line) >= a + 4 /\ Opens(line, a)
  /\ NoEnd(line, a) /\ line[Len(line)] = "&"
  /\ \A w \in Threads : tx[w] = <<>> \/ \E m \in Messages : tx[w] = <<Struct(m), Mark("#")>>

\* ... or a mixture, that has no last mark where a frame would have it.
Mixed(line, a, n) ==
  /\ n < Len(written) /\ Len(line) >= a + Width + 4 /\ Opens(line, a)
  /\ ~Closed(line, a + Width + 2)

Rest(line, a, n) ==
  \/ Idle(line, a, n)
  \/ InFrame(line, a, n)
  \/ ~Orderly /\ (Begun(line, a, n) \/ Mixed(line, a, n))

\* The reader has read c bytes of the line, the last of them behind position a, where
\* the frames end that it has taken.
Place(line, cut, n, c) ==
  /\ c \in 0 .. Len(line) /\ Len(stream) = Len(line) - c
  /\ \A i \in 1 .. Len(stream) : stream[i] = line[c + i]
  /\ taken \in 0 .. n /\ cut[taken] <= c

Outside(a, c) ==
  /\ rx.state = "START1" => c = a
  /\ rx.state = "START2" => c = a + 1
  /\ rx.state \in {"START1", "START2"} => rx.buf = <<>>

Inside(line, a, c) ==
  rx.state \in {"RECV", "STOP1"} =>
    /\ c >= a + 2 /\ Len(rx.buf) = c - a - 2
    /\ \A i \in 1 .. Len(rx.buf) : rx.buf[i] = line[a + 2 + i]
    /\ rx.state = "STOP1" <=> (c >= a + 3 /\ line[c] = "!")

Reading(line, cut, n, c) ==
  /\ Place(line, cut, n, c)
  /\ fault = "none" =>
       /\ rx.parts = <<>> /\ Outside(cut[taken], c) /\ Inside(line, cut[taken], c)
       /\ taken < n => c - cut[taken] <= Len(Struct(written[taken + 1])) + 3

WrittenOK == written \in Seq(Messages)
ReadOK ==
  /\ read \in Seq(Messages)
  /\ \A i \in 1 .. Len(read) : \E j \in 1 .. Len(written) : read[i] = written[j]

\* The connections it holds for.
Sound == link \in Checked \/ (link \in Lab /\ Orderly)

Line(line, n, cut, c) == Whole(line, cut, n) /\ Rest(line, cut[n], n) /\ Reading(line, cut, n, c)

FrameInv ==
  Sound => /\ WrittenOK /\ ReadOK
           /\ \E line \in Seq(Byte), n \in Nat : \E cut \in [0 .. n -> Nat], c \in Nat :
                Line(line, n, cut, c)

-----------------------------------------------------------------------------
(* Bytes and calls.                                                        *)

LEMMA Joined ==
  ASSUME NEW s \in Seq(Byte), NEW t \in Seq(Byte)
  PROVE  /\ s \o t \in Seq(Byte)
         /\ Len(s) \in Nat /\ Len(t) \in Nat /\ Len(s \o t) = Len(s) + Len(t)
         /\ \A i \in 1 .. Len(s) : (s \o t)[i] = s[i]
         /\ \A i \in 1 .. Len(t) : (s \o t)[Len(s) + i] = t[i]
  BY ConcatProperties, LenProperties

LEMMA MarkType ==
  ASSUME NEW c \in Byte
  PROVE  Mark(c) \in Seq(Byte) /\ Len(Mark(c)) = 2 /\ Mark(c)[1] = "!" /\ Mark(c)[2] = c
  BY DEF Mark, Byte

LEMMA MessageType ==
  ASSUME link \in AllLinks, NEW m \in Messages
  PROVE  /\ m.node = "." /\ m.body \in Seq(Byte) /\ m.files \in Seq(Seq(Byte))
         /\ link # "ON-ON" => Len(m.body) = SIZE
         /\ Unmarked(m.body, 1)
         /\ link = "P2P" => Len(m.files) = 1
         /\ link \in Lab => m = [node |-> ".", body |-> m.body, files |-> <<>>]
<1>1. Bodies[link] \subseteq Seq(Byte) /\ Files[link] \subseteq Seq(Seq(Byte))
  BY FramingAssumption DEF FramingAssumption
<1>2. m \in [node : {"."}, body : Bodies[link], files : Files[link]]
  BY DEF Messages
<1>3. link \in Lab => m.files = <<>>
  BY DEF Messages, Lab
<1>4. /\ link # "ON-ON" => Len(m.body) = SIZE
      /\ Unmarked(m.body, 1)
      /\ link = "P2P" => Len(m.files) = 1
  BY DEF Messages
<1>5. m = [node |-> m.node, body |-> m.body, files |-> m.files] /\ m.node = "."
      /\ m.body \in Seq(Byte) /\ m.files \in Seq(Seq(Byte))
  BY <1>1, <1>2
<1> QED
  BY <1>3, <1>4, <1>5

LEMMA FrameCalls ==
  ASSUME NEW s \in Seq(Byte)
  PROVE  Frame(s) \in Seq(Seq(Byte)) /\ Frame(s) # <<>> /\ Head(Frame(s)) = Mark("&")
         /\ Tail(Frame(s)) = <<s, Mark("#")>>
<1>1. Mark("&") \in Seq(Byte) /\ Mark("#") \in Seq(Byte)
  BY MarkType DEF Byte
<1> QED
  BY <1>1 DEF Frame

LEMMA EntriesType ==
  ASSUME NEW files \in Seq(Seq(Byte))
  PROVE  Entries(files) \in Seq(Seq(Byte))
<1>1. Mark("$") \in Seq(Byte)
  BY MarkType DEF Byte
<1>2. Len(files) \in Nat /\ \A i \in 1 .. Len(files) : files[i] \in Seq(Byte)
  BY LenProperties, ElementOfSeq
<1>3. ASSUME NEW i \in 1 .. 2 * Len(files)
      PROVE  Entry(files, i) \in Seq(Byte)
  <2>1. CASE i % 2 = 1
    <3>1. (i + 1) \div 2 \in 1 .. Len(files)
      BY <1>2
    <3> QED
      BY <2>1, <3>1, <1>2 DEF Entry
  <2> QED
    BY <2>1, <1>1 DEF Entry
<1>4. Entries(files) \in [1 .. 2 * Len(files) -> Seq(Byte)]
  BY <1>3 DEF Entries
<1>5. 2 * Len(files) \in Nat
  BY <1>2
<1>6. \A S : \A n \in Nat : \A f \in [1 .. n -> S] : f \in Seq(S)
  BY SeqDef
<1> QED
  BY <1>4, <1>5, <1>6

LEMMA CallsType ==
  ASSUME link \in AllLinks, NEW m \in Messages
  PROVE  Calls(m) \in Seq(Seq(Byte)) /\ Calls(m) # <<>> /\ Head(Calls(m)) = Mark("&")
<1>1. m.node = "." /\ m.body \in Seq(Byte) /\ m.files \in Seq(Seq(Byte))
      /\ (link = "P2P" => Len(m.files) = 1)
  BY MessageType
<1>2. <<m.node>> \o m.body \in Seq(Byte)
  BY <1>1, Joined DEF Byte
<1>3. \A c \in Byte : Mark(c) \in Seq(Byte)
  BY MarkType
<1>4. CASE link = "P2P"
  <2>1. m.files[1] \in Seq(Byte)
    BY <1>1, <1>4, ElementOfSeq
  <2> QED
    BY <2>1, <1>1, <1>3, <1>4 DEF Calls, send_p2p_segment, Byte
<1>5. CASE link \in Tables
  <2> DEFINE start == <<Mark("&"), m.body, Mark("^")>>
             end == <<Mark("#")>>
             es == Entries(m.files)
  <2>1. start \in Seq(Seq(Byte)) /\ end \in Seq(Seq(Byte)) /\ es \in Seq(Seq(Byte))
    BY <1>1, <1>3, EntriesType DEF Byte
  <2>2. Calls(m) = start \o es \o end
    BY <1>5 DEF Calls, send_p2t_segment, send_t2p_segment, Tables
  <2> HIDE DEF start, end, es
  <2>3. start \o es \in Seq(Seq(Byte)) /\ Len(start \o es) = Len(start) + Len(es)
        /\ \A i \in 1 .. Len(start) : (start \o es)[i] = start[i]
    BY <2>1, ConcatProperties
  <2>4. Len(start) = 3 /\ start[1] = Mark("&") /\ Len(es) \in Nat
    BY <2>1, LenProperties DEF start
  <2>5. (start \o es)[1] = Mark("&") /\ Len(start \o es) \in Nat \ {0}
    BY <2>3, <2>4
  <2>6. (start \o es) \o end \in Seq(Seq(Byte)) /\ ((start \o es) \o end)[1] = Mark("&")
        /\ Len((start \o es) \o end) = Len(start \o es) + Len(end)
    BY <2>1, <2>3, <2>5, ConcatProperties
  <2> QED
    BY <2>1, <2>2, <2>5, <2>6, HeadTailProperties, EmptySeq, LenProperties
<1>6. CASE link \in Lab
  BY <1>1, <1>2, <1>6, FrameCalls
     DEF Calls, Lab, AllLinks, Tofukasu, overlay_sendpkt, forwardpktToMNP, sendpkt,
         lab2_mnp_sendseg, mnp_sendseg, forwardsegToMRT
<1> QED
  BY <1>4, <1>5, <1>6 DEF Lab, Tofukasu, Tables

-----------------------------------------------------------------------------
(* Type correctness.                                                       *)

LEMMA InitType == Init => TypeOK
<1>1. Cap \in Nat /\ Links \subseteq AllLinks /\ Turns \subseteq BOOLEAN
  BY FramingAssumption DEF FramingAssumption
<1> QED
  BY <1>1 DEF Init, TypeOK, Fresh

LEMMA WriterType ==
  ASSUME TypeOK, NEW w \in Threads, Begin(w) \/ Continue(w)
  PROVE  TypeOK'
<1>1. ASSUME NEW b \in Seq(Byte), Put(b)
      PROVE  stream' \in Seq(Byte) /\ Len(stream') <= Cap
  BY <1>1, Joined DEF Put, TypeOK
<1>2. \A cs \in Seq(Seq(Byte)) : cs # <<>> => Head(cs) \in Seq(Byte) /\ Tail(cs) \in Seq(Seq(Byte))
  BY HeadTailProperties
<1>3. ASSUME NEW cs \in Seq(Seq(Byte)), cs # <<>>, Put(Head(cs)), tx' = [tx EXCEPT ![w] = Tail(cs)],
             UNCHANGED <<link, turns, rx, fault, taken>>
      PROVE  TypeOK'
  <2>1. stream' \in Seq(Byte) /\ Len(stream') <= Cap
    BY <1>1, <1>2, <1>3
  <2>2. tx' \in [Threads -> Seq(Seq(Byte))]
    BY <1>2, <1>3 DEF TypeOK
  <2> QED
    BY <1>3, <2>1, <2>2 DEF TypeOK
<1>4. CASE Begin(w)
  <2>1. PICK m \in Messages : Put(Head(Calls(m))) /\ tx' = [tx EXCEPT ![w] = Tail(Calls(m))]
    BY <1>4 DEF Begin
  <2>2. Calls(m) \in Seq(Seq(Byte)) /\ Calls(m) # <<>>
    BY CallsType DEF TypeOK
  <2> QED
    BY <1>3, <1>4, <2>1, <2>2 DEF Begin
<1>5. CASE Continue(w)
  <2>1. tx[w] \in Seq(Seq(Byte)) /\ tx[w] # <<>>
    BY <1>5 DEF Continue, TypeOK
  <2>2. tx' = [tx EXCEPT ![w] = Tail(tx[w])]
    BY <1>5 DEF Continue
  <2> QED
    BY <1>3, <1>5, <2>1, <2>2 DEF Continue
<1> QED
  BY <1>4, <1>5

LEMMA ReadsType ==
  ASSUME TypeOK, Reads
  PROVE  /\ byte \in Byte /\ Len(stream) \in Nat \ {0} /\ byte = stream[1]
         /\ stream' \in Seq(Byte) /\ Len(stream') = Len(stream) - 1 /\ Len(stream') <= Cap
         /\ \A i \in 1 .. Len(stream') : stream'[i] = stream[i + 1]
         /\ UNCHANGED <<link, turns, tx, written>> /\ fault = "none"
<1>1. Len(stream) \in Nat \ {0} /\ Cap \in Nat
  BY LenProperties, EmptySeq, FramingAssumption DEF TypeOK, Reads, FramingAssumption
<1>2. byte \in Byte /\ byte = stream[1] /\ Tail(stream) \in Seq(Byte) /\ Len(Tail(stream)) = Len(stream) - 1
      /\ \A i \in 1 .. Len(Tail(stream)) : Tail(stream)[i] = stream[i + 1]
  BY <1>1, HeadTailProperties DEF TypeOK, Reads, byte
<1> QED
  BY <1>1, <1>2 DEF TypeOK, Reads

\* What the reader has put together.
Rx == [state : {"START1", "START2", "RECV", "STOP1"}, buf : Seq(Byte), parts : Seq(Seq(Byte))]

LEMMA BufferType ==
  ASSUME TypeOK
  PROVE  /\ rx \in Rx /\ rx.buf \in Seq(Byte) /\ Len(rx.buf) \in Nat
         /\ \A n \in Nat : Copy(n) \in Seq(Byte) /\ Len(Copy(n)) = n
<1>1. rx \in Rx /\ rx.buf \in Seq(Byte) /\ Len(rx.buf) \in Nat
  BY LenProperties DEF TypeOK, Rx
<1>2. \A i \in 1 .. Len(rx.buf) : rx.buf[i] \in Byte
  BY <1>1, ElementOfSeq
<1>3. ASSUME NEW n \in Nat
      PROVE  Copy(n) \in [1 .. n -> Byte]
  BY <1>1, <1>2 DEF Copy, Byte
<1>4. \A n \in Nat : \A f \in [1 .. n -> Byte] : f \in Seq(Byte) /\ Len(f) = n
  BY SeqDef, LenProperties
<1> QED
  BY <1>1, <1>3, <1>4

LEMMA TakingType ==
  ASSUME TypeOK, Reads,
         \/ Drop \/ Abort
         \/ \E node, body, files : Deliver(node, body, files)
         \/ \E part \in Seq(Byte) : ClosePart(part)
  PROVE  TypeOK'
<1>1. Fresh \in Rx
  BY DEF Fresh, Rx
<1>2. taken \in Nat /\ taken + 1 \in Nat
  BY DEF TypeOK
<1>3. ASSUME NEW part \in Seq(Byte), ClosePart(part)
      PROVE  rx' \in Rx
  <2>1. Append(rx.parts, part) \in Seq(Seq(Byte))
    BY BufferType, AppendProperties DEF Rx
  <2> QED
    BY <1>3, <2>1 DEF ClosePart, Rx
<1>4. rx' \in Rx /\ taken' \in Nat /\ fault' \in {"none", "assertion", "overrun"}
  BY <1>1, <1>2, <1>3, BufferType DEF Drop, Abort, Deliver, ClosePart, TypeOK
<1> QED
  BY <1>4, ReadsType DEF TypeOK, Rx

LEMMA ScanType ==
  ASSUME TypeOK, NEW start \in {"START1", "START2", "RECV"}, Scan(start)
  PROVE  TypeOK'
<1>1. /\ Reads /\ UNCHANGED <<taken, read>>
      /\ \/ rx' = [rx EXCEPT !.state = Next1(start)] /\ UNCHANGED fault
         \/ rx' = [rx EXCEPT !.state = Next2] /\ UNCHANGED fault
         \/ rx' = [rx EXCEPT !.state = InPart, !.buf = Append(@, byte)] /\ UNCHANGED fault
         \/ fault' = "overrun" /\ UNCHANGED rx
  BY DEF Scan
<1>2. Append(rx.buf, byte) \in Seq(Byte)
  BY <1>1, ReadsType, BufferType, AppendProperties
<1>3. rx' \in Rx
  BY <1>1, <1>2, BufferType DEF Rx, Next1, Next2, InPart
<1> QED
  BY <1>1, <1>3, ReadsType DEF TypeOK, Rx

LEMMA ReceiveType ==
  ASSUME TypeOK, Receive
  PROVE  TypeOK'
<1>1. SIZE \in Nat /\ FSIZE \in Nat
  BY FramingAssumption DEF FramingAssumption
<1>2. Copy(SIZE) \in Seq(Byte) /\ Copy(FSIZE) \in Seq(Byte)
  BY <1>1, BufferType
<1>3. Next2 \in {"START1", "START2", "RECV"}
  BY DEF Next2
<1>4. \/ \E start \in {"START1", "START2", "RECV"} : Scan(start)
      \/ Reads /\ (Drop \/ Abort)
      \/ Reads /\ \E node, body, files : Deliver(node, body, files)
      \/ Reads /\ \E part \in Seq(Byte) : ClosePart(part)
  <2>1. CASE lab2_mnp_recvseg \/ recvpkt \/ overlay_recvpkt
    BY <2>1 DEF lab2_mnp_recvseg, recvpkt, overlay_recvpkt
  <2>2. CASE getpktToSend \/ getsegToSend \/ mnp_recvseg
    BY <1>3, <2>2 DEF getpktToSend, getsegToSend, mnp_recvseg, DeliverArg
  <2>3. CASE receive_p2p_segment
    BY <1>2, <2>3 DEF receive_p2p_segment
  <2>4. CASE receive_p2t_segment \/ receive_t2p_segment
    BY <1>2, <2>4 DEF receive_p2t_segment, receive_t2p_segment, ReceiveTable
  <2> QED
    BY <2>1, <2>2, <2>3, <2>4 DEF Receive
<1> QED
  BY <1>4, ScanType, TakingType

\* Every variable keeps its type, whatever the messages and the threads are.
THEOREM TypeCorrect == Spec => []TypeOK
<1>1. TypeOK /\ [Next]_vars => TypeOK'
  <2> SUFFICES ASSUME TypeOK, [Next]_vars PROVE TypeOK'
    OBVIOUS
  <2>1. CASE \E w \in Threads : Begin(w) \/ Continue(w)
    BY <2>1, WriterType
  <2>2. CASE Receive
    BY <2>2, ReceiveType
  <2>3. CASE UNCHANGED vars
    BY <2>3 DEF TypeOK, vars
  <2> QED
    BY <2>1, <2>2, <2>3 DEF Next
<1> QED
  BY InitType, <1>1, PTL DEF Spec

-----------------------------------------------------------------------------
(* The frames of lab4 and lab2.                                            *)

LEMMA StructType ==
  ASSUME link \in Lab, NEW m \in Messages
  PROVE  /\ Struct(m) \in Seq(Byte) /\ Len(Struct(m)) \in Nat
         /\ link # "ON-ON" => Len(Struct(m)) = Width
         /\ Calls(m) = Frame(Struct(m))
         /\ \A i \in 1 .. Len(Struct(m)) - 1 : ~(Struct(m)[i] = "!" /\ Struct(m)[i + 1] = "#")
<1>1. /\ link \in AllLinks /\ m.node = "." /\ m.body \in Seq(Byte)
      /\ link # "ON-ON" => Len(m.body) = SIZE
      /\ Unmarked(m.body, 1)
  BY MessageType DEF Lab
<1>2. Len(m.body) \in Nat
        /\ \A i \in 1 .. Len(m.body) - 1 : ~(m.body[i] = "!" /\ m.body[i + 1] = "#")
  BY <1>1, LenProperties DEF Unmarked, Closing, Lab
<1>3. Calls(m) = Frame(Struct(m))
  BY DEF Calls, Struct, Lab, AllLinks, Tofukasu, Addressed, overlay_sendpkt, forwardpktToMNP, sendpkt,
         lab2_mnp_sendseg, mnp_sendseg, forwardsegToMRT
<1>4. CASE link \in Addressed
  <2> DEFINE s == <<m.node>> \o m.body
  <2>1. <<m.node>> \in Seq(Byte) /\ Len(<<m.node>>) = 1 /\ <<m.node>>[1] = "."
    BY <1>1 DEF Byte
  <2>2. /\ s \in Seq(Byte) /\ Len(s) = 1 + Len(m.body) /\ s[1] = "."
        /\ \A i \in 1 .. Len(m.body) : s[1 + i] = m.body[i]
    BY <1>1, <2>1, Joined
  <2>3. Struct(m) = s /\ Width = SIZE + 1 /\ link # "ON-ON"
    BY <1>4 DEF Struct, Width, Addressed
  <2> HIDE DEF s
  <2>4. ASSUME NEW i \in 1 .. Len(s) - 1
        PROVE  ~(s[i] = "!" /\ s[i + 1] = "#")
    <3>1. CASE i = 1
      BY <2>2, <3>1
    <3>2. CASE i # 1
      <4>1. i - 1 \in 1 .. Len(m.body) - 1 /\ i \in 1 .. Len(m.body)
        BY <1>2, <2>2, <3>2
      <4>2. s[i] = m.body[i - 1] /\ s[i + 1] = m.body[(i - 1) + 1]
        BY <4>1, <2>2, <1>2
      <4> QED
        BY <1>2, <4>1, <4>2
    <3> QED
      BY <3>1, <3>2
  <2> QED
    BY <1>1, <1>2, <1>3, <2>2, <2>3, <2>4
<1>5. CASE link \notin Addressed
  BY <1>1, <1>2, <1>3, <1>5 DEF Struct, Width
<1> QED
  BY <1>4, <1>5

LEMMA LinkKinds ==
  ASSUME Sound
  PROVE  link \in Lab /\ (~Orderly => link \in Checked) /\ (link \in Checked => link # "ON-ON")
  BY DEF Sound, Checked, Lab, AllLinks, Tofukasu

\* What is written to the connection comes behind what is there.
LEMMA LineGrows ==
  ASSUME TypeOK, NEW line \in Seq(Byte), NEW b \in Seq(Byte), Put(b)
  PROVE  /\ line \o b \in Seq(Byte)
         /\ Len(line) \in Nat /\ Len(b) \in Nat /\ Len(line \o b) = Len(line) + Len(b)
         /\ \A i \in 1 .. Len(line) : (line \o b)[i] = line[i]
         /\ \A i \in 1 .. Len(b) : (line \o b)[Len(line) + i] = b[i]
         /\ stream' = stream \o b /\ stream' \in Seq(Byte)
         /\ Len(stream) \in Nat /\ Len(stream') = Len(stream) + Len(b)
         /\ \A i \in 1 .. Len(stream) : stream'[i] = stream[i]
         /\ \A i \in 1 .. Len(b) : stream'[Len(stream) + i] = b[i]
  BY Joined DEF TypeOK, Put

LEMMA WrittenType ==
  ASSUME Sound, WrittenOK
  PROVE  /\ Len(written) \in Nat
         /\ \A k \in 1 .. Len(written) :
              /\ written[k] \in Messages
              /\ Struct(written[k]) \in Seq(Byte) /\ Len(Struct(written[k])) \in Nat
<1>1. Len(written) \in Nat /\ \A k \in 1 .. Len(written) : written[k] \in Messages
  BY LenProperties, ElementOfSeq DEF WrittenOK
<1> QED
  BY <1>1, StructType, LinkKinds

\* A frame stays where it is.
LEMMA FrameStays ==
  ASSUME NEW line \in Seq(Byte), NEW l \in Seq(Byte), NEW a \in Nat, NEW s \in Seq(Byte),
         \A i \in 1 .. Len(line) : l[i] = line[i],
         a + Len(s) + 4 <= Len(line), Framed(line, a, s)
  PROVE  Framed(l, a, s)
<1>1. Len(line) \in Nat /\ Len(s) \in Nat
  BY LenProperties
<1>2. Opens(l, a)
  <2>1. a + 1 \in 1 .. Len(line) /\ a + 2 \in 1 .. Len(line)
    BY <1>1
  <2> QED
    BY <2>1 DEF Framed, Opens
<1>3. Holds(l, a, s)
  <2>1. \A i \in 1 .. Len(s) : a + 2 + i \in 1 .. Len(line)
    BY <1>1
  <2> QED
    BY <2>1 DEF Framed, Holds
<1>4. Closed(l, a + Len(s) + 2)
  <2>1. (a + Len(s) + 2) + 1 \in 1 .. Len(line) /\ (a + Len(s) + 2) + 2 \in 1 .. Len(line)
    BY <1>1
  <2> QED
    BY <2>1 DEF Framed, Closed
<1> QED
  BY <1>2, <1>3, <1>4 DEF Framed

\* The stream is what is left of the line from position c on.
LEMMA StreamGrows ==
  ASSUME NEW line \in Seq(Byte), NEW s \in Seq(Byte), NEW b \in Seq(Byte), NEW c \in 0 .. Len(line),
         Len(s) = Len(line) - c, \A i \in 1 .. Len(s) : s[i] = line[c + i]
  PROVE  /\ Len(s \o b) = Len(line \o b) - c
         /\ \A i \in 1 .. Len(s \o b) : (s \o b)[i] = (line \o b)[c + i]
<1> DEFINE l == line \o b
           t == s \o b
<1>1. /\ Len(line) \in Nat /\ Len(b) \in Nat /\ Len(s) \in Nat
      /\ Len(l) = Len(line) + Len(b) /\ Len(t) = Len(s) + Len(b)
      /\ \A i \in 1 .. Len(line) : l[i] = line[i]
      /\ \A i \in 1 .. Len(b) : l[Len(line) + i] = b[i]
      /\ \A i \in 1 .. Len(s) : t[i] = s[i]
      /\ \A i \in 1 .. Len(b) : t[Len(s) + i] = b[i]
  <2>1. /\ Len(line) \in Nat /\ Len(b) \in Nat /\ Len(l) = Len(line) + Len(b)
        /\ \A i \in 1 .. Len(line) : l[i] = line[i]
        /\ \A i \in 1 .. Len(b) : l[Len(line) + i] = b[i]
    BY Joined
  <2>2. /\ Len(s) \in Nat /\ Len(t) = Len(s) + Len(b)
        /\ \A i \in 1 .. Len(s) : t[i] = s[i]
        /\ \A i \in 1 .. Len(b) : t[Len(s) + i] = b[i]
    BY Joined
  <2> QED
    BY <2>1, <2>2
<1> HIDE DEF l, t
<1>2. ASSUME NEW i \in 1 .. Len(t)
      PROVE  t[i] = l[c + i]
  <2>1. CASE i <= Len(s)
    <3>1. i \in 1 .. Len(s) /\ c + i \in 1 .. Len(line)
      BY <1>1, <2>1
    <3> QED
      BY <3>1, <1>1
  <2>2. CASE i > Len(s)
    <3> DEFINE j == i - Len(s)
    <3>1. j \in 1 .. Len(b) /\ i = Len(s) + j /\ c + i = Len(line) + j
      BY <1>1, <2>2
    <3> HIDE DEF j
    <3> QED
      BY <1>1, <3>1
  <2> QED
    BY <1>1, <2>1, <2>2
<1>3. Len(t) = Len(l) - c
  BY <1>1
<1> QED
  BY <1>2, <1>3 DEF l, t

\* Positions of what was read behind position a.
LEMMA BufferPlaces ==
  ASSUME NEW L \in Nat, NEW a \in Nat, NEW c \in 0 .. L, NEW m, m = c - a - 2, c >= a + 2
  PROVE  c \in 1 .. L /\ \A i \in 1 .. m : a + 2 + i \in 1 .. L
  OBVIOUS

LEMMA WholeStays ==
  ASSUME Sound, WrittenOK,
         NEW line \in Seq(Byte), NEW n \in Nat, NEW cut \in [0 .. n -> Nat], Whole(line, cut, n),
         NEW l \in Seq(Byte), \A i \in 1 .. Len(line) : l[i] = line[i], Len(line) <= Len(l),
         UNCHANGED link, Len(written') \in Nat, Len(written) <= Len(written'),
         \A k \in 1 .. Len(written) : written'[k] = written[k]
  PROVE  Whole(l, cut, n)'
<1>1. n \in 0 .. Len(written) /\ Len(written) \in Nat
  BY WrittenType DEF Whole
<1>2. ASSUME NEW k \in 1 .. n
      PROVE  /\ cut[k] = cut[k - 1] + Len(Struct(written'[k])) + 4
             /\ Framed(l, cut[k - 1], Struct(written'[k]))
  <2>1. k \in 1 .. Len(written) /\ k - 1 \in 0 .. n /\ k \in 0 .. n
    BY <1>1
  <2>2. written'[k] = written[k] /\ Struct(written[k]) \in Seq(Byte)
    BY <2>1, WrittenType
  <2>3. /\ cut[k - 1] \in Nat /\ cut[k] <= Len(line)
        /\ cut[k] = cut[k - 1] + Len(Struct(written[k])) + 4
        /\ Framed(line, cut[k - 1], Struct(written[k]))
    BY <2>1 DEF Whole
  <2>4. Framed(l, cut[k - 1], Struct(written[k]))
    BY <2>2, <2>3, FrameStays
  <2> QED
    BY <2>2, <2>3, <2>4
<1>3. ASSUME NEW k \in 0 .. n
      PROVE  cut[k] <= Len(l)
  <2>1. cut[k] <= Len(line) /\ cut[k] \in Nat
    BY DEF Whole
  <2>2. Len(line) \in Nat /\ Len(l) \in Nat
    BY LenProperties
  <2> QED
    BY <2>1, <2>2
<1>4. n \in 0 .. Len(written')
  BY <1>1
<1>5. \A m : Struct(m)' = Struct(m)
  BY DEF Struct
<1>6. cut[0] = 0
  BY DEF Whole
<1> QED
  BY <1>2, <1>3, <1>4, <1>5, <1>6 DEF Whole

LEMMA PlaceStays ==
  ASSUME TypeOK, NEW line \in Seq(Byte), NEW n \in Nat, NEW cut, NEW c \in Nat, Place(line, cut, n, c),
         NEW b \in Seq(Byte), Put(b), UNCHANGED taken
  PROVE  Place(line \o b, cut, n, c)'
<1>1. stream' = stream \o b /\ stream \in Seq(Byte)
  BY DEF Put, TypeOK
<1>2. /\ c \in 0 .. Len(line) /\ Len(stream) = Len(line) - c
      /\ \A i \in 1 .. Len(stream) : stream[i] = line[c + i]
      /\ taken \in 0 .. n /\ cut[taken] <= c
  BY DEF Place
<1>3. /\ Len(stream \o b) = Len(line \o b) - c
      /\ \A i \in 1 .. Len(stream \o b) : (stream \o b)[i] = (line \o b)[c + i]
  BY <1>1, <1>2, StreamGrows
<1>4. c \in 0 .. Len(line \o b)
  <2>1. Len(line) \in Nat /\ Len(line \o b) = Len(line) + Len(b) /\ Len(b) \in Nat
    BY Joined
  <2> QED
    BY <2>1, <1>2
<1> QED
  BY <1>1, <1>2, <1>3, <1>4 DEF Place

LEMMA InsideStays ==
  ASSUME NEW line \in Seq(Byte), NEW l, NEW a \in Nat, NEW c \in 0 .. Len(line), Inside(line, a, c),
         \A i \in 1 .. Len(line) : l[i] = line[i], UNCHANGED rx
  PROVE  Inside(l, a, c)'
<1> SUFFICES ASSUME rx.state \in {"RECV", "STOP1"}
    PROVE  /\ \A i \in 1 .. Len(rx.buf) : l[a + 2 + i] = line[a + 2 + i]
           /\ l[c] = line[c]
  BY DEF Inside
<1>1. c >= a + 2 /\ Len(rx.buf) = c - a - 2
  BY DEF Inside
<1>2. Len(line) \in Nat
  BY LenProperties
<1>3. c \in 1 .. Len(line) /\ \A i \in 1 .. Len(rx.buf) : a + 2 + i \in 1 .. Len(line)
  BY <1>1, <1>2, BufferPlaces
<1> QED
  BY <1>3

LEMMA ReadingStays ==
  ASSUME TypeOK, Sound, WrittenOK,
         NEW line \in Seq(Byte), NEW n \in Nat, NEW cut \in [0 .. n -> Nat], NEW c \in Nat,
         Whole(line, cut, n), Reading(line, cut, n, c),
         NEW b \in Seq(Byte), Put(b), UNCHANGED <<link, turns, rx, fault, taken>>,
         \A k \in 1 .. Len(written) : written'[k] = written[k]
  PROVE  Reading(line \o b, cut, n, c)'
<1>1. Place(line, cut, n, c) /\ Place(line \o b, cut, n, c)'
  BY PlaceStays DEF Reading
<1>2. c \in 0 .. Len(line) /\ taken \in 0 .. n /\ cut[taken] \in Nat
  BY <1>1 DEF Place
<1>3. taken < n => written'[taken + 1] = written[taken + 1]
  <2>1. n \in 0 .. Len(written) /\ Len(written) \in Nat
    BY WrittenType DEF Whole
  <2>2. taken < n => taken + 1 \in 1 .. Len(written)
    BY <1>2, <2>1
  <2> QED
    BY <2>2
<1>4. \A i \in 1 .. Len(line) : (line \o b)[i] = line[i]
  BY Joined
<1>5. fault = "none" => Inside(line \o b, cut[taken], c)'
  BY <1>2, <1>4, InsideStays DEF Reading
<1>6. fault = "none" => Outside(cut[taken], c)'
  BY DEF Reading, Outside
<1>7. \A m : Struct(m)' = Struct(m)
  BY DEF Struct
<1> QED
  BY <1>1, <1>3, <1>5, <1>6, <1>7 DEF Reading

-----------------------------------------------------------------------------
(* A thread writes.                                                        *)

LEMMA TwoCalls ==
  ASSUME NEW x, NEW y
  PROVE  /\ <<x, y>> # <<>> /\ Head(<<x, y>>) = x /\ Tail(<<x, y>>) = <<y>>
         /\ <<y>> # <<>> /\ Head(<<y>>) = y /\ Tail(<<y>>) = <<>>
  OBVIOUS

LEMMA MarkBehind ==
  ASSUME NEW line \in Seq(Byte), NEW c \in Byte
  PROVE  /\ line \o Mark(c) \in Seq(Byte) /\ Len(line) \in Nat
         /\ Len(line \o Mark(c)) = Len(line) + 2
         /\ \A i \in 1 .. Len(line) : (line \o Mark(c))[i] = line[i]
         /\ (line \o Mark(c))[Len(line) + 1] = "!"
         /\ (line \o Mark(c))[Len(line) + 2] = c
<1> DEFINE b == Mark(c)
<1>1. b \in Seq(Byte) /\ Len(b) = 2 /\ b[1] = "!" /\ b[2] = c
  BY MarkType
<1> HIDE DEF b
<1>2. /\ line \o b \in Seq(Byte) /\ Len(line) \in Nat /\ Len(line \o b) = Len(line) + Len(b)
      /\ \A i \in 1 .. Len(line) : (line \o b)[i] = line[i]
      /\ \A i \in 1 .. Len(b) : (line \o b)[Len(line) + i] = b[i]
  BY <1>1, Joined
<1>3. 1 \in 1 .. Len(b) /\ 2 \in 1 .. Len(b)
  BY <1>1
<1> QED
  BY <1>1, <1>2, <1>3 DEF b

\* A first mark opens a frame, behind nothing or among other bytes.
LEMMA OpensGrow ==
  ASSUME NEW line \in Seq(Byte), NEW l, NEW a \in Nat, a + 2 <= Len(line), Opens(line, a),
         \A i \in 1 .. Len(line) : l[i] = line[i]
  PROVE  Opens(l, a)
<1>1. a + 1 \in 1 .. Len(line) /\ a + 2 \in 1 .. Len(line)
  BY LenProperties
<1> QED
  BY <1>1 DEF Opens

LEMMA NoEndGrows ==
  ASSUME NEW line \in Seq(Byte), NEW a \in Nat, a + 2 <= Len(line), NoEnd(line, a),
         line[Len(line)] = "&"
  PROVE  /\ NoEnd(line \o Mark("&"), a)
         /\ (line \o Mark("&"))[Len(line \o Mark("&"))] = "&"
<1> DEFINE l == line \o Mark("&")
<1>1. /\ Len(line) \in Nat /\ Len(l) = Len(line) + 2
      /\ \A i \in 1 .. Len(line) : l[i] = line[i]
      /\ l[Len(line) + 1] = "!" /\ l[Len(line) + 2] = "&"
  BY MarkBehind DEF Byte
<1> HIDE DEF l
<1>2. ASSUME NEW i \in a + 1 .. Len(l) - 1
      PROVE  ~Closed(l, i - 1)
  <2>1. Closed(l, i - 1) <=> l[i] = "!" /\ l[i + 1] = "#"
    BY DEF Closed
  <2>2. CASE i < Len(line)
    <3>1. i \in a + 1 .. Len(line) - 1 /\ i \in 1 .. Len(line) /\ i + 1 \in 1 .. Len(line)
      BY <1>1, <2>2
    <3>2. ~(line[i] = "!" /\ line[i + 1] = "#")
      BY <3>1 DEF NoEnd, Closed
    <3> QED
      BY <1>1, <2>1, <3>1, <3>2
  <2>3. CASE i = Len(line)
    <3>1. l[i] = "&"
      BY <1>1, <2>3
    <3> QED
      BY <2>1, <3>1
  <2>4. CASE i = Len(line) + 1
    <3>1. l[i + 1] = "&"
      BY <1>1, <2>4
    <3> QED
      BY <2>1, <3>1
  <2> QED
    BY <1>1, <2>2, <2>3, <2>4
<1>3. l[Len(l)] = "&"
  BY <1>1
<1> QED
  BY <1>2, <1>3 DEF l, NoEnd

LEMMA BeginFacts ==
  ASSUME TypeOK, Sound, WrittenOK, NEW w \in Threads, Begin(w)
  PROVE  /\ Put(Mark("&")) /\ tx[w] = <<>> /\ w \in Writers[link]
         /\ turns => \A v \in Threads : tx[v] = <<>>
         /\ \E m \in Messages :
              /\ tx' = [tx EXCEPT ![w] = <<Struct(m), Mark("#")>>]
              /\ written' = Append(written, m)
              /\ written' \in Seq(Messages) /\ Len(written') = Len(written) + 1
              /\ \A k \in 1 .. Len(written) : written'[k] = written[k]
              /\ written'[Len(written) + 1] = m
         /\ UNCHANGED <<link, turns, rx, fault, taken, read>>
<1>1. PICK m \in Messages :
        /\ Put(Head(Calls(m)))
        /\ tx' = [tx EXCEPT ![w] = Tail(Calls(m))]
        /\ written' = Append(written, m)
  BY DEF Begin
<1>2. Head(Calls(m)) = Mark("&") /\ Tail(Calls(m)) = <<Struct(m), Mark("#")>>
  BY StructType, FrameCalls, LinkKinds
<1>3. /\ Append(written, m) \in Seq(Messages) /\ Len(Append(written, m)) = Len(written) + 1
      /\ \A k \in 1 .. Len(written) : Append(written, m)[k] = written[k]
      /\ Append(written, m)[Len(written) + 1] = m
  BY AppendProperties DEF WrittenOK
<1> QED
  BY <1>1, <1>2, <1>3 DEF Begin

\* What the threads have begun, when one more begins.
LEMMA BeginRest ==
  ASSUME TypeOK, Sound, WrittenOK, NEW w \in Threads, Begin(w),
         NEW line \in Seq(Byte), NEW n \in Nat, NEW a \in Nat, a <= Len(line), Rest(line, a, n)
  PROVE  Rest(line \o Mark("&"), a, n)'
<1> DEFINE l == line \o Mark("&")
<1>1. /\ l \in Seq(Byte) /\ Len(line) \in Nat /\ Len(l) = Len(line) + 2
      /\ \A i \in 1 .. Len(line) : l[i] = line[i]
      /\ l[Len(line) + 1] = "!" /\ l[Len(line) + 2] = "&"
  BY MarkBehind DEF Byte
<1>2. PICK m \in Messages :
        /\ tx' = [tx EXCEPT ![w] = <<Struct(m), Mark("#")>>]
        /\ Len(written') = Len(written) + 1
        /\ \A k \in 1 .. Len(written) : written'[k] = written[k]
        /\ written'[Len(written) + 1] = m
  BY BeginFacts
<1>3. /\ tx[w] = <<>> /\ w \in Writers[link] /\ (turns => \A v \in Threads : tx[v] = <<>>)
      /\ UNCHANGED <<link, turns>> /\ tx \in [Threads -> Seq(Seq(Byte))]
  BY BeginFacts DEF TypeOK
<1>4. Messages' = Messages /\ Width' = Width /\ Orderly' = Orderly /\ \A x : Struct(x)' = Struct(x)
  BY <1>3 DEF Messages, Width, Orderly, Struct, Unmarked, Closing
<1>5. Len(written) \in Nat
  BY WrittenType
<1> HIDE DEF l
<1>6. CASE Idle(line, a, n)
  <2>1. n = Len(written) /\ Len(line) = a /\ \A v \in Threads : tx[v] = <<>>
    BY <1>6 DEF Idle
  <2>2. /\ n + 1 = Len(written') /\ written'[n + 1] = m
        /\ Len(l) = a + 2 /\ Opens(l, a)
    BY <1>1, <1>2, <2>1 DEF Opens
  <2>3. tx'[w] = <<Struct(m), Mark("#")>> /\ \A v \in Threads \ {w} : tx'[v] = <<>>
    BY <1>2, <1>3, <2>1
  <2>4. Struct(written[n + 1])' = Struct(m)
    BY <1>4, <2>2
  <2>5. \E u \in Writers[link'] :
          /\ \A v \in Threads \ {u} : tx'[v] = <<>>
          /\ Len(l) = a + 2 /\ tx'[u] = <<Struct(written[n + 1])', Mark("#")>>
    BY <1>3, <2>2, <2>3, <2>4
  <2>6. InFrame(l, a, n)'
    BY <2>2, <2>5, <1>1 DEF InFrame
  <2> QED
    BY <2>6 DEF Rest, l
<1>7. CASE InFrame(line, a, n)
  <2>1. PICK u \in Writers[link] :
          /\ \A v \in Threads \ {u} : tx[v] = <<>>
          /\ \/ Len(line) = a + 2 /\ tx[u] = <<Struct(written[n + 1]), Mark("#")>>
             \/ Len(line) = a + Len(Struct(written[n + 1])) + 2 /\ tx[u] = <<Mark("#")>>
    BY <1>7 DEF InFrame
  <2>2. n + 1 = Len(written) /\ Len(line) >= a + 2 /\ Opens(line, a)
    BY <1>7 DEF InFrame
  <2>3. link \in AllLinks /\ u \in Threads
    BY FramingAssumption DEF FramingAssumption, TypeOK
  <2>a. tx[u] # <<>>
    BY <2>1, TwoCalls
  <2>4. u # w /\ ~turns /\ ~Orderly /\ ~Orderly'
    BY <1>3, <1>4, <2>a, <2>3 DEF Orderly
  <2>5. n < Len(written') /\ Opens(l, a)
    BY <1>1, <1>2, <1>5, <2>2, OpensGrow
  <2>6. written[n + 1] \in Messages /\ Len(Struct(written[n + 1])) = Width /\ Width \in Nat
    <3>1. n + 1 \in 1 .. Len(written)
      BY <1>5, <2>2
    <3>2. written[n + 1] \in Messages
      BY <3>1, WrittenType
    <3>3. link \in Lab /\ link # "ON-ON"
      BY <2>4, LinkKinds
    <3> QED
      BY <3>2, <3>3, StructType
  <2>7. CASE Len(line) = a + 2 /\ tx[u] = <<Struct(written[n + 1]), Mark("#")>>
    <3>1. NoEnd(line, a) /\ line[Len(line)] = "&"
      BY <2>2, <2>7 DEF NoEnd, Opens, Closed
    <3>2. NoEnd(l, a) /\ l[Len(l)] = "&"
      BY <2>2, <3>1, NoEndGrows DEF l
    <3>3. \A v \in Threads : tx'[v] = <<>> \/ \E x \in Messages : tx'[v] = <<Struct(x), Mark("#")>>
      BY <1>2, <1>3, <2>1, <2>6, <2>7
    <3>4. Begun(l, a, n)'
      BY <1>1, <1>4, <2>5, <2>7, <3>2, <3>3 DEF Begun
    <3> QED
      BY <2>4, <3>4 DEF Rest, l
  <2>8. CASE Len(line) = a + Len(Struct(written[n + 1])) + 2
    <3>1. Len(line) = a + Width + 2
      BY <2>6, <2>8
    <3>2. ~Closed(l, a + Width + 2) /\ Len(l) >= a + Width + 4
      BY <1>1, <3>1, <2>6 DEF Closed
    <3>3. Mixed(l, a, n)'
      BY <1>4, <2>5, <3>2 DEF Mixed
    <3> QED
      BY <2>4, <3>3 DEF Rest, l
  <2> QED
    BY <2>1, <2>7, <2>8
<1>8. CASE ~Orderly /\ Begun(line, a, n)
  <2>1. /\ n < Len(written) /\ Len(line) >= a + 4 /\ Opens(line, a)
        /\ NoEnd(line, a) /\ line[Len(line)] = "&"
        /\ \A v \in Threads : tx[v] = <<>> \/ \E x \in Messages : tx[v] = <<Struct(x), Mark("#")>>
    BY <1>8 DEF Begun
  <2>2. NoEnd(l, a) /\ l[Len(l)] = "&"
    BY <1>1, <2>1, NoEndGrows DEF l
  <2>a. Len(line) >= a + 2 /\ Len(l) >= a + 4 /\ n < Len(written')
    BY <1>1, <1>2, <1>5, <2>1
  <2>3. Opens(l, a)
    BY <1>1, <2>1, <2>a, OpensGrow
  <2>4. \A v \in Threads : tx'[v] = <<>> \/ \E x \in Messages : tx'[v] = <<Struct(x), Mark("#")>>
    BY <1>2, <1>3, <2>1
  <2>5. Begun(l, a, n)'
    BY <1>4, <2>2, <2>3, <2>4, <2>a DEF Begun
  <2> QED
    BY <1>4, <1>8, <2>5 DEF Rest, l
<1>9. CASE ~Orderly /\ Mixed(line, a, n)
  <2>1. n < Len(written) /\ Len(line) >= a + Width + 4 /\ Opens(line, a) /\ ~Closed(line, a + Width + 2)
    BY <1>9 DEF Mixed
  <2>2. Width \in Nat
    BY FramingAssumption DEF FramingAssumption, Width
  <2>a. Len(line) >= a + 2 /\ Len(l) >= a + Width + 4 /\ n < Len(written')
    BY <1>1, <1>2, <1>5, <2>1, <2>2
  <2>3. Opens(l, a)
    BY <1>1, <2>1, <2>a, OpensGrow
  <2>4. a + Width + 2 + 1 \in 1 .. Len(line) /\ a + Width + 2 + 2 \in 1 .. Len(line)
    BY <1>1, <2>1, <2>2
  <2>5. ~Closed(l, a + Width + 2)
    BY <1>1, <2>1, <2>4 DEF Closed
  <2>6. Mixed(l, a, n)'
    BY <1>4, <2>3, <2>5, <2>a DEF Mixed
  <2> QED
    BY <1>4, <1>9, <2>6 DEF Rest, l
<1> QED
  BY <1>6, <1>7, <1>8, <1>9 DEF Rest

LEMMA ContinueFacts ==
  ASSUME TypeOK, NEW w \in Threads, Continue(w)
  PROVE  /\ tx[w] # <<>> /\ Head(tx[w]) \in Seq(Byte) /\ Put(Head(tx[w]))
         /\ tx' = [tx EXCEPT ![w] = Tail(tx[w])]
         /\ UNCHANGED <<link, turns, rx, fault, written, taken, read>>
<1>1. tx[w] # <<>> /\ tx[w] \in Seq(Seq(Byte))
  BY DEF Continue, TypeOK
<1>2. Head(tx[w]) \in Seq(Byte)
  BY <1>1, HeadTailProperties
<1> QED
  BY <1>1, <1>2 DEF Continue

\* The structure between the marks, behind what is there.
LEMMA HoldsBehind ==
  ASSUME NEW line \in Seq(Byte), NEW s \in Seq(Byte), NEW a \in Nat, Len(line) = a + 2
  PROVE  Holds(line \o s, a, s)
<1>1. \A i \in 1 .. Len(s) : (line \o s)[Len(line) + i] = s[i]
  BY Joined
<1> QED
  BY <1>1 DEF Holds

LEMMA HoldsGrow ==
  ASSUME NEW line \in Seq(Byte), NEW l, NEW a \in Nat, NEW s \in Seq(Byte), a + Len(s) + 2 <= Len(line),
         Holds(line, a, s), \A i \in 1 .. Len(line) : l[i] = line[i]
  PROVE  Holds(l, a, s)
<1>1. Len(line) \in Nat /\ Len(s) \in Nat
  BY LenProperties
<1>2. \A i \in 1 .. Len(s) : a + 2 + i \in 1 .. Len(line)
  BY <1>1
<1> QED
  BY <1>2 DEF Holds

\* The last mark of a frame.
LEMMA FrameEnds ==
  ASSUME NEW line \in Seq(Byte), NEW a \in Nat, NEW s \in Seq(Byte), Len(line) = a + Len(s) + 2,
         Opens(line, a), Holds(line, a, s)
  PROVE  Framed(line \o Mark("#"), a, s) /\ Len(line \o Mark("#")) = a + Len(s) + 4
<1> DEFINE l == line \o Mark("#")
<1>1. /\ l \in Seq(Byte) /\ Len(line) \in Nat /\ Len(l) = Len(line) + 2
      /\ \A i \in 1 .. Len(line) : l[i] = line[i]
      /\ l[Len(line) + 1] = "!" /\ l[Len(line) + 2] = "#"
  BY MarkBehind DEF Byte
<1> HIDE DEF l
<1>2. Len(s) \in Nat
  BY LenProperties
<1>3. Opens(l, a)
  <2>1. a + 2 <= Len(line)
    BY <1>1, <1>2
  <2> QED
    BY <1>1, <2>1, OpensGrow
<1>4. Holds(l, a, s)
  <2>1. a + Len(s) + 2 <= Len(line)
    BY <1>1, <1>2
  <2> QED
    BY <1>1, <2>1, HoldsGrow
<1>5. Closed(l, a + Len(s) + 2)
  BY <1>1 DEF Closed
<1> QED
  BY <1>1, <1>2, <1>3, <1>4, <1>5 DEF Framed, l

\* First marks and one structure hold no last mark.
LEMMA NoEndBefore ==
  ASSUME NEW line \in Seq(Byte), NEW s \in Seq(Byte), NEW a \in Nat, NEW p \in Nat,
         NoEnd(line, a), Len(line) >= a + 4, line[Len(line)] = "&",
         \A i \in 1 .. Len(s) - 1 : ~(s[i] = "!" /\ s[i + 1] = "#"),
         p >= a, p + 2 <= Len(line) + Len(s)
  PROVE  ~Closed(line \o s, p)
<1> DEFINE l == line \o s
<1>1. /\ Len(line) \in Nat /\ Len(s) \in Nat /\ Len(l) = Len(line) + Len(s)
      /\ \A i \in 1 .. Len(line) : l[i] = line[i]
      /\ \A i \in 1 .. Len(s) : l[Len(line) + i] = s[i]
  BY Joined
<1> HIDE DEF l
<1>2. CASE p + 2 <= Len(line)
  <2>1. p + 1 \in a + 1 .. Len(line) - 1 /\ p + 1 \in 1 .. Len(line) /\ p + 2 \in 1 .. Len(line)
    BY <1>1, <1>2
  <2>2. ~Closed(line, (p + 1) - 1)
    BY <2>1 DEF NoEnd
  <2>3. (p + 1) - 1 = p
    OBVIOUS
  <2>4. ~(line[p + 1] = "!" /\ line[p + 2] = "#")
    BY <2>2, <2>3 DEF Closed
  <2> QED
    BY <1>1, <2>1, <2>4 DEF Closed, l
<1>3. CASE p + 1 = Len(line)
  <2>1. p + 1 \in 1 .. Len(line)
    BY <1>1, <1>3
  <2>2. l[p + 1] = "&"
    BY <1>1, <1>3, <2>1
  <2> QED
    BY <2>2 DEF Closed, l
<1>4. CASE p + 1 > Len(line)
  <2> DEFINE j == p + 1 - Len(line)
  <2>1. j \in 1 .. Len(s) - 1 /\ j \in 1 .. Len(s) /\ j + 1 \in 1 .. Len(s)
        /\ p + 1 = Len(line) + j /\ p + 2 = Len(line) + (j + 1)
    BY <1>1, <1>4
  <2> HIDE DEF j
  <2>2. l[p + 1] = s[j] /\ l[p + 2] = s[j + 1]
    BY <1>1, <2>1
  <2> QED
    BY <2>1, <2>2 DEF Closed, l
<1> QED
  BY <1>1, <1>2, <1>3, <1>4

\* A frame comes to its end.
Completes(line, l, a, n) ==
  /\ n + 1 = Len(written) /\ Framed(l, a, Struct(written[n + 1]))
  /\ Len(line) = a + Len(Struct(written[n + 1])) + 2
  /\ Len(l) = a + Len(Struct(written[n + 1])) + 4

LEMMA ContinueFrame ==
  ASSUME TypeOK, Sound, WrittenOK, NEW w \in Threads, Continue(w),
         NEW b \in Seq(Byte), b = Head(tx[w]),
         NEW line \in Seq(Byte), NEW n \in Nat, NEW a \in Nat, a <= Len(line), InFrame(line, a, n)
  PROVE  \/ InFrame(line \o b, a, n)'
         \/ Completes(line, line \o b, a, n) /\ \A v \in Threads : tx'[v] = <<>>
<1> DEFINE s == Struct(written[n + 1])
           l == line \o b
<1>1. n + 1 = Len(written) /\ Len(line) >= a + 2 /\ Opens(line, a)
  BY DEF InFrame
<1>2. PICK u \in Writers[link] :
        /\ \A v \in Threads \ {u} : tx[v] = <<>>
        /\ \/ Len(line) = a + 2 /\ tx[u] = <<s, Mark("#")>>
           \/ Len(line) = a + Len(s) + 2 /\ tx[u] = <<Mark("#")>> /\ Holds(line, a, s)
  BY DEF InFrame
<1>3. /\ tx[w] # <<>> /\ tx' = [tx EXCEPT ![w] = Tail(tx[w])]
      /\ UNCHANGED <<link, written>> /\ tx \in [Threads -> Seq(Seq(Byte))]
  BY ContinueFacts DEF TypeOK
<1>4. u = w
  BY <1>2, <1>3
<1>5. s \in Seq(Byte) /\ Len(s) \in Nat
  BY <1>1, WrittenType
<1>a. Struct(written[n + 1])' = s
  BY <1>3 DEF Struct
<1>6. /\ l \in Seq(Byte) /\ Len(line) \in Nat /\ Len(b) \in Nat /\ Len(l) = Len(line) + Len(b)
      /\ \A i \in 1 .. Len(line) : l[i] = line[i]
  BY <1>3, Joined
<1>7. Opens(l, a)
  BY <1>1, <1>6, OpensGrow
<1>8. CASE Len(line) = a + 2 /\ tx[w] = <<s, Mark("#")>>
  <2>1. b = s /\ Tail(tx[w]) = <<Mark("#")>>
    BY <1>8, TwoCalls
  <2>2. Holds(l, a, s) /\ Len(l) = a + Len(s) + 2
    BY <1>5, <1>6, <1>8, <2>1, HoldsBehind
  <2>3. tx'[w] = <<Mark("#")>> /\ \A v \in Threads \ {w} : tx'[v] = <<>>
    BY <1>2, <1>3, <1>4, <2>1
  <2>4. \E v \in Writers[link'] :
          /\ \A x \in Threads \ {v} : tx'[x] = <<>>
          /\ Len(l) = a + Len(s) + 2 /\ tx'[v] = <<Mark("#")>> /\ Holds(l, a, s)
    BY <1>3, <1>4, <2>2, <2>3
  <2>5. InFrame(l, a, n)'
    <3> HIDE DEF l, s
    <3>1. n + 1 = Len(written') /\ Len(l) >= a + 2
      BY <1>1, <1>3, <1>5, <2>2
    <3> QED
      BY <1>a, <1>7, <2>4, <3>1 DEF InFrame
  <2> QED
    BY <2>5
<1>9. CASE Len(line) = a + Len(s) + 2 /\ tx[w] = <<Mark("#")>> /\ Holds(line, a, s)
  <2>1. b = Mark("#") /\ Tail(tx[w]) = <<>>
    BY <1>9, TwoCalls
  <2>2. Framed(l, a, s) /\ Len(l) = a + Len(s) + 4
    BY <1>1, <1>5, <1>9, <2>1, FrameEnds
  <2>3. \A v \in Threads : tx'[v] = <<>>
    BY <1>2, <1>3, <1>4, <2>1
  <2> QED
    BY <1>1, <1>9, <2>2, <2>3 DEF Completes
<1> QED
  BY <1>2, <1>4, <1>8, <1>9

LEMMA ContinueMixed ==
  ASSUME TypeOK, Sound, WrittenOK, NEW w \in Threads, Continue(w),
         NEW b \in Seq(Byte), b = Head(tx[w]),
         NEW line \in Seq(Byte), NEW n \in Nat, NEW a \in Nat, a <= Len(line),
         ~Orderly, Begun(line, a, n) \/ Mixed(line, a, n)
  PROVE  Mixed(line \o b, a, n)'
<1> DEFINE l == line \o b
<1>1. tx[w] # <<>> /\ UNCHANGED <<link, written>>
  BY ContinueFacts
<1>2. /\ l \in Seq(Byte) /\ Len(line) \in Nat /\ Len(b) \in Nat /\ Len(l) = Len(line) + Len(b)
      /\ \A i \in 1 .. Len(line) : l[i] = line[i]
  BY <1>1, Joined
<1>3. Width' = Width /\ Width \in Nat
  BY <1>1, FramingAssumption DEF FramingAssumption, Width
<1>4. n < Len(written) /\ Len(line) >= a + 4 /\ Opens(line, a)
  BY <1>2, <1>3 DEF Begun, Mixed
<1>5. Opens(l, a)
  <2>1. Len(line) >= a + 2
    BY <1>2, <1>4
  <2> QED
    BY <1>2, <1>4, <2>1, OpensGrow
<1>6. Len(l) >= a + Width + 4 /\ ~Closed(l, a + Width + 2)
  <2>1. CASE Begun(line, a, n)
    <3>1. PICK m \in Messages : tx[w] = <<Struct(m), Mark("#")>>
      BY <1>1, <2>1 DEF Begun
    <3>2. b = Struct(m)
      BY <3>1, TwoCalls
    <3>3. Len(b) = Width /\ \A i \in 1 .. Len(b) - 1 : ~(b[i] = "!" /\ b[i + 1] = "#")
      BY <3>2, StructType, LinkKinds
    <3> HIDE DEF l
    <3>4. /\ Len(l) >= a + Width + 4
          /\ a + Width + 2 \in Nat /\ a + Width + 2 >= a /\ a + Width + 2 + 2 <= Len(line) + Len(b)
      BY <1>2, <1>3, <1>4, <3>3
    <3>5. NoEnd(line, a) /\ line[Len(line)] = "&"
      BY <2>1 DEF Begun
    <3>6. ~Closed(line \o b, a + Width + 2)
      BY <1>1, <1>4, <3>3, <3>4, <3>5, NoEndBefore
    <3> QED
      BY <3>4, <3>6 DEF l
  <2>2. CASE Mixed(line, a, n)
    <3>1. Len(line) >= a + Width + 4 /\ ~Closed(line, a + Width + 2)
      BY <2>2 DEF Mixed
    <3> HIDE DEF l
    <3>2. /\ (a + Width + 2) + 1 \in 1 .. Len(line) /\ (a + Width + 2) + 2 \in 1 .. Len(line)
          /\ Len(l) >= a + Width + 4
      <4>1. Len(line) \in Nat /\ Len(b) \in Nat /\ Len(l) = Len(line) + Len(b)
        BY <1>2
      <4>2. Len(line) >= a + Width + 4
        BY <3>1
      <4> QED
        BY <1>3, <4>1, <4>2
    <3> QED
      BY <1>2, <3>1, <3>2 DEF Closed
  <2> QED
    BY <2>1, <2>2
<1> QED
  BY <1>1, <1>3, <1>4, <1>5, <1>6 DEF Mixed

LEMMA CutFacts ==
  ASSUME NEW line \in Seq(Byte), NEW n \in Nat, NEW cut \in [0 .. n -> Nat], Whole(line, cut, n)
  PROVE  cut[n] \in Nat /\ cut[n] <= Len(line)
<1>1. n \in 0 .. n
  OBVIOUS
<1> QED
  BY <1>1 DEF Whole

LEMMA BeginInv ==
  ASSUME TypeOK, FrameInv, NEW w \in Threads, Begin(w)
  PROVE  FrameInv'
<1>1. UNCHANGED <<link, turns, read>>
  BY DEF Begin
<1> SUFFICES ASSUME Sound
    PROVE  /\ WrittenOK' /\ ReadOK'
           /\ \E line \in Seq(Byte), n \in Nat : \E cut \in [0 .. n -> Nat], c \in Nat :
                Line(line, n, cut, c)'
  BY <1>1 DEF FrameInv, Sound, Orderly
<1>2. WrittenOK /\ ReadOK
  BY DEF FrameInv
<1>3. PICK line \in Seq(Byte), n \in Nat : \E cut \in [0 .. n -> Nat], c \in Nat : Line(line, n, cut, c)
  BY DEF FrameInv
<1>4. PICK cut \in [0 .. n -> Nat], c \in Nat : Line(line, n, cut, c)
  BY <1>3
<1>5. /\ Put(Mark("&")) /\ written' \in Seq(Messages) /\ Len(written') = Len(written) + 1
      /\ \A k \in 1 .. Len(written) : written'[k] = written[k]
      /\ UNCHANGED <<link, turns, rx, fault, taken, read>>
  BY <1>2, BeginFacts
<1>6. Len(written) \in Nat /\ Len(written') \in Nat /\ Len(written) <= Len(written')
  BY <1>2, <1>5, WrittenType
<1> DEFINE l == line \o Mark("&")
<1>7. /\ l \in Seq(Byte) /\ Len(line) <= Len(l)
      /\ \A i \in 1 .. Len(line) : l[i] = line[i]
  BY MarkBehind DEF Byte
<1>8. Mark("&") \in Seq(Byte)
  BY MarkType DEF Byte
<1>9. Whole(l, cut, n)'
  <2> HIDE DEF l
  <2> QED
    BY <1>2, <1>4, <1>5, <1>6, <1>7, WholeStays DEF Line
<1>10. Rest(l, cut[n], n)'
  BY <1>2, <1>4, BeginRest, CutFacts DEF Line
<1>11. Reading(l, cut, n, c)'
  BY <1>2, <1>4, <1>5, <1>8, ReadingStays DEF Line
<1>12. WrittenOK' /\ ReadOK'
  <2>1. Messages' = Messages
    BY <1>1 DEF Messages, Unmarked, Closing
  <2>2. \A j \in 1 .. Len(written) : j \in 1 .. Len(written')
    BY <1>6
  <2> QED
    BY <1>1, <1>2, <1>5, <2>1, <2>2 DEF WrittenOK, ReadOK
<1>13. Line(l, n, cut, c)'
  BY <1>9, <1>10, <1>11 DEF Line
<1> QED
  BY <1>7, <1>12, <1>13

\* One frame more on the line.
LEMMA FrameAdded ==
  ASSUME TypeOK, Sound, WrittenOK,
         NEW line \in Seq(Byte), NEW n \in Nat, NEW cut \in [0 .. n -> Nat], NEW c \in Nat,
         Line(line, n, cut, c),
         NEW b \in Seq(Byte), Put(b), UNCHANGED <<link, turns, rx, fault, written, taken>>,
         Completes(line, line \o b, cut[n], n), \A v \in Threads : tx'[v] = <<>>
  PROVE  \E cut2 \in [0 .. n + 1 -> Nat] : Line(line \o b, n + 1, cut2, c)'
<1>1. PICK l \in Seq(Byte) : l = line \o b
  BY Joined
<1>2. /\ Len(line) \in Nat /\ Len(l) \in Nat /\ Len(line) <= Len(l)
      /\ \A i \in 1 .. Len(line) : l[i] = line[i]
  BY <1>1, Joined
<1>3. n + 1 = Len(written)
  BY DEF Completes
<1>4. n + 1 \in 1 .. Len(written) /\ Len(written) \in Nat
  BY <1>3
<1>5. PICK s \in Seq(Byte) : s = Struct(written[n + 1])
  BY <1>4, WrittenType
<1>6. /\ Framed(l, cut[n], s) /\ Len(line) = cut[n] + Len(s) + 2
      /\ Len(l) = cut[n] + Len(s) + 4 /\ Len(s) \in Nat /\ cut[n] \in Nat
  BY <1>1, <1>5, LenProperties DEF Completes
<1>a. /\ written' = written /\ link' = link
      /\ Len(written') \in Nat /\ Len(written) <= Len(written')
      /\ \A k \in 1 .. Len(written) : written'[k] = written[k]
  BY <1>4
<1>b. /\ Whole(l, cut, n)'
      /\ \A k : Struct(written[k])' = Struct(written[k])
  <2>1. Whole(line, cut, n)
    BY DEF Line
  <2>2. Whole(l, cut, n)'
    BY <1>2, <1>a, <2>1, WholeStays
  <2> QED
    BY <1>a, <2>2 DEF Struct
<1>c. Reading(l, cut, n, c)'
  BY <1>1, ReadingStays DEF Line
<1>d. PICK new \in [0 .. n + 1 -> Nat] :
        (\A k \in 0 .. n : new[k] = cut[k]) /\ new[n + 1] = cut[n] + Len(s) + 4
  <2> DEFINE new == [k \in 0 .. n + 1 |-> IF k <= n THEN cut[k] ELSE cut[n] + Len(s) + 4]
  <2>1. new \in [0 .. n + 1 -> Nat]
    BY <1>6
  <2>2. (\A k \in 0 .. n : new[k] = cut[k]) /\ new[n + 1] = cut[n] + Len(s) + 4
    OBVIOUS
  <2> HIDE DEF new
  <2> QED
    BY <2>1, <2>2
<1>7. Whole(l, new, n + 1)'
  <2>1. ASSUME NEW k \in 1 .. n + 1
        PROVE  /\ new[k] = new[k - 1] + Len(Struct(written[k])) + 4
               /\ Framed(l, new[k - 1], Struct(written[k]))
    <3>1. CASE k \in 1 .. n
      <4>1. k \in 0 .. n /\ k - 1 \in 0 .. n
        BY <3>1
      <4>2. new[k] = cut[k] /\ new[k - 1] = cut[k - 1]
        BY <1>d, <4>1
      <4>3. cut[k] = cut[k - 1] + Len(Struct(written[k])') + 4 /\ Framed(l, cut[k - 1], Struct(written[k])')
        BY <1>b, <3>1 DEF Whole
      <4> QED
        BY <1>b, <4>2, <4>3
    <3>2. CASE k = n + 1
      <4>1. n \in 0 .. n /\ k - 1 = n
        BY <3>2
      <4>2. new[k] = cut[n] + Len(s) + 4 /\ new[k - 1] = cut[n]
        BY <1>d, <3>2, <4>1
      <4>3. Struct(written[k]) = s
        BY <1>5, <3>2
      <4> QED
        BY <1>6, <4>2, <4>3
    <3>3. k \in 1 .. n \/ k = n + 1
      OBVIOUS
    <3> QED
      BY <3>1, <3>2, <3>3
  <2>2. ASSUME NEW k \in 0 .. n + 1
        PROVE  new[k] <= Len(l)
    <3>1. CASE k \in 0 .. n
      <4>1. cut[k] <= Len(l)
        BY <1>b, <3>1 DEF Whole
      <4> QED
        BY <1>d, <3>1, <4>1
    <3>2. CASE k = n + 1
      <4>1. new[k] = Len(l)
        BY <1>6, <1>d, <3>2
      <4> QED
        BY <1>6, <4>1
    <3>3. k \in 0 .. n \/ k = n + 1
      OBVIOUS
    <3> QED
      BY <3>1, <3>2, <3>3
  <2>3. new[0] = 0
    <3>1. 0 \in 0 .. n /\ cut[0] = 0
      BY <1>b DEF Whole
    <3> QED
      BY <1>d, <3>1
  <2>4. n + 1 \in 0 .. Len(written')
    BY <1>3
  <2>5. \A k \in 1 .. n + 1 :
          /\ new[k] = new[k - 1] + Len(Struct(written[k])') + 4
          /\ Framed(l, new[k - 1], Struct(written[k])')
    BY <1>b, <2>1
  <2> QED
    BY <2>2, <2>3, <2>4, <2>5 DEF Whole
<1>8. Rest(l, new[n + 1], n + 1)'
  <2>1. n + 1 = Len(written') /\ Len(l) = new[n + 1]
    BY <1>3, <1>6, <1>d
  <2> QED
    BY <2>1 DEF Rest, Idle
<1>9. Reading(l, new, n + 1, c)'
  <2>1. Place(l, cut, n, c)' /\ Place(line, cut, n, c)
    BY <1>c DEF Reading, Line
  <2>2. taken' \in 0 .. n /\ c \in 0 .. Len(line) /\ cut[taken'] \in Nat
    BY <2>1 DEF Place
  <2>3. new[taken'] = cut[taken'] /\ taken' \in 0 .. n + 1
    BY <1>d, <2>2
  <2>4. Place(l, new, n + 1, c)'
    BY <2>1, <2>3 DEF Place
  <2>5. ASSUME fault' = "none", taken' < n + 1
        PROVE  c - cut[taken'] <= Len(Struct(written[taken + 1])') + 3
    <3>1. CASE taken' < n
      BY <1>c, <2>5, <3>1 DEF Reading
    <3>2. CASE taken' = n
      <4>1. Struct(written[taken + 1])' = s
        BY <1>5, <1>a, <1>b, <3>2
      <4>2. c <= Len(line) /\ c \in Nat
        BY <1>2, <2>2
      <4>a. cut[taken'] = cut[n]
        BY <3>2
      <4>b. c <= cut[n] + Len(s) + 2 /\ cut[n] \in Nat /\ Len(s) \in Nat
        BY <1>6, <4>2
      <4>c. \A i, j, k \in Nat : i <= j + k + 2 => i - j <= k + 3
        OBVIOUS
      <4>3. c - cut[taken'] <= Len(s) + 3
        BY <4>2, <4>a, <4>b, <4>c
      <4> QED
        BY <4>1, <4>3
    <3> QED
      BY <2>2, <2>5, <3>1, <3>2
  <2>6. fault' = "none" => rx'.parts = <<>> /\ Outside(new[taken], c)' /\ Inside(l, new[taken], c)'
    BY <1>c, <2>3 DEF Reading, Outside, Inside
  <2> QED
    BY <2>3, <2>4, <2>5, <2>6 DEF Reading
<1>10. Line(l, n + 1, new, c)'
  BY <1>7, <1>8, <1>9 DEF Line
<1> QED
  BY <1>1, <1>10

LEMMA ContinueInv ==
  ASSUME TypeOK, FrameInv, NEW w \in Threads, Continue(w)
  PROVE  FrameInv'
<1>1. /\ tx[w] # <<>> /\ Head(tx[w]) \in Seq(Byte) /\ Put(Head(tx[w]))
      /\ UNCHANGED <<link, turns, rx, fault, written, taken, read>>
  BY ContinueFacts
<1> SUFFICES ASSUME Sound
    PROVE  /\ WrittenOK' /\ ReadOK'
           /\ \E line \in Seq(Byte), n \in Nat : \E cut \in [0 .. n -> Nat], c \in Nat :
                Line(line, n, cut, c)'
  BY <1>1 DEF FrameInv, Sound, Orderly
<1>2. WrittenOK /\ ReadOK
  BY DEF FrameInv
<1>3. PICK line \in Seq(Byte), n \in Nat : \E cut \in [0 .. n -> Nat], c \in Nat : Line(line, n, cut, c)
  BY DEF FrameInv
<1>4. PICK cut \in [0 .. n -> Nat], c \in Nat : Line(line, n, cut, c)
  BY <1>3
<1>5. PICK b \in Seq(Byte) : b = Head(tx[w])
  BY <1>1
<1>6. WrittenOK' /\ ReadOK'
  <2>1. Messages' = Messages
    BY <1>1 DEF Messages, Unmarked, Closing
  <2> QED
    BY <1>1, <1>2, <2>1 DEF WrittenOK, ReadOK
<1>7. line \o b \in Seq(Byte)
  BY Joined
<1>8. CASE Completes(line, line \o b, cut[n], n) /\ \A v \in Threads : tx'[v] = <<>>
  <2>1. PICK cut2 \in [0 .. n + 1 -> Nat] : Line(line \o b, n + 1, cut2, c)'
    BY <1>1, <1>2, <1>4, <1>5, <1>8, FrameAdded
  <2>2. n + 1 \in Nat
    OBVIOUS
  <2> QED
    BY <1>6, <1>7, <2>1, <2>2
<1>9. CASE Rest(line \o b, cut[n], n)'
  <2>1. /\ Len(line) <= Len(line \o b) /\ Len(written) \in Nat
        /\ \A i \in 1 .. Len(line) : (line \o b)[i] = line[i]
    BY <1>2, Joined, WrittenType
  <2>2. Whole(line \o b, cut, n)'
    <3>1. PICK l \in Seq(Byte) : l = line \o b
      BY <1>7
    <3>2. Whole(line, cut, n) /\ link' = link /\ written' = written
      BY <1>1, <1>4 DEF Line
    <3>3. Len(written') \in Nat /\ Len(written) <= Len(written')
          /\ \A k \in 1 .. Len(written) : written'[k] = written[k]
      BY <2>1, <3>2
    <3>4. Whole(l, cut, n)'
      BY <1>2, <2>1, <3>1, <3>2, <3>3, WholeStays
    <3> QED
      BY <3>1, <3>4
  <2>3. Reading(line \o b, cut, n, c)'
    BY <1>1, <1>2, <1>4, <1>5, ReadingStays DEF Line
  <2>4. Line(line \o b, n, cut, c)'
    BY <1>9, <2>2, <2>3 DEF Line
  <2> QED
    BY <1>6, <1>7, <2>4
<1>10. cut[n] \in Nat /\ cut[n] <= Len(line) /\ Rest(line, cut[n], n)
  BY <1>4, CutFacts DEF Line
<1>11. ~Idle(line, cut[n], n)
  BY <1>1 DEF Idle
<1>12. CASE InFrame(line, cut[n], n)
  BY <1>2, <1>5, <1>8, <1>9, <1>10, <1>12, ContinueFrame DEF Rest
<1>13. CASE ~Orderly /\ (Begun(line, cut[n], n) \/ Mixed(line, cut[n], n))
  <2>1. Mixed(line \o b, cut[n], n)' /\ ~Orderly'
    BY <1>1, <1>2, <1>5, <1>10, <1>13, ContinueMixed DEF Orderly
  <2> QED
    BY <1>9, <2>1 DEF Rest
<1> QED
  BY <1>10, <1>11, <1>12, <1>13 DEF Rest

-----------------------------------------------------------------------------
(* The reader takes a byte.                                                *)

LEMMA PlaceInFrame ==
  ASSUME NEW a \in Nat, NEW c \in Nat, NEW k \in Nat, c >= a + 3, c <= a + k + 3, c # a + k + 3
  PROVE  c - a - 2 \in 1 .. k /\ c = a + 2 + (c - a - 2)
OBVIOUS

LEMMA EndOfFrame ==
  ASSUME NEW line \in Seq(Byte), NEW a \in Nat, NEW s \in Seq(Byte), NEW c \in Nat,
         Framed(line, a, s), \A i \in 1 .. Len(s) - 1 : ~(s[i] = "!" /\ s[i + 1] = "#"),
         c >= a + 3, c <= a + Len(s) + 3, line[c] = "!", line[c + 1] = "#"
  PROVE  c = a + Len(s) + 3
<1> SUFFICES ASSUME c # a + Len(s) + 3 PROVE FALSE
  OBVIOUS
<1>1. Len(s) \in Nat
  BY LenProperties
<1>2. PICK i \in 1 .. Len(s) : c = a + 2 + i
  <2>1. c - a - 2 \in 1 .. Len(s) /\ c = a + 2 + (c - a - 2)
    BY <1>1, PlaceInFrame, Zenon
  <2> QED
    BY <2>1
<1>3. s[i] = "!"
  BY <1>2 DEF Framed, Holds
<1>4. CASE i < Len(s)
  <2>1. i + 1 \in 1 .. Len(s) /\ i \in 1 .. Len(s) - 1 /\ c + 1 = a + 2 + (i + 1)
    BY <1>1, <1>2, <1>4
  <2>2. s[i + 1] = "#"
    BY <2>1 DEF Framed, Holds
  <2> QED
    BY <1>3, <2>1, <2>2
<1>5. CASE i = Len(s)
  <2>1. c + 1 = (a + Len(s) + 2) + 1
    BY <1>1, <1>2, <1>5
  <2>2. line[c + 1] = "!"
    BY <2>1 DEF Framed, Closed
  <2> QED
    BY <2>2
<1> QED
  BY <1>1, <1>4, <1>5

LEMMA NextByte ==
  ASSUME TypeOK, Reads, NEW line \in Seq(Byte), NEW n \in Nat, NEW cut \in [0 .. n -> Nat], NEW c \in Nat,
         Place(line, cut, n, c)
  PROVE  /\ c + 1 \in 1 .. Len(line) /\ Len(line) \in Nat /\ byte = line[c + 1]
         /\ taken \in 0 .. n /\ cut[taken] \in Nat /\ cut[taken] <= c
         /\ taken' \in 0 .. n /\ cut[taken'] <= c + 1 => Place(line, cut, n, c + 1)'
<1>1. /\ c \in 0 .. Len(line) /\ Len(stream) = Len(line) - c
      /\ \A i \in 1 .. Len(stream) : stream[i] = line[c + i]
      /\ taken \in 0 .. n /\ cut[taken] <= c
  BY DEF Place
<1>2. /\ Len(stream) \in Nat \ {0} /\ byte = stream[1]
      /\ Len(stream') = Len(stream) - 1
      /\ \A i \in 1 .. Len(stream') : stream'[i] = stream[i + 1]
  BY ReadsType
<1>3. Len(line) \in Nat /\ c + 1 \in 1 .. Len(line) /\ 1 \in 1 .. Len(stream)
  BY <1>1, <1>2, LenProperties
<1>4. ASSUME NEW i \in 1 .. Len(stream')
      PROVE  stream'[i] = line[(c + 1) + i]
  <2>1. i + 1 \in 1 .. Len(stream) /\ c + (i + 1) = (c + 1) + i
    BY <1>2
  <2> QED
    BY <1>1, <1>2, <2>1
<1>5. c + 1 \in 0 .. Len(line) /\ Len(stream') = Len(line) - (c + 1)
  BY <1>1, <1>2, <1>3
<1> QED
  BY <1>1, <1>2, <1>3, <1>4, <1>5 DEF Place

\* Where there is something to read there is a frame that opens.
LEMMA FrameOpens ==
  ASSUME Sound, NEW line \in Seq(Byte), NEW n \in Nat, NEW cut \in [0 .. n -> Nat], NEW c \in Nat,
         Line(line, n, cut, c), c < Len(line)
  PROVE  Opens(line, cut[taken])
<1>1. taken \in 0 .. n /\ cut[taken] <= c
  BY DEF Line, Reading, Place
<1>2. CASE taken < n
  <2>1. taken + 1 \in 1 .. n /\ (taken + 1) - 1 = taken
    BY <1>1, <1>2
  <2>2. Framed(line, cut[taken], Struct(written[taken + 1]))
    BY <2>1 DEF Line, Whole
  <2> QED
    BY <2>2 DEF Framed
<1>3. CASE taken = n
  <2>1. Len(line) # cut[n]
    BY <1>1, <1>3, LenProperties
  <2> QED
    BY <1>3, <2>1 DEF Line, Rest, Idle, InFrame, Begun, Mixed
<1> QED
  BY <1>1, <1>2, <1>3

\* The frame that the reader is in, if it is a whole one.
LEMMA WholeFrame ==
  ASSUME Sound, WrittenOK, NEW line \in Seq(Byte), NEW n \in Nat, NEW cut \in [0 .. n -> Nat],
         Whole(line, cut, n), taken \in 0 .. n, taken < n
  PROVE  /\ taken + 1 \in 1 .. Len(written) /\ written[taken + 1] \in Messages
         /\ Struct(written[taken + 1]) \in Seq(Byte) /\ Len(Struct(written[taken + 1])) \in Nat
         /\ cut[taken + 1] = cut[taken] + Len(Struct(written[taken + 1])) + 4
         /\ Framed(line, cut[taken], Struct(written[taken + 1]))
<1>1. n \in 0 .. Len(written) /\ Len(written) \in Nat
  BY WrittenType DEF Whole
<1>2. taken + 1 \in 1 .. Len(written) /\ taken + 1 \in 1 .. n /\ (taken + 1) - 1 = taken
  BY <1>1
<1>3. /\ cut[taken + 1] = cut[taken] + Len(Struct(written[taken + 1])) + 4
      /\ Framed(line, cut[taken], Struct(written[taken + 1]))
  BY <1>2 DEF Whole
<1> QED
  BY <1>2, <1>3, WrittenType

LEMMA LabCloses ==
  ASSUME Sound, rx.parts = <<>>
  PROVE  Part = 1 /\ (Closes <=> rx.state = "STOP1" /\ byte = "#")
<1>1. link \in Lab
  BY LinkKinds
<1>2. Part = 1
  BY DEF Part
<1> QED
  BY <1>1, <1>2 DEF Closes, Closing, Lab

\* What the reader has when it meets a last mark.
LEMMA WhatCloses ==
  ASSUME TypeOK, Sound, WrittenOK, Reads, Closes,
         NEW line \in Seq(Byte), NEW n \in Nat, NEW cut \in [0 .. n -> Nat], NEW c \in Nat,
         Line(line, n, cut, c)
  PROVE  \/ /\ taken < n /\ Body = Struct(written[taken + 1])
            /\ c + 1 = cut[taken + 1] /\ Len(rx.buf) = Len(Struct(written[taken + 1])) + 1
         \/ link \in Checked /\ Len(Body) # Width
<1>1. PICK a \in Nat : a = cut[taken]
  BY DEF Line, Reading, Place
<1>2. /\ c + 1 \in 1 .. Len(line) /\ Len(line) \in Nat /\ byte = line[c + 1]
      /\ taken \in 0 .. n /\ a <= c
  BY <1>1, NextByte DEF Line, Reading
<1>3. /\ fault = "none" /\ rx.parts = <<>> /\ Inside(line, a, c)
      /\ taken < n => c - a <= Len(Struct(written[taken + 1])) + 3
  BY <1>1 DEF Line, Reading, Reads
<1>4. rx.state = "STOP1" /\ byte = "#"
  BY <1>3, LabCloses
<1>5. /\ c >= a + 3 /\ line[c] = "!" /\ Len(rx.buf) = c - a - 2
      /\ \A i \in 1 .. Len(rx.buf) : rx.buf[i] = line[a + 2 + i]
  BY <1>3, <1>4 DEF Inside
<1>6. line[c + 1] = "#"
  BY <1>2, <1>4
<1>7. rx.buf \in Seq(Byte)
  BY BufferType
<1>8. /\ Body \in Seq(Byte) /\ Len(Body) = c - a - 3
      /\ \A i \in 1 .. Len(Body) : Body[i] = line[a + 2 + i]
  <2>1. PICK m \in Nat : m = c - a - 3
    BY <1>2, <1>5
  <2>2. Len(rx.buf) = m + 1 /\ Len(rx.buf) - 1 = m
    BY <1>2, <1>5, <2>1
  <2>3. /\ SubSeq(rx.buf, 1, m) \in Seq(Byte) /\ Len(SubSeq(rx.buf, 1, m)) = m
        /\ \A i \in 1 .. m : SubSeq(rx.buf, 1, m)[i] = rx.buf[i]
    BY <1>7, <2>2, SubSeqProperties
  <2>4. Body = SubSeq(rx.buf, 1, m)
    BY <2>2 DEF Body
  <2>5. \A i \in 1 .. m : rx.buf[i] = line[a + 2 + i]
    BY <1>5, <2>2
  <2> QED
    BY <2>1, <2>3, <2>4, <2>5
<1>9. CASE taken < n
  <2>1. PICK s \in Seq(Byte) : s = Struct(written[taken + 1])
    BY <1>2, <1>9, WholeFrame DEF Line
  <2>2. Framed(line, a, s) /\ cut[taken + 1] = a + Len(s) + 4 /\ written[taken + 1] \in Messages
    BY <1>1, <1>2, <1>9, <2>1, WholeFrame DEF Line
  <2>3. \A i \in 1 .. Len(s) - 1 : ~(s[i] = "!" /\ s[i + 1] = "#")
    BY <2>1, <2>2, StructType, LinkKinds
  <2>4. Len(s) \in Nat /\ c <= a + Len(s) + 3
    BY <1>2, <1>3, <1>9, <2>1, LenProperties
  <2>5. c = a + Len(s) + 3
    BY <1>2, <1>5, <1>6, <2>2, <2>3, <2>4, EndOfFrame
  <2>a. \A i, j \in Nat : (i + j + 3) - i - 3 = j /\ (i + j + 3) - i - 2 = j + 1 /\ (i + j + 3) + 1 = i + j + 4
    OBVIOUS
  <2>b. Len(Body) = (a + Len(s) + 3) - a - 3 /\ Len(rx.buf) = (a + Len(s) + 3) - a - 2
    BY <1>5, <1>8, <2>5
  <2>6. Len(Body) = Len(s) /\ Len(rx.buf) = Len(s) + 1 /\ c + 1 = a + Len(s) + 4
    BY <2>4, <2>5, <2>a, <2>b
  <2>7. \A i \in 1 .. Len(s) : Body[i] = s[i]
    BY <1>8, <2>2, <2>6 DEF Framed, Holds
  <2>8. Body = s
    BY <1>8, <2>6, <2>7, SeqEqual
  <2> QED
    BY <1>9, <2>1, <2>2, <2>6, <2>8
<1>10. CASE taken = n
  <2>1. Rest(line, a, n)
    BY <1>1, <1>10 DEF Line
  <2>2. ~Idle(line, a, n)
    BY <1>2, <1>5 DEF Idle
  <2>3. ~InFrame(line, a, n)
    <3> SUFFICES ASSUME InFrame(line, a, n) PROVE FALSE
      OBVIOUS
    <3>1. n + 1 = Len(written)
      BY DEF InFrame
    <3>2. n + 1 \in 1 .. Len(written)
      BY <3>1
    <3>3. PICK s \in Seq(Byte) : s = Struct(written[n + 1])
      BY <3>2, WrittenType
    <3>4. Len(s) \in Nat /\ \A i \in 1 .. Len(s) - 1 : ~(s[i] = "!" /\ s[i + 1] = "#")
      BY <3>2, <3>3, WrittenType, StructType, LinkKinds
    <3>5. Len(line) = a + 2 \/ (Len(line) = a + Len(s) + 2 /\ Holds(line, a, s))
      BY <3>3 DEF InFrame
    <3>6. Len(line) = a + Len(s) + 2 /\ Holds(line, a, s)
      BY <1>2, <1>5, <3>5
    <3>7. PICK i \in 1 .. Len(s) - 1 : c = a + 2 + i /\ c + 1 = a + 2 + (i + 1) /\ i + 1 \in 1 .. Len(s)
                                       /\ i \in 1 .. Len(s)
      <4>a. c + 1 <= a + Len(s) + 2
        BY <1>2, <3>6
      <4>b. \A k \in Nat : c + 1 <= a + k + 2 =>
              /\ c - a - 2 \in 1 .. k - 1 /\ c = a + 2 + (c - a - 2)
              /\ c + 1 = a + 2 + ((c - a - 2) + 1) /\ (c - a - 2) + 1 \in 1 .. k
              /\ c - a - 2 \in 1 .. k
        BY <1>5
      <4>1. /\ c - a - 2 \in 1 .. Len(s) - 1 /\ c = a + 2 + (c - a - 2)
            /\ c + 1 = a + 2 + ((c - a - 2) + 1) /\ (c - a - 2) + 1 \in 1 .. Len(s)
            /\ c - a - 2 \in 1 .. Len(s)
        BY <3>4, <4>a, <4>b
      <4> QED
        BY <4>1
    <3>8. s[i] = line[c] /\ s[i + 1] = line[c + 1]
      BY <3>6, <3>7 DEF Holds
    <3> QED
      BY <1>5, <1>6, <3>4, <3>7, <3>8
  <2>4. ~Begun(line, a, n)
    <3>1. c \in a + 1 .. Len(line) - 1 /\ (c - 1) + 1 = c /\ (c - 1) + 2 = c + 1
      BY <1>2, <1>5
    <3>2. Closed(line, c - 1)
      BY <1>5, <1>6, <3>1 DEF Closed
    <3> QED
      BY <3>1, <3>2 DEF Begun, NoEnd
  <2>5. ~Orderly /\ Mixed(line, a, n)
    BY <2>1, <2>2, <2>3, <2>4 DEF Rest
  <2>6. link \in Checked
    BY <2>5, LinkKinds
  <2>7. Len(Body) # Width
    <3> SUFFICES ASSUME Len(Body) = Width PROVE FALSE
      OBVIOUS
    <3>1. Width \in Nat
      BY FramingAssumption DEF FramingAssumption, Width
    <3>a. \A k \in Nat : k = c - a - 3 => c = (a + k + 2) + 1 /\ c + 1 = (a + k + 2) + 2
      OBVIOUS
    <3>2. c = (a + Width + 2) + 1 /\ c + 1 = (a + Width + 2) + 2
      BY <1>8, <3>1, <3>a
    <3>3. Closed(line, a + Width + 2)
      BY <1>5, <1>6, <3>2 DEF Closed
    <3> QED
      BY <2>5, <3>3 DEF Mixed
  <2> QED
    BY <2>6, <2>7
<1> QED
  BY <1>2, <1>9, <1>10

\* Inside a whole frame the reader comes to its last mark, and not behind it.
LEMMA NotBehind ==
  ASSUME TypeOK, Sound, WrittenOK, Reads, ~Closes,
         NEW line \in Seq(Byte), NEW n \in Nat, NEW cut \in [0 .. n -> Nat], NEW c \in Nat,
         Line(line, n, cut, c), taken < n, rx.state \in {"START1", "START2", "RECV", "STOP1"}
  PROVE  c + 1 - cut[taken] <= Len(Struct(written[taken + 1])) + 3
<1>1. PICK a \in Nat : a = cut[taken]
  BY DEF Line, Reading, Place
<1>2. /\ c + 1 \in 1 .. Len(line) /\ Len(line) \in Nat /\ byte = line[c + 1]
      /\ taken \in 0 .. n /\ a <= c
  BY <1>1, NextByte DEF Line, Reading
<1>3. PICK s \in Seq(Byte) : s = Struct(written[taken + 1])
  BY <1>2, WholeFrame DEF Line
<1>4. Framed(line, a, s) /\ Len(s) \in Nat
  BY <1>1, <1>2, <1>3, WholeFrame DEF Line
<1>5. /\ fault = "none" /\ rx.parts = <<>> /\ Inside(line, a, c) /\ Outside(a, c)
      /\ c - a <= Len(s) + 3
  BY <1>1, <1>3 DEF Line, Reading, Reads
<1>a. \A k \in Nat : c - a = k + 3 => c >= a + 3 /\ c = (a + k + 2) + 1 /\ c + 1 = (a + k + 2) + 2
  OBVIOUS
<1>6. c - a # Len(s) + 3
  <2> SUFFICES ASSUME c - a = Len(s) + 3 PROVE FALSE
    OBVIOUS
  <2>1. c >= a + 3 /\ c = (a + Len(s) + 2) + 1 /\ c + 1 = (a + Len(s) + 2) + 2
    BY <1>4, <1>a
  <2>2. line[c] = "!" /\ line[c + 1] = "#"
    BY <1>4, <2>1 DEF Framed, Closed
  <2>3. rx.state \in {"RECV", "STOP1"}
    BY <1>5, <2>1 DEF Outside
  <2>4. rx.state = "STOP1" /\ byte = "#"
    BY <1>2, <1>5, <2>1, <2>2, <2>3 DEF Inside
  <2> QED
    BY <1>5, <2>4, LabCloses
<1>7. \A k \in Nat : c - a <= k + 3 /\ c - a # k + 3 => c + 1 - a <= k + 3
  OBVIOUS
<1> QED
  BY <1>1, <1>3, <1>4, <1>5, <1>6, <1>7

\* The automaton goes on.
LEMMA ScanReading ==
  ASSUME TypeOK, Sound, WrittenOK, NEW start, Scan(start),
         NEW line \in Seq(Byte), NEW n \in Nat, NEW cut \in [0 .. n -> Nat], NEW c \in Nat,
         Line(line, n, cut, c)
  PROVE  Reading(line, cut, n, c + 1)' /\ UNCHANGED <<taken, read>>
<1>1. Reads /\ ~Closes /\ UNCHANGED <<taken, read>>
  BY DEF Scan
<1>2. PICK a \in Nat : a = cut[taken]
  BY DEF Line, Reading, Place
<1>3. /\ c + 1 \in 1 .. Len(line) /\ Len(line) \in Nat /\ byte = line[c + 1]
      /\ taken \in 0 .. n /\ a <= c
  BY <1>1, <1>2, NextByte DEF Line, Reading
<1>4. Place(line, cut, n, c + 1)'
  <2>1. Place(line, cut, n, c)
    BY DEF Line, Reading
  <2>2. taken' \in 0 .. n /\ cut[taken'] <= c + 1
    BY <1>1, <1>2, <1>3
  <2> QED
    BY <1>1, <2>1, <2>2, NextByte
<1>5. /\ fault = "none" /\ rx.parts = <<>> /\ Inside(line, a, c) /\ Outside(a, c)
  BY <1>1, <1>2 DEF Line, Reading, Reads
<1>6. rx \in Rx /\ rx.buf \in Seq(Byte) /\ byte \in Byte
  BY <1>1, BufferType, ReadsType
<1>7. taken' = taken /\ (taken < n => written'[taken' + 1] = written[taken + 1])
  BY <1>1, ReadsType
<1>8. \A m : Struct(m)' = Struct(m)
  BY <1>1, ReadsType DEF Struct
<1>9. taken' < n => c + 1 - cut[taken'] <= Len(Struct(written[taken + 1])') + 3
  <2>1. rx.state \in {"START1", "START2", "RECV", "STOP1"}
    BY <1>6 DEF Rx
  <2>2. taken < n => c + 1 - cut[taken] <= Len(Struct(written[taken + 1])) + 3
    BY <1>1, <2>1, NotBehind
  <2>3. taken < n => Struct(written[taken + 1])' = Struct(written[taken + 1])
    BY <1>7, <1>8
  <2> QED
    BY <1>7, <2>2, <2>3, SMTT(20)
<1>10. Opens(line, a)
  BY <1>2, <1>3, FrameOpens
<1>11. fault' = "none" => /\ rx'.parts = <<>> /\ Outside(a, c + 1)' /\ Inside(line, a, c + 1)'
  <2> SUFFICES ASSUME fault' = "none"
      PROVE  rx'.parts = <<>> /\ Outside(a, c + 1)' /\ Inside(line, a, c + 1)'
    OBVIOUS
  <2>1. CASE rx.state = "START1"
    <3>1. c = a /\ rx.buf = <<>> /\ byte = "!"
      BY <1>3, <1>5, <1>10, <2>1 DEF Outside, Opens
    <3>2. rx' = [rx EXCEPT !.state = "START2"]
      BY <2>1, <3>1 DEF Scan, Next1
    <3> QED
      BY <1>5, <1>6, <3>1, <3>2 DEF Outside, Inside, Rx
  <2>2. CASE rx.state = "START2"
    <3>1. c = a + 1 /\ rx.buf = <<>> /\ byte = "&"
      <4>1. c = a + 1 /\ rx.buf = <<>>
        BY <1>5, <2>2 DEF Outside
      <4>2. c + 1 = a + 2
        BY <4>1
      <4> QED
        BY <1>3, <1>10, <4>1, <4>2 DEF Opens
    <3>2. rx' = [rx EXCEPT !.state = "RECV"]
      BY <2>2, <3>1 DEF Scan, Next2
    <3>3. rx'.state = "RECV" /\ rx'.buf = <<>> /\ rx'.parts = <<>>
      BY <1>5, <1>6, <3>1, <3>2 DEF Rx
    <3>4. c + 1 = a + 2 /\ Len(<<>>) = 0
      BY <3>1
    <3> QED
      BY <3>3, <3>4 DEF Outside, Inside
  <2>3. CASE rx.state \in {"RECV", "STOP1"}
    <3>1. /\ c >= a + 2 /\ Len(rx.buf) = c - a - 2
          /\ \A i \in 1 .. Len(rx.buf) : rx.buf[i] = line[a + 2 + i]
      BY <1>5, <2>3 DEF Inside
    <3>2. fault' # "overrun"
      OBVIOUS
    <3>3. rx' = [rx EXCEPT !.state = InPart, !.buf = Append(rx.buf, byte)]
      BY <2>3, <3>2 DEF Scan
    <3>4. /\ rx'.state = InPart /\ rx'.buf = Append(rx.buf, byte) /\ rx'.parts = <<>>
      BY <1>5, <1>6, <3>3 DEF Rx
    <3>5. PICK k \in Nat : k = Len(rx.buf)
      BY <1>6, LenProperties
    <3>6. c = a + 2 + k /\ c + 1 = a + 2 + (k + 1) /\ c + 1 >= a + 3 /\ (c + 1) - a - 2 = k + 1
      BY <3>1, <3>5
    <3>7. /\ Len(rx'.buf) = k + 1
          /\ \A i \in 1 .. k : rx'.buf[i] = rx.buf[i]
          /\ rx'.buf[k + 1] = byte
      BY <1>6, <3>4, <3>5, AppendProperties
    <3>8. ASSUME NEW i \in 1 .. k + 1
          PROVE  rx'.buf[i] = line[a + 2 + i]
      <4>1. CASE i \in 1 .. k
        BY <3>1, <3>5, <3>7, <4>1
      <4>2. CASE i = k + 1
        BY <1>3, <3>6, <3>7, <4>2
      <4> QED
        BY <4>1, <4>2
    <3>9. rx'.state = "STOP1" <=> line[c + 1] = "!"
      BY <1>3, <3>4 DEF InPart
    <3>10. rx'.state \in {"RECV", "STOP1"} /\ Inside(line, a, c + 1)'
      <4>1. rx'.state \in {"RECV", "STOP1"}
        BY <3>4 DEF InPart
      <4>2. c + 1 >= a + 2
        BY <3>6
      <4> QED
        BY <3>6, <3>7, <3>8, <3>9, <4>1, <4>2 DEF Inside
    <3> QED
      BY <3>4, <3>10 DEF Outside
  <2> QED
    BY <1>6, <2>1, <2>2, <2>3 DEF Rx
<1> QED
  BY <1>1, <1>2, <1>4, <1>7, <1>9, <1>11 DEF Reading

\* The reader takes a whole frame.
LEMMA TakeReading ==
  ASSUME TypeOK, Sound, WrittenOK, Reads,
         NEW line \in Seq(Byte), NEW n \in Nat, NEW cut \in [0 .. n -> Nat], NEW c \in Nat,
         Line(line, n, cut, c), taken < n, c + 1 = cut[taken + 1],
         rx' = Fresh, taken' = taken + 1, UNCHANGED fault
  PROVE  Reading(line, cut, n, c + 1)'
<1>1. taken \in 0 .. n /\ taken' \in 0 .. n /\ cut[taken'] = c + 1 /\ cut[taken'] \in Nat
  BY DEF Line, Reading, Place
<1>2. Place(line, cut, n, c + 1)'
  BY <1>1, NextByte DEF Line, Reading
<1>3. rx'.parts = <<>> /\ Outside(cut[taken], c + 1)' /\ Inside(line, cut[taken], c + 1)'
  BY <1>1 DEF Fresh, Outside, Inside
<1>4. taken' < n => c + 1 - cut[taken'] <= Len(Struct(written[taken + 1])') + 3
  <2> SUFFICES ASSUME taken' < n
      PROVE  c + 1 - cut[taken'] <= Len(Struct(written[taken + 1])') + 3
    OBVIOUS
  <2>1. written' = written /\ link' = link /\ n \in 0 .. Len(written) /\ Len(written) \in Nat
    BY ReadsType, WrittenType DEF Line, Whole
  <2>2. taken' + 1 \in 1 .. Len(written)
    BY <1>1, <2>1
  <2>3. Len(Struct(written[taken' + 1])) \in Nat
    BY <2>2, WrittenType
  <2>4. Struct(written[taken + 1])' = Struct(written[taken' + 1])
    BY <2>1 DEF Struct
  <2> QED
    BY <1>1, <2>3, <2>4
<1> QED
  BY <1>2, <1>3, <1>4 DEF Reading

\* The reader stops.
LEMMA AbortReading ==
  ASSUME TypeOK, Reads, Abort,
         NEW line \in Seq(Byte), NEW n \in Nat, NEW cut \in [0 .. n -> Nat], NEW c \in Nat,
         Line(line, n, cut, c)
  PROVE  Reading(line, cut, n, c + 1)' /\ UNCHANGED <<taken, read>>
<1>1. taken \in 0 .. n /\ cut[taken] <= c + 1 /\ UNCHANGED <<taken, read>> /\ fault' # "none"
  BY DEF Line, Reading, Place, Abort
<1>2. Place(line, cut, n, c + 1)'
  BY <1>1, NextByte DEF Line, Reading
<1> QED
  BY <1>1, <1>2 DEF Reading

LEMMA LineStays ==
  ASSUME UNCHANGED <<link, turns, tx, written>>,
         NEW line, NEW n \in Nat, NEW cut \in [0 .. n -> Nat],
         Whole(line, cut, n), Rest(line, cut[n], n)
  PROVE  Whole(line, cut, n)' /\ Rest(line, cut[n], n)'
<1>1. /\ Messages' = Messages /\ Width' = Width /\ Orderly' = Orderly
      /\ \A k : Struct(written[k])' = Struct(written[k])
      /\ \A m : Struct(m)' = Struct(m)
  BY DEF Messages, Width, Orderly, Struct, Unmarked, Closing
<1>2. Whole(line, cut, n)'
  BY <1>1 DEF Whole
<1>3. Idle(line, cut[n], n) => Idle(line, cut[n], n)'
  BY DEF Idle
<1>4. InFrame(line, cut[n], n) => InFrame(line, cut[n], n)'
  BY <1>1 DEF InFrame
<1>5. Begun(line, cut[n], n) => Begun(line, cut[n], n)'
  BY <1>1 DEF Begun
<1>6. Mixed(line, cut[n], n) => Mixed(line, cut[n], n)'
  BY <1>1 DEF Mixed
<1> QED
  BY <1>1, <1>2, <1>3, <1>4, <1>5, <1>6 DEF Rest

\* The reader takes the next message, and hands it on or drops it.
TakesNext ==
  /\ taken < Len(written) /\ taken' = taken + 1
  /\ read' = Append(read, written[taken + 1]) \/ (link \in Lossy /\ read' = read)

\* A message is its structure, with what the reader fills in.
LEMMA Unframed ==
  ASSUME link \in Lab, NEW m \in Messages
  PROVE  /\ link \notin Addressed => m = [node |-> ".", body |-> Struct(m), files |-> <<>>]
         /\ link \in Addressed =>
              m = [node |-> Struct(m)[1], body |-> Tail(Struct(m)), files |-> <<>>]
<1>1. /\ m = [node |-> ".", body |-> m.body, files |-> <<>>]
      /\ m.node = "." /\ m.body \in Seq(Byte)
  BY MessageType DEF Lab
<1>2. CASE link \notin Addressed
  BY <1>1, <1>2 DEF Struct
<1>3. CASE link \in Addressed
  <2>1. PICK b \in Seq(Byte) : b = m.body
    BY <1>1
  <2>a. <<".">> \in Seq(Byte) /\ Len(<<".">>) = 1 /\ <<".">>[1] = "."
    BY DEF Byte
  <2>2. PICK p \in Seq(Byte) : p = <<".">> /\ Len(p) = 1 /\ p[1] = "."
    BY <2>a
  <2>3. PICK s \in Seq(Byte) : s = p \o b
    BY Joined
  <2>4. s = Struct(m)
    BY <1>1, <1>3, <2>1, <2>2, <2>3 DEF Struct
  <2>5. Len(b) \in Nat /\ Len(s) = 1 + Len(b) /\ s[1] = "." /\ \A i \in 1 .. Len(b) : s[1 + i] = b[i]
    BY <2>2, <2>3, Joined
  <2>6. s # <<>>
    BY <2>5, EmptySeq
  <2>7. /\ Tail(s) \in Seq(Byte) /\ Len(Tail(s)) = Len(b)
        /\ \A i \in 1 .. Len(b) : Tail(s)[i] = s[i + 1]
    BY <2>5, <2>6, HeadTailProperties
  <2>8. Tail(s) = b
    <3>1. \A i \in 1 .. Len(b) : Tail(s)[i] = b[i]
      BY <2>5, <2>7
    <3> QED
      BY <2>7, <3>1, SeqEqual
  <2> QED
    BY <1>1, <1>3, <2>1, <2>4, <2>5, <2>8
<1> QED
  BY <1>2, <1>3

LEMMA TakeStep ==
  ASSUME TypeOK, Sound, WrittenOK, Reads,
         NEW line \in Seq(Byte), NEW n \in Nat, NEW cut \in [0 .. n -> Nat], NEW c \in Nat,
         Line(line, n, cut, c), taken < n, c + 1 = cut[taken + 1],
         \/ Deliver(written[taken + 1].node, written[taken + 1].body, written[taken + 1].files)
         \/ link \in Lossy /\ Drop
  PROVE  Reading(line, cut, n, c + 1)' /\ TakesNext
<1>1. taken \in 0 .. n /\ Whole(line, cut, n)
  BY DEF Line, Reading, Place
<1>2. rx' = Fresh /\ taken' = taken + 1 /\ UNCHANGED fault
  BY DEF Deliver, Drop
<1>3. taken + 1 \in 1 .. Len(written) /\ written[taken + 1] \in Messages
  BY <1>1, WholeFrame
<1>4. PICK m \in Messages : m = written[taken + 1]
  BY <1>3
<1>5. m = [node |-> m.node, body |-> m.body, files |-> m.files]
  BY DEF Messages
<1>6. read' = Append(read, written[taken + 1]) \/ (link \in Lossy /\ read' = read)
  BY <1>4, <1>5 DEF Deliver, Drop
<1>7. Len(written) \in Nat /\ taken < Len(written)
  BY <1>1, <1>3, WrittenType
<1> QED
  BY <1>2, <1>6, <1>7, TakeReading DEF TakesNext

LEMMA ReceiveStep ==
  ASSUME TypeOK, Sound, WrittenOK, Receive,
         NEW line \in Seq(Byte), NEW n \in Nat, NEW cut \in [0 .. n -> Nat], NEW c \in Nat,
         Line(line, n, cut, c)
  PROVE  Reading(line, cut, n, c + 1)' /\ (UNCHANGED <<taken, read>> \/ TakesNext)
<1>1. link \in Lab /\ (link \in Checked => link # "ON-ON")
  BY LinkKinds
<1>2. ASSUME NEW start, Scan(start)
      PROVE  Reading(line, cut, n, c + 1)' /\ UNCHANGED <<taken, read>>
  BY <1>2, ScanReading
<1>3. ASSUME Reads, Abort
      PROVE  Reading(line, cut, n, c + 1)' /\ UNCHANGED <<taken, read>>
  BY <1>3, AbortReading
<1>4. Reads /\ Closes =>
        \/ /\ taken < n /\ c + 1 = cut[taken + 1] /\ taken + 1 \in 1 .. Len(written)
           /\ written[taken + 1] \in Messages /\ Body = Struct(written[taken + 1])
           /\ Len(rx.buf) = Len(Struct(written[taken + 1])) + 1
        \/ link \in Checked /\ Len(Body) # Width
  <2>1. taken \in 0 .. n /\ Whole(line, cut, n)
    BY DEF Line, Reading, Place
  <2> QED
    BY <2>1, WhatCloses, WholeFrame
<1>5. ASSUME Reads, Closes, link \in Addressed, Len(Body) = Width,
             DeliverArg \/ (link \in Lossy /\ Drop)
      PROVE  Reading(line, cut, n, c + 1)' /\ TakesNext
  <2>1. /\ taken < n /\ c + 1 = cut[taken + 1] /\ taken + 1 \in 1 .. Len(written)
        /\ written[taken + 1] \in Messages /\ Body = Struct(written[taken + 1])
    BY <1>4, <1>5
  <2>2. PICK m \in Messages : m = written[taken + 1]
    BY <2>1
  <2>3. Body[1] = m.node /\ Tail(Body) = m.body /\ m.files = <<>>
    <3>1. m = [node |-> Body[1], body |-> Tail(Body), files |-> <<>>]
      BY <1>1, <1>5, <2>1, <2>2, Unframed
    <3> QED
      BY <3>1
  <2>4. Deliver(m.node, m.body, m.files) \/ (link \in Lossy /\ Drop)
    BY <1>5, <2>3 DEF DeliverArg
  <2> QED
    BY <1>5, <2>1, <2>2, <2>4, TakeStep
<1>6. ASSUME Reads, Closes, link \notin Addressed, link \notin Checked \/ Len(Body) = Width,
             Deliver(".", Body, <<>>) \/ (link \in Lossy /\ Drop)
      PROVE  Reading(line, cut, n, c + 1)' /\ TakesNext
  <2>1. /\ taken < n /\ c + 1 = cut[taken + 1] /\ taken + 1 \in 1 .. Len(written)
        /\ written[taken + 1] \in Messages /\ Body = Struct(written[taken + 1])
    BY <1>4, <1>6
  <2>2. PICK m \in Messages : m = written[taken + 1]
    BY <2>1
  <2>3. m.node = "." /\ m.body = Body /\ m.files = <<>>
    <3>1. m = [node |-> ".", body |-> Body, files |-> <<>>]
      BY <1>1, <1>6, <2>1, <2>2, Unframed
    <3> QED
      BY <3>1
  <2>4. Deliver(m.node, m.body, m.files) \/ (link \in Lossy /\ Drop)
    BY <1>6, <2>3
  <2> QED
    BY <1>6, <2>1, <2>2, <2>4, TakeStep
<1>7. CASE lab2_mnp_recvseg
  <2>1. link = "LAB2" /\ link \in Lossy /\ link \notin Checked /\ link \notin Addressed
    BY <1>7 DEF lab2_mnp_recvseg, Lossy, Checked, Addressed
  <2>2. \/ Scan("START1")
        \/ Reads /\ Closes /\ (Deliver(".", Copy(SIZE), <<>>) \/ Drop)
    BY <1>7 DEF lab2_mnp_recvseg
  <2>3. Reads /\ Closes => Copy(SIZE) = Body
    <3> SUFFICES ASSUME Reads, Closes PROVE Copy(SIZE) = Body
      OBVIOUS
    <3>1. /\ written[taken + 1] \in Messages /\ Body = Struct(written[taken + 1])
          /\ Len(rx.buf) = Len(Struct(written[taken + 1])) + 1
      BY <1>4, <2>1
    <3>2. SIZE \in Nat /\ Len(rx.buf) = SIZE + 1
      BY <1>1, <2>1, <3>1, StructType, FramingAssumption DEF FramingAssumption, Width
    <3>3. rx.buf \in Seq(Byte)
      BY BufferType
    <3>4. /\ SubSeq(rx.buf, 1, SIZE) \in Seq(Byte) /\ Len(SubSeq(rx.buf, 1, SIZE)) = SIZE
          /\ \A i \in 1 .. SIZE : SubSeq(rx.buf, 1, SIZE)[i] = rx.buf[i]
      BY <3>2, <3>3, SubSeqProperties
    <3>5. Body = SubSeq(rx.buf, 1, SIZE)
      <4>1. Len(rx.buf) - 1 = SIZE
        BY <3>2
      <4> QED
        BY <4>1 DEF Body
    <3>6. Copy(SIZE) \in Seq(Byte) /\ Len(Copy(SIZE)) = SIZE
      BY <3>2, BufferType
    <3>7. \A i \in 1 .. SIZE : Copy(SIZE)[i] = rx.buf[i]
      BY <3>2 DEF Copy
    <3> QED
      BY <3>4, <3>5, <3>6, <3>7, SeqEqual
  <2> QED
    BY <1>2, <1>6, <2>1, <2>2, <2>3
<1>8. CASE recvpkt
  <2>1. link = "ON-ON" /\ link \notin Checked /\ link \notin Addressed
    BY <1>8 DEF recvpkt, Checked, Addressed
  <2>2. Scan("START1") \/ (Reads /\ Closes /\ Deliver(".", Body, <<>>))
    BY <1>8 DEF recvpkt
  <2> QED
    BY <1>2, <1>6, <2>1, <2>2
<1>9. CASE overlay_recvpkt
  <2>1. link \notin Addressed /\ Width = SIZE
    BY <1>9 DEF overlay_recvpkt, Addressed, Width
  <2>2. \/ Scan("START1")
        \/ Reads /\ Closes /\ Len(Body) = SIZE /\ Deliver(".", Body, <<>>)
        \/ Reads /\ Abort
    BY <1>9 DEF overlay_recvpkt
  <2> QED
    BY <1>2, <1>3, <1>6, <2>1, <2>2
<1>10. CASE getpktToSend \/ getsegToSend
  <2>1. link \in Addressed /\ Width = SIZE + 1
    BY <1>10 DEF getpktToSend, getsegToSend, Addressed, Width
  <2>2. \/ Scan("START1")
        \/ Reads /\ Closes /\ Len(Body) = SIZE + 1 /\ DeliverArg
        \/ Reads /\ Abort
    BY <1>10 DEF getpktToSend, getsegToSend
  <2> QED
    BY <1>2, <1>3, <1>5, <2>1, <2>2
<1>11. CASE mnp_recvseg
  <2>1. link \in Addressed /\ Width = SIZE + 1 /\ link \in Lossy
    BY <1>11 DEF mnp_recvseg, Addressed, Width, Lossy
  <2>2. \/ Scan(Next2)
        \/ Reads /\ Closes /\ Len(Body) = SIZE + 1 /\ (DeliverArg \/ Drop)
        \/ Reads /\ Abort
    BY <1>11 DEF mnp_recvseg
  <2> QED
    BY <1>2, <1>3, <1>5, <2>1, <2>2
<1>12. ~(receive_p2p_segment \/ receive_p2t_segment \/ receive_t2p_segment)
  BY <1>1 DEF receive_p2p_segment, receive_p2t_segment, receive_t2p_segment, Lab, Tofukasu
<1> QED
  BY <1>7, <1>8, <1>9, <1>10, <1>11, <1>12 DEF Receive

\* What the steps of the reader leave alone.
LEMMA ReceiveReads ==
  ASSUME TypeOK, Receive
  PROVE  Reads /\ UNCHANGED <<link, turns, tx, written>>
<1>1. Reads
  BY DEF Receive, lab2_mnp_recvseg, recvpkt, overlay_recvpkt, getpktToSend, getsegToSend, mnp_recvseg,
         receive_p2p_segment, receive_p2t_segment, receive_t2p_segment, ReceiveTable, Scan
<1> QED
  BY <1>1, ReadsType

LEMMA ReceiveInv ==
  ASSUME TypeOK, FrameInv, Receive
  PROVE  FrameInv' /\ (Sound => UNCHANGED <<taken, read>> \/ TakesNext)
<1>1. Reads /\ UNCHANGED <<link, turns, tx, written>>
  BY ReceiveReads
<1> SUFFICES ASSUME Sound
    PROVE  /\ UNCHANGED <<taken, read>> \/ TakesNext
           /\ WrittenOK' /\ ReadOK'
           /\ \E line \in Seq(Byte), n \in Nat : \E cut \in [0 .. n -> Nat], c \in Nat :
                Line(line, n, cut, c)'
  BY <1>1 DEF FrameInv, Sound, Orderly
<1>2. WrittenOK /\ ReadOK
  BY DEF FrameInv
<1>3. PICK line \in Seq(Byte), n \in Nat : \E cut \in [0 .. n -> Nat], c \in Nat : Line(line, n, cut, c)
  BY DEF FrameInv
<1>4. PICK cut \in [0 .. n -> Nat], c \in Nat : Line(line, n, cut, c)
  BY <1>3
<1>5. Reading(line, cut, n, c + 1)' /\ (UNCHANGED <<taken, read>> \/ TakesNext)
  BY <1>2, <1>4, ReceiveStep
<1>6. Whole(line, cut, n)' /\ Rest(line, cut[n], n)'
  BY <1>1, <1>4, LineStays DEF Line
<1>7. Messages' = Messages
  BY <1>1 DEF Messages, Unmarked, Closing
<1>8. WrittenOK' /\ ReadOK'
  <2>1. CASE read' = read
    BY <1>1, <1>2, <1>7, <2>1 DEF WrittenOK, ReadOK
  <2>2. CASE taken < Len(written) /\ read' = Append(read, written[taken + 1])
    <3>1. taken + 1 \in 1 .. Len(written) /\ written[taken + 1] \in Messages
      <4>1. taken \in Nat /\ Len(written) \in Nat
        BY <1>2, WrittenType DEF TypeOK
      <4>2. taken + 1 \in 1 .. Len(written)
        BY <2>2, <4>1
      <4> QED
        BY <1>2, <4>2, WrittenType
    <3>2. PICK m \in Messages : m = written[taken + 1]
      BY <3>1
    <3>3. /\ read' \in Seq(Messages) /\ Len(read) \in Nat /\ Len(read') = Len(read) + 1
          /\ \A i \in 1 .. Len(read) : read'[i] = read[i]
          /\ read'[Len(read) + 1] = m
      BY <1>2, <2>2, <3>2, AppendProperties, LenProperties DEF ReadOK
    <3>4. ASSUME NEW i \in 1 .. Len(read')
          PROVE  \E j \in 1 .. Len(written) : read'[i] = written[j]
      <4>1. CASE i \in 1 .. Len(read)
        BY <1>2, <3>3, <4>1 DEF ReadOK
      <4>2. CASE i = Len(read) + 1
        BY <3>1, <3>2, <3>3, <4>2
      <4> QED
        BY <3>3, <4>1, <4>2
    <3> QED
      BY <1>1, <1>2, <1>7, <3>3, <3>4 DEF WrittenOK, ReadOK
  <2> QED
    BY <1>5, <2>1, <2>2 DEF TakesNext
<1> QED
  BY <1>5, <1>6, <1>8 DEF Line

-----------------------------------------------------------------------------
(* The theorems.                                                           *)

LEMMA InitInv == Init => FrameInv
<1> SUFFICES ASSUME Init, Sound
    PROVE  /\ WrittenOK /\ ReadOK
           /\ \E line \in Seq(Byte), n \in Nat : \E cut \in [0 .. n -> Nat], c \in Nat :
                Line(line, n, cut, c)
  BY DEF FrameInv
<1>1. PICK line \in Seq(Byte) : line = <<>> /\ Len(line) = 0
  <2>1. <<>> \in Seq(Byte) /\ Len(<<>>) = 0
    OBVIOUS
  <2> QED
    BY <2>1
<1>2. PICK cut \in [0 .. 0 -> Nat] : cut[0] = 0
  <2>1. [k \in 0 .. 0 |-> 0] \in [0 .. 0 -> Nat] /\ [k \in 0 .. 0 |-> 0][0] = 0
    OBVIOUS
  <2> QED
    BY <2>1
<1>3. /\ written = <<>> /\ Len(written) = 0 /\ read = <<>> /\ Len(read) = 0
      /\ stream = <<>> /\ Len(stream) = 0 /\ taken = 0 /\ rx = Fresh
      /\ \A w \in Threads : tx[w] = <<>>
  BY DEF Init
<1>4. Whole(line, cut, 0)
  BY <1>1, <1>2, <1>3 DEF Whole
<1>5. Rest(line, cut[0], 0)
  BY <1>1, <1>2, <1>3 DEF Rest, Idle
<1>6. Reading(line, cut, 0, 0)
  BY <1>1, <1>2, <1>3 DEF Reading, Place, Outside, Inside, Fresh
<1>7. WrittenOK /\ ReadOK
  BY <1>3 DEF WrittenOK, ReadOK
<1> QED
  BY <1>4, <1>5, <1>6, <1>7 DEF Line

LEMMA StutterInv ==
  ASSUME FrameInv, UNCHANGED vars
  PROVE  FrameInv'
<1>1. UNCHANGED <<link, turns, stream, tx, rx, fault, written, taken, read>>
  BY DEF vars
<1> SUFFICES ASSUME Sound
    PROVE  /\ WrittenOK' /\ ReadOK'
           /\ \E line \in Seq(Byte), n \in Nat : \E cut \in [0 .. n -> Nat], c \in Nat :
                Line(line, n, cut, c)'
  BY <1>1 DEF FrameInv, Sound, Orderly
<1>2. WrittenOK' /\ ReadOK'
  <2>1. Messages' = Messages
    BY <1>1 DEF Messages, Unmarked, Closing
  <2> QED
    BY <1>1, <2>1 DEF FrameInv, WrittenOK, ReadOK
<1>3. PICK line \in Seq(Byte), n \in Nat : \E cut \in [0 .. n -> Nat], c \in Nat : Line(line, n, cut, c)
  BY DEF FrameInv
<1>4. PICK cut \in [0 .. n -> Nat], c \in Nat : Line(line, n, cut, c)
  BY <1>3
<1>5. Whole(line, cut, n)' /\ Rest(line, cut[n], n)'
  BY <1>1, <1>4, LineStays DEF Line
<1>6. Reading(line, cut, n, c)'
  <2>1. Place(line, cut, n, c)'
    BY <1>1, <1>4 DEF Line, Reading, Place
  <2>2. \A k : Struct(written[k])' = Struct(written[k])
    BY <1>1 DEF Struct
  <2> QED
    BY <1>1, <1>4, <2>1, <2>2 DEF Line, Reading, Outside, Inside
<1> QED
  BY <1>2, <1>5, <1>6 DEF Line

\* The invariant holds in every state, for any bytes, any number of threads and any
\* capacity: it is what need_data's automaton in every getpkt relies on, and what two
\* senders without a common lock leave of it.
THEOREM FrameInvariant == Spec => [](TypeOK /\ FrameInv)
<1>1. FrameInv /\ TypeOK /\ [Next]_vars => FrameInv'
  <2> SUFFICES ASSUME FrameInv, TypeOK, [Next]_vars PROVE FrameInv'
    OBVIOUS
  <2>1. CASE \E w \in Threads : Begin(w) \/ Continue(w)
    BY <2>1, BeginInv, ContinueInv
  <2>2. CASE Receive
    BY <2>2, ReceiveInv
  <2>3. CASE UNCHANGED vars
    BY <2>3, StutterInv
  <2> QED
    BY <2>1, <2>2, <2>3 DEF Next
<1>2. Spec => []TypeOK
  BY TypeCorrect
<1> QED
  BY InitInv, <1>1, <1>2, PTL DEF Spec

\* No packet or segment is handed on that nobody wrote, for any number of threads that
\* mix their frames in any way.  Only the connection between two ON processes has a
\* reader without an assertion; one thread writes to it (waitNetwork).
THEOREM ForgesNothing ==
  ASSUME \A v, w \in Writers["ON-ON"] : v = w
  PROVE  Spec => []NothingForged
<1>1. TypeOK /\ FrameInv => NothingForged
  <2> SUFFICES ASSUME TypeOK, FrameInv, link \notin Tofukasu \cup {"LAB2"}
      PROVE  \A i \in 1 .. Len(read) : \E j \in 1 .. Len(written) : read[i] = written[j]
    BY DEF NothingForged
  <2>1. link \in Checked \/ link = "ON-ON"
    BY DEF TypeOK, AllLinks, Checked, Tofukasu
  <2>2. link = "ON-ON" => Orderly
    BY DEF Orderly
  <2>3. Sound
    BY <2>1, <2>2 DEF Sound, Lab, AllLinks, Tofukasu
  <2> QED
    BY <2>3 DEF FrameInv, ReadOK
<1> QED
  BY FrameInvariant, <1>1, PTL

\* The connection is one of those the constant names: no step changes that.
OneOfLinks == link \in Links

\* The connections of lab4 and lab2 are streams of messages, whatever their bytes are,
\* where no two threads are in a frame at a time: what is read is what was written, in
\* order and once, less what seglost drops.
THEOREM FramesAreRead ==
  ASSUME Links \cap Tofukasu = {}
  PROVE  Spec => Frames!Safe
<1>1. Init => Frames!Init
  BY DEF Init, Frames!Init
<1>2. TypeOK /\ OneOfLinks /\ [Next]_vars => OneOfLinks'
  <2> SUFFICES ASSUME TypeOK, link \in Links, [Next]_vars PROVE link' = link
    BY DEF OneOfLinks
  <2>1. CASE Receive
    BY <2>1, ReceiveReads
  <2> QED
    BY <2>1 DEF Next, Begin, Continue, vars
<1>3. TypeOK /\ FrameInv /\ OneOfLinks /\ [Next]_vars => [Frames!Write \/ Frames!Take]_Frames!vars
  <2> SUFFICES ASSUME TypeOK, FrameInv, link \in Links, [Next]_vars
      PROVE  [Frames!Write \/ Frames!Take]_Frames!vars
    BY DEF OneOfLinks
  <2>1. link \in Lab
    BY DEF TypeOK, Lab
  <2>2. ASSUME NEW w \in Threads, Begin(w)
        PROVE  [Frames!Write \/ Frames!Take]_Frames!vars
    <3>1. UNCHANGED <<link, turns, taken, read>> /\ Orderly' = Orderly
      BY <2>2 DEF Begin, Orderly
    <3>2. CASE Orderly
      <4>1. Sound /\ WrittenOK
        BY <2>1, <3>2 DEF Sound, FrameInv
      <4>2. PICK m \in Messages : written' = Append(written, m)
        BY <2>2 DEF Begin
      <4>3. written \in Seq(Messages)
        BY <4>1 DEF WrittenOK
      <4>4. /\ Append(written, m) # <<>>
            /\ SubSeq(Append(written, m), 1, Len(Append(written, m)) - 1) = written
        BY <4>3, AppendProperties, LenProperties, EmptySeq, SubSeqProperties, SeqEqual
      <4> QED
        BY <3>1, <3>2, <4>2, <4>4 DEF Frames!Write
    <3>3. CASE ~Orderly
      BY <3>1, <3>3 DEF Frames!vars
    <3> QED
      BY <3>2, <3>3
  <2>3. ASSUME NEW w \in Threads, Continue(w)
        PROVE  UNCHANGED Frames!vars
    BY <2>3 DEF Continue, Frames!vars, Orderly
  <2>4. ASSUME Receive
        PROVE  [Frames!Write \/ Frames!Take]_Frames!vars
    <3>1. UNCHANGED <<link, turns, written>> /\ Orderly' = Orderly
      BY <2>4, ReceiveReads DEF Orderly
    <3>2. CASE Orderly
      <4>1. UNCHANGED <<taken, read>> \/ TakesNext
        BY <2>1, <2>4, <3>2, ReceiveInv DEF Sound
      <4>2. UNCHANGED <<taken, read>> => UNCHANGED Frames!vars
        BY <3>1 DEF Frames!vars
      <4>3. TakesNext => Frames!Take
        BY <3>1, <3>2 DEF TakesNext, Frames!Take
      <4> QED
        BY <4>1, <4>2, <4>3
    <3>3. CASE ~Orderly
      BY <3>1, <3>3 DEF Frames!vars
    <3> QED
      BY <3>2, <3>3
  <2>5. CASE UNCHANGED vars
    BY <2>5 DEF vars, Frames!vars, Orderly
  <2> QED
    BY <2>2, <2>3, <2>4, <2>5 DEF Next
<1>4. Init => OneOfLinks
  BY DEF Init, OneOfLinks
<1>5. Spec => [](TypeOK /\ FrameInv /\ OneOfLinks)
  BY FrameInvariant, <1>2, <1>4, PTL DEF Spec
<1>6. Spec => [][Frames!Write \/ Frames!Take]_Frames!vars
  BY <1>3, <1>5, PTL DEF Spec
<1> QED
  BY <1>1, <1>6, PTL DEF Spec, Frames!Safe
=============================================================================
