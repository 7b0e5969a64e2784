-------------------------- MODULE MRTStream_proofs --------------------------
(***************************************************************************)
(* Proof that the MRT transport implements the stream of module MRTStream, *)
(* for every value of the constants, as long as the application does not   *)
(* connect a second time after it disconnected; that its two ends agree on *)
(* the connection, that only accepted segments are acknowledged and, with  *)
(* one call of send, that the others stay in the send buffer.              *)
(***************************************************************************)
EXTENDS MRTInvariant, MRT_proofs

-----------------------------------------------------------------------------
(* What a step does to the segments on their way to the server.            *)

LEMMA Appended ==
  ASSUME ChannelTypeOK, NEW m \in ClientMsg, c2s' = Append(c2s, m)
  PROVE  /\ \A t : InTransit(t)' = InTransit(t) \cup (IF m.type = t THEN {Len(c2s) + 1} ELSE {})
         /\ \A i \in 1 .. Len(c2s) : c2s'[i] = c2s[i]
         /\ c2s'[Len(c2s) + 1] = m
         /\ Len(c2s) \in Nat
<1>1. /\ Len(c2s) \in Nat /\ Len(c2s') = Len(c2s) + 1
      /\ \A i \in 1 .. Len(c2s) : c2s'[i] = c2s[i]
      /\ c2s'[Len(c2s) + 1] = m
  BY AppendProperties, LenProperties DEF ChannelTypeOK
<1> QED
  BY <1>1 DEF InTransit

LEMMA Removed ==
  ASSUME ChannelTypeOK, c2s # <<>>, c2s' = Tail(c2s)
  PROVE  /\ \A t : InTransit(t)' = {i \in 1 .. (Len(c2s) - 1) : i + 1 \in InTransit(t)}
         /\ \A i \in 1 .. (Len(c2s) - 1) : c2s'[i] = c2s[i + 1]
         /\ Len(c2s) \in Nat \ {0}
<1>1. /\ Len(c2s) \in Nat \ {0} /\ Len(c2s') = Len(c2s) - 1
      /\ \A i \in 1 .. (Len(c2s) - 1) : c2s'[i] = c2s[i + 1]
  BY HeadTailProperties, LenProperties, EmptySeq DEF ChannelTypeOK
<1> QED
  BY <1>1 DEF InTransit

LEMMA HeadInTransit ==
  ASSUME ChannelTypeOK, c2s # <<>>
  PROVE  Head(c2s) = c2s[1] /\ 1 \in InTransit(Head(c2s).type)
<1>1. Len(c2s) \in Nat \ {0} /\ Head(c2s) = c2s[1]
  BY HeadTailProperties, LenProperties, EmptySeq DEF ChannelTypeOK
<1> QED
  BY <1>1 DEF InTransit

-----------------------------------------------------------------------------
(* The invariant under the kinds of steps the client makes.                *)

(* A step that neither sends nor changes what there is to send.            *)
LEMMA QuietClientStep ==
  ASSUME StreamInv, TypeOK', NothingSentBefore',
         UNCHANGED <<serverVars, c2s, segs, nextSeq, submitted>>
  PROVE  StreamInv'
<1>1. \A t : InTransit(t)' = InTransit(t)
  BY DEF InTransit
<1>2. SegmentsInPlace' /\ TransitInPlace' /\ SynsBeforeData'
  BY <1>1 DEF StreamInv, SegmentsInPlace, TransitInPlace, SynsBeforeData, serverVars
<1>3. ReceivedInPlace' /\ ReadInPlace'
  BY DEF StreamInv, ReceivedInPlace, ReadInPlace, serverVars
<1> QED
  BY <1>2, <1>3 DEF StreamInv

(* A step that sends a SYN, before there is anything to send, or a FIN.    *)
LEMMA ControlStep ==
  ASSUME StreamInv, TypeOK', NothingSentBefore',
         UNCHANGED <<serverVars, segs, nextSeq, submitted>>,
         NEW m \in ClientMsg, SendToServer(m),
         m.type = "FIN" \/ (m.type = "SYN" /\ segs = <<>>)
  PROVE  StreamInv'
<1>1. /\ \A t : InTransit(t)' = InTransit(t) \cup (IF m.type = t THEN {Len(c2s) + 1} ELSE {})
      /\ \A i \in 1 .. Len(c2s) : c2s'[i] = c2s[i]
  BY Appended DEF StreamInv, TypeOK, SendToServer
<1>2. InTransit("DATA")' = InTransit("DATA") /\ InTransit("DATA") \subseteq 1 .. Len(c2s)
  <2>1. InTransit("DATA") \subseteq 1 .. Len(c2s)
    BY DEF InTransit
  <2>2. m.type # "DATA"
    OBVIOUS
  <2> QED
    BY <1>1, <2>1, <2>2
<1>3. TransitInPlace'
  BY <1>1, <1>2 DEF StreamInv, TransitInPlace
<1>4. SynsBeforeData'
  <2>1. CASE m.type = "FIN"
    <3>1. InTransit("SYN")' = InTransit("SYN")
      BY <1>1, <2>1
    <3> QED
      BY <1>2, <3>1 DEF StreamInv, SynsBeforeData, serverVars
  <2>2. CASE segs = <<>>
    <3>1. InTransit("DATA") = {} /\ ~(Len(buf) > 0)
      BY <2>2 DEF StreamInv, SynsBeforeData
    <3> QED
      BY <1>2, <3>1 DEF SynsBeforeData, serverVars
  <2> QED
    BY <2>1, <2>2
<1>5. SegmentsInPlace' /\ ReceivedInPlace' /\ ReadInPlace'
  BY DEF StreamInv, SegmentsInPlace, ReceivedInPlace, ReadInPlace, serverVars
<1> QED
  BY <1>3, <1>4, <1>5 DEF StreamInv

(* A step that sends a segment of the send buffer.                         *)
LEMMA DataStep ==
  ASSUME StreamInv, TypeOK', NothingSentBefore',
         UNCHANGED <<serverVars, segs, nextSeq, submitted>>,
         NEW i \in 1 .. Len(segs), SendToServer(Data(segs[i]))
  PROVE  StreamInv'
<1> DEFINE m == Data(segs[i])
<1>1. segs[i] \in DataSegment /\ segs # <<>>
  <2>1. segs \in Seq(DataSegment)
    BY DEF StreamInv, TypeOK, ClientTypeOK
  <2>2. segs[i] \in DataSegment
    BY <2>1, ElementOfSeq
  <2>3. Len(segs) # 0
    BY <2>1, LenProperties
  <2> QED
    BY <2>1, <2>2, <2>3, EmptySeq
<1>2. m \in ClientMsg /\ m.type = "DATA" /\ m.seq = segs[i].seq /\ m.pos = segs[i].pos
      /\ m.len = segs[i].len
  BY <1>1, ClientMessages DEF Data
<1>3. m.seq = m.pos /\ m.pos + m.len <= submitted
  BY <1>2 DEF StreamInv, SegmentsInPlace
<1>4. c2s' = Append(c2s, m)
  BY DEF SendToServer
<1> HIDE DEF m
<1>5. /\ \A t : InTransit(t)' = InTransit(t) \cup (IF m.type = t THEN {Len(c2s) + 1} ELSE {})
      /\ \A j \in 1 .. Len(c2s) : c2s'[j] = c2s[j]
      /\ c2s'[Len(c2s) + 1] = m
      /\ Len(c2s) \in Nat
  BY <1>2, <1>4, Appended DEF StreamInv, TypeOK
<1>6. /\ InTransit("DATA")' = InTransit("DATA") \cup {Len(c2s) + 1}
      /\ InTransit("SYN")' = InTransit("SYN")
  BY <1>2, <1>5
<1>7. InTransit("DATA") \subseteq 1 .. Len(c2s) /\ InTransit("SYN") \subseteq 1 .. Len(c2s)
  BY DEF InTransit
<1>8. TransitInPlace'
  BY <1>3, <1>5, <1>6, <1>7 DEF StreamInv, TransitInPlace
<1>9. SynsBeforeData'
  BY <1>1, <1>5, <1>6, <1>7 DEF StreamInv, SynsBeforeData, serverVars
<1>10. SegmentsInPlace' /\ ReceivedInPlace' /\ ReadInPlace'
  BY DEF StreamInv, SegmentsInPlace, ReceivedInPlace, ReadInPlace, serverVars
<1> QED
  BY <1>8, <1>9, <1>10 DEF StreamInv

(* mrt_client_send numbers the new segments on from where the last ended.  *)
LEMMA SendStep ==
  ASSUME StreamInv, TypeOK', Send, UNCHANGED serverVars
  PROVE  StreamInv'
<1> PICK length \in SendLens :
           /\ segs' = segs \o Segments(length)
           /\ nextSeq' = nextSeq + length
           /\ submitted' = submitted + length
  BY DEF Send, NumberAfter
<1> DEFINE more == Segments(length)
<1>1. length \in Nat /\ nextSeq \in Nat /\ submitted \in Nat /\ nextSeq = submitted
  BY ClientAssumption DEF StreamInv, TypeOK, ClientTypeOK, SegmentsInPlace
<1>2. /\ more \in Seq(DataSegment) /\ Len(more) \in Nat \ {0}
      /\ \A i \in 1 .. Len(more) : /\ more[i].seq - nextSeq = more[i].pos - submitted
                                  /\ more[i].pos + more[i].len <= submitted + length
  BY <1>1, SegmentsOfSend DEF StreamInv, TypeOK
<1>3. \A i \in 1 .. Len(more) : more[i] \in DataSegment
  BY <1>2, ElementOfSeq
<1> HIDE DEF more
<1>4. \A i \in 1 .. Len(more) : /\ more[i].seq = more[i].pos
                               /\ more[i].pos + more[i].len <= submitted'
  <2> TAKE i \in 1 .. Len(more)
  <2>1. more[i].seq \in Nat /\ more[i].pos \in Nat
    BY <1>3 DEF DataSegment
  <2>2. more[i].seq - nextSeq = more[i].pos - submitted
    BY <1>2
  <2>3. more[i].pos + more[i].len <= submitted'
    BY <1>2
  <2>4. more[i].seq = more[i].pos
    BY <1>1, <2>1, <2>2
  <2> QED
    BY <2>3, <2>4
<1>5. segs \in Seq(DataSegment) /\ Len(segs) \in Nat
  BY LenProperties DEF StreamInv, TypeOK, ClientTypeOK
<1> DEFINE joined == segs \o more
<1>6. /\ Len(joined) = Len(segs) + Len(more)
      /\ \A i \in 1 .. Len(segs) + Len(more) :
           joined[i] = IF i <= Len(segs) THEN segs[i] ELSE more[i - Len(segs)]
  BY <1>2, <1>5, Concatenation, Zenon
<1>7. segs' = joined /\ c2s' = c2s
  BY DEF more, Send, chanVars
<1> HIDE DEF joined
<1>8. SegmentsInPlace'
  <2>1. \A i \in 1 .. Len(segs) : /\ segs[i].seq = segs[i].pos
                                 /\ segs[i].pos + segs[i].len <= submitted
    BY DEF StreamInv, SegmentsInPlace
  <2>2. \A i \in 1 .. Len(segs) : segs[i] \in DataSegment
    BY <1>5, ElementOfSeq
  <2>3. ASSUME NEW i \in 1 .. Len(joined)
        PROVE  joined[i].seq = joined[i].pos /\ joined[i].pos + joined[i].len <= submitted'
    <3>1. CASE i <= Len(segs)
      <4>1. joined[i] = segs[i] /\ i \in 1 .. Len(segs)
        BY <1>2, <1>5, <1>6, <3>1
      <4> QED
        BY <1>1, <2>1, <2>2, <4>1 DEF DataSegment
    <3>2. CASE ~(i <= Len(segs))
      <4>1. joined[i] = more[i - Len(segs)] /\ i - Len(segs) \in 1 .. Len(more)
        BY <1>2, <1>5, <1>6, <3>2
      <4> QED
        BY <1>4, <4>1
    <3> QED
      BY <3>1, <3>2
  <2> QED
    BY <1>1, <1>7, <2>3 DEF SegmentsInPlace
<1>9. \A t : InTransit(t)' = InTransit(t) /\ InTransit(t) \subseteq 1 .. Len(c2s)
  BY <1>7 DEF InTransit
<1>10. TransitInPlace'
  <2>1. \A i \in InTransit("DATA") : c2s[i].pos \in Nat /\ c2s[i].len \in Nat
    <3>1. \A i \in 1 .. Len(c2s) : c2s[i] \in ClientMsg
      BY ElementOfSeq DEF StreamInv, TypeOK, ChannelTypeOK
    <3> QED
      BY <1>9, <3>1 DEF ClientMsg
  <2> QED
    BY <1>1, <1>7, <1>9, <2>1 DEF StreamInv, TransitInPlace
<1>11. segs' # <<>>
  BY <1>2, <1>5, <1>6, <1>7, EmptySeq
<1>12. SynsBeforeData'
  BY <1>9, <1>11 DEF StreamInv, SynsBeforeData, serverVars
<1>13. NothingSentBefore'
  BY DEF Send, NothingSentBefore, InSend
<1>14. ReceivedInPlace'
  BY <1>1, LenProperties
  DEF StreamInv, TypeOK, ServerTypeOK, ReceivedInPlace, serverVars
<1>15. ReadInPlace'
  BY DEF StreamInv, ReadInPlace, serverVars
<1> QED
  BY <1>8, <1>10, <1>12, <1>13, <1>14, <1>15 DEF StreamInv

(* Every step of the client is of one of these kinds.                      *)
LEMMA ClientStep ==
  ASSUME StreamInv, TypeOK', Reconnects = FALSE, ClientNext, UNCHANGED serverVars
  PROVE  StreamInv'
<1> USE DEF tcbVars, appVars, hndVars, timerVars, histVars, chanVars, NothingSentBefore, InSend
<1>0. NothingSentBefore
  BY DEF StreamInv
<1>1. CASE Sock
  <2>1. cstate' = "CLOSED" /\ app' = "ready" /\ app = "start" /\ nextSeq' = 0
        /\ UNCHANGED <<segs, submitted, c2s>>
    BY <1>1 DEF Sock
  <2>2. nextSeq' = nextSeq
    BY <1>0, <2>1 DEF StreamInv, SegmentsInPlace
  <2> QED
    BY <1>0, <2>1, <2>2, QuietClientStep
<1>2. CASE Connect
  <2>1. app = "ready" /\ cstate = "CLOSED" /\ app' = "syn"
        /\ UNCHANGED <<c2s, segs, nextSeq, submitted>>
    BY <1>2 DEF Connect, MayConnect
  <2> QED
    BY <1>0, <2>1, QuietClientStep
<1>3. CASE SendSyn
  <2>1. app = "syn" /\ app' = "connecting" /\ UNCHANGED <<cstate, segs, nextSeq, submitted>>
        /\ SendToServer(ClientControl("SYN", "svr"))
    BY <1>3 DEF SendSyn
  <2>2. ClientControl("SYN", "svr") \in ClientMsg /\ ClientControl("SYN", "svr").type = "SYN"
    BY ClientMessages DEF ClientControl, Port
  <2> QED
    BY <1>0, <2>1, <2>2, ControlStep
<1>4. CASE Send
  BY <1>4, SendStep
<1>5. CASE SendUnsent \/ \E t \in Timers : Resend(t)
  <2>1. PICK i \in SegRef \ {0} : SendToServer(Data(segs[i]))
    <3>1. CASE SendUnsent
      BY <3>1 DEF SendUnsent, StreamInv, TypeOK, ClientTypeOK
    <3>2. ASSUME NEW t \in Timers, Resend(t)
          PROVE  timerSeg[t] \in SegRef \ {0} /\ SendToServer(Data(segs[timerSeg[t]]))
      BY <3>2 DEF Resend, StreamInv, TypeOK, ClientTypeOK
    <3> QED
      BY <1>5, <3>1, <3>2
  <2>2. i \in 1 .. Len(segs)
    BY LenProperties DEF SegRef, StreamInv, TypeOK, ClientTypeOK
  <2>3. UNCHANGED <<cstate, segs, nextSeq, submitted>> /\ NothingSentBefore'
    BY <1>0, <1>5 DEF SendUnsent, Resend
  <2> QED
    BY <2>1, <2>2, <2>3, DataStep
<1>6. CASE SendFin
  <2>1. UNCHANGED <<segs, nextSeq, submitted>> /\ NothingSentBefore'
        /\ SendToServer(ClientControl("FIN", finPort))
    BY <1>0, <1>6 DEF SendFin
  <2>2. ClientControl("FIN", finPort) \in ClientMsg /\ ClientControl("FIN", finPort).type = "FIN"
    BY ClientMessages DEF ClientControl, StreamInv, TypeOK, ClientTypeOK
  <2> QED
    BY <2>1, <2>2, ControlStep
<1>7. CASE \/ ConnectPoll \/ ConnectLastCheck \/ ConnectGiveUp \/ ReadHead \/ AppendList
           \/ CountRead \/ CountStore \/ SendReturn
           \/ Disconnect \/ DisconnectPoll \/ DisconnectLastCheck \/ Close
  <2>1. UNCHANGED <<c2s, segs, nextSeq, submitted>>
    BY <1>7 DEF ConnectPoll, ConnectLastCheck, ConnectGiveUp, ReadHead, AppendList,
       CountRead, CountStore, SendReturn, Disconnect, DisconnectPoll,
       DisconnectLastCheck, Close
  <2>2. NothingSentBefore'
    BY <1>0, <1>7 DEF ConnectPoll, ConnectLastCheck, ConnectGiveUp, ReadHead,
       AppendList, CountRead, CountStore, SendReturn, Disconnect, DisconnectPoll,
       DisconnectLastCheck, Close
  <2> QED
    BY <2>1, <2>2, QuietClientStep
<1>8. CASE HandlerReceive \/ HandlerWork \/ ClientLoss
  <2>1. UNCHANGED <<c2s, segs, nextSeq, submitted>>
    BY <1>8 DEF HandlerReceive, HandlerWork, ClientLoss, TakeAnswer, clientVars, RecvSynAck,
       RecvFinAck, RecvDataAck, RecvOther, StorePort, CountAckRead, CountAckStore,
       NextSegment, StoreHead, HandlerFault
  <2>2. NothingSentBefore'
    BY <1>0, <1>8 DEF HandlerReceive, HandlerWork, ClientLoss, clientVars, Expects, RecvSynAck,
       RecvFinAck, RecvDataAck, RecvOther, StorePort, CountAckRead, CountAckStore,
       NextSegment, StoreHead, HandlerFault
  <2> QED
    BY <2>1, <2>2, QuietClientStep
<1>9. CASE \E t \in Timers : TimerTop(t) \/ TimerWake(t) \/ TimerTest(t)
                            \/ TimerLoad(t) \/ ResendDone(t) \/ TimerFault(t)
  <2>1. UNCHANGED <<c2s, segs, nextSeq, submitted, cstate, app>>
    BY <1>9 DEF TimerTop, TimerWake, TimerTest, TimerLoad, ResendDone, TimerFault
  <2> QED
    BY <1>0, <2>1, QuietClientStep
<1> QED
  BY <1>1, <1>2, <1>3, <1>4, <1>5, <1>6, <1>7, <1>8, <1>9
  DEF ClientNext, AppCall, AppProgress, TimerStep

-----------------------------------------------------------------------------
(* The invariant under the steps of the server.                            *)

(* A segment leaves the network: what is left keeps its order.             *)
LEMMA RemovedInPlace ==
  ASSUME StreamInv, c2s # <<>>, c2s' = Tail(c2s),
         UNCHANGED <<segs, submitted>>
  PROVE  /\ TransitInPlace'
         /\ \A i \in InTransit("SYN")', j \in InTransit("DATA")' : i < j
         /\ InTransit("DATA")' # {} => segs' # <<>>
         /\ InTransit("SYN") = {} => InTransit("SYN")' = {}
<1>1. /\ \A t : InTransit(t)' = {i \in 1 .. (Len(c2s) - 1) : i + 1 \in InTransit(t)}
      /\ \A i \in 1 .. (Len(c2s) - 1) : c2s'[i] = c2s[i + 1]
      /\ Len(c2s) \in Nat \ {0}
  BY Removed DEF StreamInv, TypeOK
<1>2. TransitInPlace'
  BY <1>1 DEF StreamInv, TransitInPlace
<1>3. ASSUME NEW i \in InTransit("SYN")', NEW j \in InTransit("DATA")'
      PROVE  i < j
  <2>1. i \in Nat /\ j \in Nat /\ i + 1 \in InTransit("SYN") /\ j + 1 \in InTransit("DATA")
    BY <1>1
  <2>2. i + 1 < j + 1
    BY <2>1 DEF StreamInv, SynsBeforeData
  <2> QED
    BY <2>1, <2>2
<1>4. InTransit("DATA")' # {} => segs' # <<>>
  BY <1>1 DEF StreamInv, SynsBeforeData
<1> QED
  BY <1>1, <1>2, <1>3, <1>4

(* The server takes a segment and nothing moves in its buffer.             *)
LEMMA DroppingStep ==
  ASSUME StreamInv, TypeOK', c2s # <<>>, c2s' = Tail(c2s), UNCHANGED clientVars,
         UNCHANGED <<buf, base, got>>, ReceivedInPlace'
  PROVE  StreamInv'
<1> USE DEF clientVars, tcbVars, appVars, histVars
<1>1. TransitInPlace' /\ SynsBeforeData'
  BY RemovedInPlace DEF StreamInv, SynsBeforeData
<1>2. ReadInPlace'
  BY DEF StreamInv, ReadInPlace
<1>3. SegmentsInPlace' /\ NothingSentBefore'
  BY DEF StreamInv, SegmentsInPlace, NothingSentBefore
<1> QED
  BY <1>1, <1>2, <1>3 DEF StreamInv

(* A step that takes nothing from the network and puts nothing in buf.     *)
LEMMA ServerAppStep ==
  ASSUME StreamInv, TypeOK', UNCHANGED <<c2s, clientVars>>,
         ReceivedInPlace', ReadInPlace', UNCHANGED buf
  PROVE  StreamInv'
<1> USE DEF clientVars, tcbVars, appVars, histVars
<1>1. \A t : InTransit(t)' = InTransit(t)
  BY DEF InTransit
<1>2. TransitInPlace' /\ SynsBeforeData'
  BY <1>1 DEF StreamInv, TransitInPlace, SynsBeforeData
<1>3. SegmentsInPlace' /\ NothingSentBefore'
  BY DEF StreamInv, SegmentsInPlace, NothingSentBefore
<1> QED
  BY <1>2, <1>3 DEF StreamInv

(* The bytes mrt_server_recv copies out continue those read before.        *)
LEMMA BytesRead ==
  ASSUME StreamInv, NEW length \in Nat, used >= length
  PROVE  /\ SubSeq(buf, base + 1, base + length) = [i \in 1 .. length |-> Len(got) + i]
         /\ Len(got) + length <= submitted
<1>1. /\ base \in Nat /\ used \in Nat /\ buf \in Seq(Nat) /\ Len(buf) = base + used
      /\ submitted \in Nat /\ Len(buf) \in Nat
  BY LenProperties DEF StreamInv, TypeOK, ServerTypeOK, ClientTypeOK
<1>2. Len(got) = base /\ Len(buf) <= submitted /\ \A k \in 1 .. Len(buf) : buf[k] = k
  BY DEF StreamInv, ReadInPlace, ReceivedInPlace
<1> DEFINE part == SubSeq(buf, base + 1, base + length)
<1>3. /\ part \in Seq(Nat) /\ Len(part) = length
      /\ \A i \in 1 .. length : part[i] = buf[base + i]
  <2> DEFINE m == base + 1
             n == base + length
  <2>1. m \in Int /\ n \in Int /\ \A i \in m .. n : buf[i] \in Nat
    BY <1>1
  <2>2. part = SubSeq(buf, m, n)
    OBVIOUS
  <2> HIDE DEF m, n, part
  <2>3. /\ part \in Seq(Nat)
        /\ Len(part) = IF m <= n THEN n - m + 1 ELSE 0
        /\ \A i \in 1 .. n - m + 1 : part[i] = buf[m + i - 1]
    BY <2>1, <2>2, SubSeqProperties
  <2>4. n - m + 1 = length /\ (m <= n <=> length # 0)
    BY <1>1 DEF m, n
  <2>5. \A i \in 1 .. length : m + i - 1 = base + i
    BY <1>1 DEF m
  <2> QED
    BY <2>3, <2>4, <2>5, <1>1
<1> HIDE DEF part
<1>4. \A i \in 1 .. length : part[i] = Len(got) + i
  BY <1>1, <1>2, <1>3
<1>5. part \in [1 .. length -> Nat]
  BY <1>3, LenProperties
<1>6. part = [i \in 1 .. length |-> Len(got) + i]
  BY <1>4, <1>5
<1> QED
  BY <1>1, <1>2, <1>6 DEF part

(* mrt_server_recv keeps what was read a prefix of the stream.             *)
LEMMA RecvStep ==
  ASSUME StreamInv, TypeOK', Recv, UNCHANGED clientVars
  PROVE  StreamInv'
<1> USE DEF chanVars
<1> PICK length \in RecvLens :
           /\ used >= length
           /\ got' = got \o SubSeq(buf, base + 1, base + length)
           /\ base' = base + length
  BY DEF Recv
<1>1. length \in Nat /\ base \in Nat /\ got \in Seq(Nat) /\ Len(got) = base
      /\ \A k \in 1 .. Len(got) : got[k] = k
  BY ServerAssumption DEF StreamInv, TypeOK, ServerTypeOK, ReadInPlace
<1> DEFINE part   == [i \in 1 .. length |-> Len(got) + i]
           joined == got \o part
<1>2. got' = joined
  BY <1>1, BytesRead
<1>3. part \in Seq(Nat) /\ Len(part) = length /\ \A i \in 1 .. length : part[i] = base + i
  BY <1>1
<1> HIDE DEF part
<1>4. /\ Len(joined) = Len(got) + Len(part)
      /\ \A k \in 1 .. Len(got) + Len(part) :
           joined[k] = IF k <= Len(got) THEN got[k] ELSE part[k - Len(got)]
  BY <1>1, <1>3, Concatenation, Zenon
<1> HIDE DEF joined
<1>5. \A k \in 1 .. Len(joined) : joined[k] = k
  <2> SUFFICES ASSUME NEW k \in 1 .. (base + length) PROVE joined[k] = k
    BY <1>1, <1>3, <1>4
  <2>1. CASE k <= base
    BY <1>1, <1>3, <1>4, <2>1
  <2>2. CASE ~(k <= base)
    <3>1. joined[k] = part[k - base] /\ k - base \in 1 .. length
      BY <1>1, <1>3, <1>4, <2>2
    <3> QED
      BY <1>1, <1>3, <3>1
  <2> QED
    BY <2>1, <2>2
<1>6. ReadInPlace'
  BY <1>1, <1>2, <1>3, <1>4, <1>5 DEF ReadInPlace
<1>7. UNCHANGED <<buf, sstate, expect, sapp, shnd, c2s>>
  BY DEF Recv
<1>8. ReceivedInPlace'
  BY <1>7 DEF StreamInv, ReceivedInPlace, clientVars, histVars
<1> QED
  BY <1>6, <1>7, <1>8, ServerAppStep

(* Data that continue the stream are accepted, other data are dropped.     *)
LEMMA RecvDataStep ==
  ASSUME StreamInv, TypeOK', RecvData, UNCHANGED clientVars
  PROVE  StreamInv'
<1> DEFINE m == Head(c2s)
<1>1. /\ c2s # <<>> /\ c2s' = Tail(c2s) /\ m.type = "DATA" /\ sstate = "CONNECTED"
      /\ shnd' = "dataack" /\ UNCHANGED <<sstate, base, sapp, got>>
  BY DEF RecvData, Take
<1>2. /\ m \in ClientMsg /\ m = c2s[1] /\ 1 \in InTransit("DATA")
  BY <1>1, ReceivedByServer, HeadInTransit DEF StreamInv, TypeOK
<1>3. m.len \in Nat /\ m.pos \in Nat /\ m.seq = m.pos /\ m.pos + m.len <= submitted
  BY <1>2 DEF ClientMsg, StreamInv, TransitInPlace
<1>4. /\ expect = Len(buf) /\ Len(buf) <= submitted /\ sapp # "start"
      /\ \A k \in 1 .. Len(buf) : buf[k] = k
      /\ buf \in Seq(Nat) /\ Len(buf) = base + used /\ Len(buf) \in Nat
  BY <1>1, LenProperties DEF StreamInv, ReceivedInPlace, TypeOK, ServerTypeOK
<1>5. CASE UNCHANGED <<expect, buf, used>>
  <2>1. ReceivedInPlace'
    BY <1>1, <1>4, <1>5 DEF StreamInv, ReceivedInPlace, clientVars, histVars
  <2> QED
    BY <1>1, <1>5, <2>1, DroppingStep
<1>6. CASE InSequence(m) /\ expect' = expect + m.len
           /\ buf' = SubSeq(buf, 1, base + used) \o Payload(m)
  <2> DEFINE p      == Payload(m)
             joined == buf \o p
  <2>1. m.pos = Len(buf)
    BY <1>3, <1>4, <1>6 DEF InSequence
  <2>2. SubSeq(buf, 1, base + used) = buf
    BY <1>4, SubSeqProperties DEF StreamInv, TypeOK, ServerTypeOK
  <2>3. buf' = joined
    BY <1>6, <2>2
  <2>4. p \in Seq(Nat) /\ Len(p) = m.len /\ \A i \in 1 .. m.len : p[i] = m.pos + i
    BY <1>3 DEF Payload
  <2> HIDE DEF p
  <2>5. /\ Len(joined) = Len(buf) + Len(p)
        /\ \A k \in 1 .. Len(buf) + Len(p) :
             joined[k] = IF k <= Len(buf) THEN buf[k] ELSE p[k - Len(buf)]
    BY <1>4, <2>4, Concatenation, Zenon
  <2> HIDE DEF joined, m
  <2>6. \A k \in 1 .. Len(joined) : joined[k] = k
    <3> SUFFICES ASSUME NEW k \in 1 .. (Len(buf) + Len(p)) PROVE joined[k] = k
      BY <2>5
    <3>1. CASE k <= Len(buf)
      BY <1>3, <1>4, <2>4, <2>5, <3>1
    <3>2. CASE ~(k <= Len(buf))
      <4>1. joined[k] = p[k - Len(buf)] /\ k - Len(buf) \in 1 .. m.len
        BY <1>3, <1>4, <2>4, <2>5, <3>2
      <4> QED
        BY <1>4, <2>1, <2>4, <4>1
    <3> QED
      BY <3>1, <3>2
  <2>7. Len(joined) <= submitted /\ expect' = Len(joined)
    BY <1>3, <1>4, <1>6, <2>1, <2>4, <2>5
  <2>8. ReceivedInPlace'
    BY <1>1, <1>4, <2>3, <2>6, <2>7 DEF ReceivedInPlace, clientVars, histVars
  <2>9. InTransit("SYN") = {} /\ segs # <<>>
    <3>1. ASSUME NEW i \in InTransit("SYN") PROVE FALSE
      <4>1. i < 1 /\ i \in Nat /\ i >= 1
        BY <1>2 DEF StreamInv, SynsBeforeData, InTransit
      <4> QED
        BY <4>1
    <3> QED
      BY <1>2, <3>1 DEF StreamInv, SynsBeforeData
  <2>10. TransitInPlace' /\ SynsBeforeData'
    BY <1>1, <2>9, RemovedInPlace DEF SynsBeforeData, clientVars, tcbVars, histVars
  <2>11. SegmentsInPlace' /\ NothingSentBefore' /\ ReadInPlace'
    BY <1>1 DEF StreamInv, SegmentsInPlace, NothingSentBefore, ReadInPlace,
       clientVars, tcbVars, appVars, histVars
  <2> QED
    BY <2>8, <2>10, <2>11 DEF StreamInv
<1> QED
  BY <1>5, <1>6 DEF RecvData

LEMMA ServerStep ==
  ASSUME StreamInv, TypeOK', ServerNext, UNCHANGED clientVars
  PROVE  StreamInv'
<1> USE DEF chanVars
<1>1. CASE ServerSock
  <2>1. /\ sapp = "start" /\ sapp' = "created" /\ sstate' = "CLOSED"
        /\ buf' = <<>> /\ base' = 0 /\ UNCHANGED <<got, shnd, c2s>>
    BY <1>1 DEF ServerSock
  <2>2. Len(buf) = 0 /\ base = 0 /\ buf = <<>>
    BY <2>1, EmptySeq DEF StreamInv, ReceivedInPlace, TypeOK, ServerTypeOK
  <2>3. ReceivedInPlace' /\ ReadInPlace'
    BY <2>1, <2>2 DEF StreamInv, ReceivedInPlace, ReadInPlace, clientVars, histVars
  <2> QED
    BY <2>1, <2>2, <2>3, ServerAppStep
<1>2. CASE Accept \/ AcceptReturn \/ ServerClose \/ StoreCloseWait \/ StoreClientPort
           \/ ServerFault \/ SendAnswer \/ StoreConnected
  <2> USE DEF Accept, AcceptReturn, ServerClose, StoreCloseWait, StoreClientPort,
              ServerFault, SendAnswer, Answer, SendToClient, StoreConnected
  <2>1. UNCHANGED <<buf, base, got, c2s>>
    BY <1>2
  <2>2. sstate' = "CONNECTED" => expect' = Len(buf)
    BY <1>2 DEF StreamInv, ReceivedInPlace
  <2>3. shnd' \in {"resynack", "connected"} => Len(buf) = 0
    BY <1>2 DEF StreamInv, ReceivedInPlace
  <2>4. sapp' = "start" => sstate' = "NULL" /\ shnd' = "recv" /\ Len(buf) = 0
    BY <1>2 DEF StreamInv, ReceivedInPlace
  <2>5. ReceivedInPlace' /\ ReadInPlace'
    BY <2>1, <2>2, <2>3, <2>4
    DEF StreamInv, ReceivedInPlace, ReadInPlace, clientVars, histVars
  <2> QED
    BY <2>1, <2>5, ServerAppStep
<1>3. CASE Recv
  BY <1>3, RecvStep
<1>4. CASE RecvSyn \/ RecvSynAgain
  <2>1. /\ c2s # <<>> /\ c2s' = Tail(c2s) /\ Head(c2s).type = "SYN"
        /\ expect' \in {0, expect} /\ sstate \in {"LISTENING", "CONNECTED"}
        /\ (sstate = "LISTENING" => expect' = 0)
        /\ UNCHANGED <<buf, base, got, sapp>>
    BY <1>4 DEF RecvSyn, RecvSynAgain, Take
  <2>2. 1 \in InTransit("SYN")
    BY <2>1, HeadInTransit DEF StreamInv, TypeOK
  <2>3. Len(buf) = 0 /\ sapp # "start"
    BY <2>1, <2>2, LenProperties
    DEF StreamInv, SynsBeforeData, ReceivedInPlace, TypeOK, ServerTypeOK
  <2>4. ReceivedInPlace'
    BY <2>1, <2>3 DEF StreamInv, ReceivedInPlace, clientVars, histVars
  <2> QED
    BY <2>1, <2>4, DroppingStep
<1>5. CASE RecvFin
  <2>1. /\ c2s # <<>> /\ c2s' = Tail(c2s) /\ sapp # "start" /\ shnd' = "finack"
        /\ UNCHANGED <<buf, base, got, sapp, sstate, expect>>
    BY <1>5 DEF RecvFin, Take, StreamInv, ReceivedInPlace
  <2>2. ReceivedInPlace'
    BY <2>1 DEF StreamInv, ReceivedInPlace, clientVars, histVars
  <2> QED
    BY <2>1, <2>2, DroppingStep
<1>6. CASE RecvData
  BY <1>6, RecvDataStep
<1>7. CASE RecvIgnored \/ ServerLoss
  <2>1. /\ c2s # <<>> /\ c2s' = Tail(c2s)
        /\ UNCHANGED <<buf, base, got, sapp, sstate, shnd, expect>>
    BY <1>7 DEF RecvIgnored, ServerLoss, serverVars
  <2>2. ReceivedInPlace'
    BY <2>1 DEF StreamInv, ReceivedInPlace, clientVars, histVars
  <2> QED
    BY <2>1, <2>2, DroppingStep
<1> QED
  BY <1>1, <1>2, <1>3, <1>4, <1>5, <1>6, <1>7
  DEF ServerNext, ServerApp, ServerReceive, ServerWork

-----------------------------------------------------------------------------
(* The results.                                                            *)

LEMMA StreamInvInit == Init => StreamInv
<1> SUFFICES ASSUME Init PROVE StreamInv
  OBVIOUS
<1>1. TypeOK
  BY InitTyped
<1>2. /\ c2s = <<>> /\ segs = <<>> /\ nextSeq = 0 /\ submitted = 0 /\ app = "start"
      /\ buf = <<>> /\ got = <<>> /\ base = 0 /\ sstate = "NULL"
      /\ shnd = "recv"
  BY DEF Init, ChannelInit, ClientInit, ServerInit
<1>3. Len(c2s) = 0 /\ Len(segs) = 0 /\ Len(buf) = 0 /\ Len(got) = 0
  BY <1>2, EmptySeq
<1>4. \A t : InTransit(t) = {}
  BY <1>3 DEF InTransit
<1>5. SegmentsInPlace /\ ReceivedInPlace /\ ReadInPlace
  BY <1>2, <1>3 DEF SegmentsInPlace, ReceivedInPlace, ReadInPlace
<1>6. TransitInPlace /\ NothingSentBefore /\ SynsBeforeData
  BY <1>2, <1>3, <1>4 DEF TransitInPlace, NothingSentBefore, InSend, SynsBeforeData
<1> QED
  BY <1>1, <1>5, <1>6 DEF StreamInv

LEMMA StreamInvStep ==
  ASSUME Reconnects = FALSE, StreamInv, [Next]_vars
  PROVE  StreamInv'
<1>1. TypeOK'
  BY NextTyped DEF StreamInv
<1>2. CASE ClientNext /\ UNCHANGED serverVars
  BY <1>1, <1>2, ClientStep
<1>3. CASE ServerNext /\ UNCHANGED clientVars
  BY <1>1, <1>3, ServerStep
<1>4. CASE UNCHANGED vars
  BY <1>1, <1>4, QuietClientStep
  DEF vars, chanVars, clientVars, tcbVars, appVars, histVars, StreamInv, NothingSentBefore
<1> QED
  BY <1>2, <1>3, <1>4 DEF Next

(* The invariant holds of every behaviour, whatever is lost, repeated or   *)
(* delayed and however the threads of mrt_client.c and mrt_server.c        *)
(* interleave.                                                             *)
THEOREM StreamInvariant ==
  ASSUME Reconnects = FALSE
  PROVE  Spec => []StreamInv
<1>1. Init => StreamInv
  BY StreamInvInit
<1>2. StreamInv /\ [Next]_vars => StreamInv'
  BY StreamInvStep
<1> QED
  BY <1>1, <1>2, PTL DEF Spec

(* A duplicate SYN sets expect_seqNum to 0 (mrt_server.c, case CONNECTED)  *)
(* only while it is 0.                                                     *)
THEOREM NoRewind ==
  ASSUME Reconnects = FALSE
  PROVE  Spec => ExpectNeverRewinds
<1>1. ASSUME StreamInv, StreamInv', [Next]_vars,
             sstate = "CONNECTED", sstate' = "CONNECTED"
      PROVE  expect' >= expect
  <2>1. expect = Len(buf) /\ expect' = Len(buf')
    BY <1>1 DEF StreamInv, ReceivedInPlace
  <2>2. Len(buf') >= Len(buf)
    <3>1. buf' = buf \/ RecvData \/ ServerSock
      BY <1>1 DEF Next, ServerNext, ServerApp, ServerReceive, ServerWork, Accept,
         AcceptReturn, Recv, ServerClose, RecvSyn, RecvSynAgain, RecvFin, RecvIgnored,
         ServerLoss, SendAnswer, Answer, StoreConnected, StoreCloseWait,
         StoreClientPort, ServerFault, serverVars, vars
    <3>2. CASE buf' = buf
      BY <2>1, <3>2, <1>1 DEF StreamInv, TypeOK, ServerTypeOK
    <3>3. CASE RecvData
      <4>1. c2s # <<>> /\ expect' \in {expect, expect + Head(c2s).len}
        BY <3>3 DEF RecvData, Take
      <4>2. Head(c2s).len \in Nat /\ expect \in Nat
        BY <1>1, <4>1, ReceivedByServer DEF StreamInv, TypeOK, ClientMsg, ServerTypeOK
      <4> QED
        BY <2>1, <4>1, <4>2
    <3>4. CASE ServerSock
      BY <1>1, <3>4 DEF ServerSock
    <3> QED
      BY <3>1, <3>2, <3>3, <3>4
  <2> QED
    BY <2>1, <2>2
<1>2. StreamInv /\ StreamInv' /\ [Next]_vars =>
        [sstate = "CONNECTED" /\ sstate' = "CONNECTED" => expect' >= expect]_vars
  BY <1>1
<1> QED
  BY <1>2, StreamInvariant, PTL DEF Spec, ExpectNeverRewinds

(* MRT implements the stream: every step of the detailed specification is  *)
(* a write, a read or a stutter of module MRTStream.                       *)
THEOREM StreamCorrect ==
  ASSUME Reconnects = FALSE
  PROVE  Spec => ImplementsStream
<1>1. Init => Stream!StreamInit
  BY DEF Init, ClientInit, ServerInit, Stream!StreamInit
<1>2. ASSUME StreamInv, [Next]_vars
      PROVE  [Stream!StreamNext]_<<submitted, got>>
  <2>1. CASE ClientNext /\ UNCHANGED serverVars
    <3>1. got' = got
      BY <2>1 DEF serverVars
    <3>2. submitted' = submitted \/ Send
      BY <2>1 DEF ClientNext, AppCall, AppProgress, HandlerReceive, HandlerWork, TimerStep,
         Sock, Connect, SendSyn, ConnectPoll, ConnectLastCheck, ConnectGiveUp, ReadHead, AppendList,
         SendUnsent, CountRead, CountStore, SendReturn, Disconnect, SendFin,
         DisconnectPoll, DisconnectLastCheck, Close, RecvSynAck, RecvFinAck, RecvDataAck, RecvOther,
         StorePort, CountAckRead, CountAckStore, NextSegment, StoreHead, HandlerFault,
         ClientLoss, TimerTop, TimerWake, TimerTest, TimerLoad, Resend, ResendDone, TimerFault,
         histVars, clientVars
    <3>3. CASE Send
      <4>1. PICK length \in SendLens : submitted' = submitted + length
        BY <3>3 DEF Send
      <4>2. length \in Nat /\ submitted \in Nat
        BY <1>2, ClientAssumption DEF StreamInv, TypeOK, ClientTypeOK
      <4>3. submitted' \in Nat /\ submitted' >= submitted
        BY <4>1, <4>2
      <4> QED
        BY <3>1, <4>3 DEF Stream!StreamNext, Stream!Write
    <3> QED
      BY <3>1, <3>2, <3>3
  <2>2. CASE ServerNext /\ UNCHANGED clientVars
    <3>1. submitted' = submitted
      BY <2>2 DEF clientVars, histVars
    <3>2. got' = got \/ Recv
      BY <2>2 DEF ServerNext, ServerApp, ServerReceive, ServerWork, ServerSock,
         Accept, AcceptReturn, ServerClose, RecvSyn, RecvSynAgain, RecvFin, RecvData,
         RecvIgnored, ServerLoss, SendAnswer, Answer, StoreConnected, StoreCloseWait,
         StoreClientPort, ServerFault, serverVars
    <3>3. CASE Recv
      <4>1. PICK length \in RecvLens : /\ used >= length
                                       /\ got' = got \o SubSeq(buf, base + 1, base + length)
        BY <3>3 DEF Recv
      <4>2. length \in Nat /\ submitted \in Nat /\ got \in Seq(Nat) /\ Len(got) \in Nat
        BY <1>2, ServerAssumption, LenProperties
        DEF StreamInv, TypeOK, ClientTypeOK, ServerTypeOK
      <4>3. /\ got' = got \o [i \in 1 .. length |-> Len(got) + i]
            /\ Len(got) + length <= submitted
        BY <1>2, <4>1, <4>2, BytesRead
      <4>4. CASE length = 0
        <5>1. [i \in 1 .. length |-> Len(got) + i] = <<>>
          BY <4>4
        <5> QED
          BY <3>1, <4>2, <4>3, <5>1, ConcatEmptySeq
      <4>5. CASE length # 0
        <5>1. length \in 1 .. (submitted - Len(got))
          BY <4>2, <4>3, <4>5
        <5> QED
          BY <3>1, <4>3, <5>1 DEF Stream!StreamNext, Stream!Read
      <4> QED
        BY <4>4, <4>5
    <3> QED
      BY <3>1, <3>2, <3>3
  <2>3. CASE UNCHANGED vars
    BY <2>3 DEF vars, clientVars, serverVars, histVars
  <2> QED
    BY <1>2, <2>1, <2>2, <2>3 DEF Next
<1> QED
  BY <1>1, <1>2, StreamInvariant, PTL DEF Spec, ImplementsStream, Stream!StreamSpec

-----------------------------------------------------------------------------
(* The handshake.                                                          *)

(* The answers on their way to the client, when one is taken or sent.      *)
LEMMA AnswerTaken ==
  ASSUME ChannelTypeOK, s2c # <<>>, s2c' = Tail(s2c)
  PROVE  /\ \A k \in 1 .. Len(s2c') : k + 1 \in 1 .. Len(s2c) /\ s2c'[k] = s2c[k + 1]
         /\ 1 \in 1 .. Len(s2c) /\ Head(s2c) = s2c[1]
<1>1. /\ Len(s2c) \in Nat \ {0} /\ Len(s2c') = Len(s2c) - 1 /\ Head(s2c) = s2c[1]
      /\ \A i \in 1 .. (Len(s2c) - 1) : s2c'[i] = s2c[i + 1]
  BY HeadTailProperties, LenProperties, EmptySeq DEF ChannelTypeOK
<1> QED
  BY <1>1

LEMMA AnswerSent ==
  ASSUME ChannelTypeOK, NEW m \in ServerMsg, s2c' = Append(s2c, m)
  PROVE  \A k \in 1 .. Len(s2c') :
           s2c'[k] = m \/ (k \in 1 .. Len(s2c) /\ s2c'[k] = s2c[k])
<1>1. /\ Len(s2c) \in Nat /\ Len(s2c') = Len(s2c) + 1
      /\ \A i \in 1 .. Len(s2c) : s2c'[i] = s2c[i]
      /\ s2c'[Len(s2c) + 1] = m
  BY AppendProperties, LenProperties DEF ChannelTypeOK
<1> QED
  BY <1>1

(* The client only takes answers, and only sends segments to the server.   *)
LEMMA ClientTakes ==
  ASSUME TypeOK, ClientNext
  PROVE  \A k \in 1 .. Len(s2c') : \E j \in 1 .. Len(s2c) : s2c'[k] = s2c[j]
<1>1. s2c' = s2c \/ (s2c # <<>> /\ s2c' = Tail(s2c))
  BY DEF ClientNext, AppCall, AppProgress, HandlerReceive, HandlerWork, TimerStep,
     Sock, Connect, SendSyn, ConnectPoll, ConnectLastCheck, ConnectGiveUp, Send, ReadHead, AppendList,
     SendUnsent, CountRead, CountStore, SendReturn, Disconnect, SendFin,
     DisconnectPoll, DisconnectLastCheck, Close, RecvSynAck, RecvFinAck, RecvDataAck, RecvOther,
     StorePort, CountAckRead, CountAckStore, NextSegment, StoreHead, HandlerFault,
     ClientLoss, TimerTop, TimerWake, TimerTest, TimerLoad, Resend, ResendDone, TimerFault,
     SendToServer, TakeAnswer, chanVars
<1> QED
  BY <1>1, AnswerTaken DEF TypeOK

(* The number of FINs on their way grows only with a FIN.                  *)
LEMMA OtherSegments ==
  ASSUME TypeOK, NEW t, NEW m \in ClientMsg, SendToServer(m), m.type # t
  PROVE  InTransit(t)' = InTransit(t)
<1>1. ChannelTypeOK /\ c2s' = Append(c2s, m)
  BY DEF TypeOK, SendToServer
<1>2. InTransit(t)' = InTransit(t) \cup (IF m.type = t THEN {Len(c2s) + 1} ELSE {})
  BY <1>1, Appended
<1> QED
  BY <1>2

LEMMA ClientFins ==
  ASSUME TypeOK, ClientNext, ~SendFin
  PROVE  InTransit("FIN")' = InTransit("FIN")
<1>1. CASE c2s' = c2s
  BY <1>1 DEF InTransit
<1>2. CASE SendSyn
  <2>1. ClientControl("SYN", "svr") \in ClientMsg /\ ClientControl("SYN", "svr").type = "SYN"
    BY ClientMessages DEF ClientControl, Port
  <2> QED
    BY <1>2, <2>1, OtherSegments DEF SendSyn
<1>3. CASE SendUnsent \/ \E t \in Timers : Resend(t)
  <2>1. PICK i \in SegRef \ {0} : SendToServer(Data(segs[i]))
    <3>1. CASE SendUnsent
      BY <3>1 DEF SendUnsent, TypeOK, ClientTypeOK
    <3>2. ASSUME NEW t \in Timers, Resend(t)
          PROVE  timerSeg[t] \in SegRef \ {0} /\ SendToServer(Data(segs[timerSeg[t]]))
      BY <3>2 DEF Resend, TypeOK, ClientTypeOK
    <3> QED
      BY <1>3, <3>1, <3>2
  <2>2. Data(segs[i]) \in ClientMsg /\ Data(segs[i]).type = "DATA"
    BY PointersTyped, ClientMessages DEF TypeOK, Data
  <2> QED
    BY <2>1, <2>2, OtherSegments
<1>4. c2s' = c2s \/ SendSyn \/ SendUnsent \/ \E t \in Timers : Resend(t)
  BY DEF ClientNext, AppCall, AppProgress, HandlerReceive, HandlerWork, TimerStep,
     Sock, Connect, ConnectPoll, ConnectLastCheck, ConnectGiveUp, Send, ReadHead, AppendList,
     CountRead, CountStore, SendReturn, Disconnect,
     DisconnectPoll, DisconnectLastCheck, Close, RecvSynAck, RecvFinAck, RecvDataAck, RecvOther,
     StorePort, CountAckRead, CountAckStore, NextSegment, StoreHead, HandlerFault,
     ClientLoss, TimerTop, TimerWake, TimerTest, TimerLoad, ResendDone, TimerFault,
     TakeAnswer, chanVars
<1> QED
  BY <1>1, <1>2, <1>3, <1>4

LEMMA ClientHandshake ==
  ASSUME Reconnects = FALSE, TypeOK, HandshakeInv, ClientNext, UNCHANGED serverVars
  PROVE  HandshakeInv'
<1> USE DEF tcbVars, appVars, hndVars, timerVars, histVars
<1>1. Ending => Ending'
  BY DEF Ending, ClientNext, AppCall, AppProgress, HandlerReceive, HandlerWork, TimerStep,
     Sock, Connect, MayConnect, SendSyn, ConnectPoll, ConnectLastCheck, ConnectGiveUp, Send, ReadHead,
     AppendList, SendUnsent, CountRead, CountStore, SendReturn, Disconnect, SendFin,
     DisconnectPoll, DisconnectLastCheck, Close, RecvSynAck, RecvFinAck, RecvDataAck, RecvOther,
     StorePort, CountAckRead, CountAckStore, NextSegment, StoreHead, HandlerFault,
     ClientLoss, TimerTop, TimerWake, TimerTest, TimerLoad, Resend, ResendDone, TimerFault, clientVars
<1>2. Ending' => cstate' \notin {"SYNSENT", "CONNECTED"}
  BY DEF HandshakeInv, Ending, ClientNext, AppCall, AppProgress, HandlerReceive, HandlerWork, TimerStep,
     Sock, Connect, MayConnect, SendSyn, ConnectPoll, ConnectLastCheck, ConnectGiveUp, Send, ReadHead,
     AppendList, SendUnsent, CountRead, CountStore, SendReturn, Disconnect, SendFin,
     DisconnectPoll, DisconnectLastCheck, Close, RecvSynAck, RecvFinAck, RecvDataAck, RecvOther,
     StorePort, CountAckRead, CountAckStore, NextSegment, StoreHead, HandlerFault,
     ClientLoss, TimerTop, TimerWake, TimerTest, TimerLoad, Resend, ResendDone, TimerFault, clientVars,
     Expects
<1>3. cstate' = "CONNECTED" =>
        cstate = "CONNECTED" \/ \E i \in 1 .. Len(s2c) : s2c[i].type = "SYNACK"
  <2>1. cstate' = "CONNECTED" => cstate = "CONNECTED" \/ RecvSynAck
    BY DEF ClientNext, AppCall, AppProgress, HandlerReceive, HandlerWork, TimerStep,
       Sock, Connect, MayConnect, SendSyn, ConnectPoll, ConnectLastCheck, ConnectGiveUp, Send, ReadHead,
       AppendList, SendUnsent, CountRead, CountStore, SendReturn, Disconnect, SendFin,
       DisconnectPoll, DisconnectLastCheck, Close, RecvFinAck, RecvDataAck, RecvOther,
       StorePort, CountAckRead, CountAckStore, NextSegment, StoreHead, HandlerFault,
       ClientLoss, TimerTop, TimerWake, TimerTest, TimerLoad, Resend, ResendDone, TimerFault, clientVars
  <2>2. CASE RecvSynAck
    BY <2>2, AnswerTaken DEF RecvSynAck, TakeAnswer, TypeOK
  <2> QED
    BY <2>1, <2>2
<1>4. ~Ending' => InTransit("FIN")' = InTransit("FIN")
  <2>1. SendFin => Ending'
    BY DEF SendFin, Ending
  <2> QED
    BY <2>1, ClientFins
<1>5. (\E i \in 1 .. Len(s2c') : s2c'[i].type = "SYNACK") =>
        \E i \in 1 .. Len(s2c) : s2c[i].type = "SYNACK"
  BY ClientTakes
<1>6. UNCHANGED <<sstate, sapp, shnd>>
  BY DEF serverVars
<1> HIDE DEF tcbVars, appVars, hndVars, timerVars, histVars
<1> QED
  BY <1>1, <1>2, <1>3, <1>4, <1>5, <1>6 DEF HandshakeInv

LEMMA ServerHandshake ==
  ASSUME TypeOK, HandshakeInv, ServerNext, UNCHANGED clientVars
  PROVE  HandshakeInv'
<1>1. (Ending <=> Ending') /\ cstate' = cstate
  BY DEF clientVars, tcbVars, appVars, Ending
<1>2. CASE Ending
  BY <1>1, <1>2 DEF HandshakeInv
<1>3. CASE ~Ending
  <2> DEFINE SynAcks == {i \in 1 .. Len(s2c) : s2c[i].type = "SYNACK"}
             Promised == cstate = "CONNECTED" \/ SynAcks # {}
                         \/ shnd \in {"synack", "resynack", "connected"}
  <2>0. /\ InTransit("FIN") = {}
        /\ shnd \notin {"finack", "closewait", "clientport"} /\ sstate # "CLOSEWAIT"
        /\ sapp \in {"start", "created"} => sstate \in {"NULL", "CLOSED"}
        /\ Promised => sstate = "CONNECTED"
    BY <1>3 DEF HandshakeInv
  <2>1. SUFFICES /\ InTransit("FIN")' = {}
                 /\ shnd' \notin {"finack", "closewait", "clientport"} /\ sstate' # "CLOSEWAIT"
                 /\ sapp' \in {"start", "created"} => sstate' \in {"NULL", "CLOSED"}
                 /\ Promised' => sstate' = "CONNECTED"
    BY <1>1, <1>3 DEF HandshakeInv
  <2> HIDE DEF Promised
  <2>2. CASE RecvSyn \/ RecvSynAgain \/ RecvData \/ RecvIgnored \/ ServerLoss
    <3>1. c2s # <<>> /\ c2s' = Tail(c2s) /\ s2c' = s2c
      BY <2>2 DEF RecvSyn, RecvSynAgain, RecvData, RecvIgnored, ServerLoss, Take
    <3>2. InTransit("FIN")' = {}
      BY <2>0, <3>1, Removed DEF TypeOK
    <3>3. SynAcks' = SynAcks
      BY <3>1
    <3>4. /\ sapp' = sapp
          /\ \/ UNCHANGED <<sstate, shnd>>
             \/ sstate \in {"LISTENING", "CONNECTED"} /\ sstate' = "CONNECTED"
                /\ shnd' \in {"synack", "resynack", "dataack"}
      BY <2>2 DEF RecvSyn, RecvSynAgain, RecvData, RecvIgnored, ServerLoss, serverVars
    <3> QED
      BY <1>1, <2>0, <3>2, <3>3, <3>4 DEF Promised
  <2>3. CASE RecvFin
    <3>1. c2s # <<>> /\ Head(c2s).type = "FIN"
      BY <2>3 DEF RecvFin, Take
    <3>2. 1 \in InTransit("FIN")
      BY <3>1, HeadInTransit DEF TypeOK
    <3> QED
      BY <2>0, <3>2
  <2>4. CASE SendAnswer
    <3>1. PICK t \in {"SYNACK", "FINACK", "DATAACK"}, n \in Nat :
             /\ SendToClient(ServerReply(t, n))
             /\ t = "SYNACK" => shnd \in {"synack", "resynack"}
      BY <2>4 DEF SendAnswer, Answer, TypeOK, ServerTypeOK
    <3>2. ServerReply(t, n) \in ServerMsg /\ ServerReply(t, n).type = t
      BY DEF ServerReply, ServerMsg
    <3>3. \A k \in 1 .. Len(s2c') :
            s2c'[k] = ServerReply(t, n) \/ (k \in 1 .. Len(s2c) /\ s2c'[k] = s2c[k])
      BY <3>1, <3>2, AnswerSent DEF SendToClient, TypeOK
    <3>4. SynAcks' # {} => SynAcks # {} \/ shnd \in {"synack", "resynack"}
      BY <3>1, <3>2, <3>3
    <3>5. /\ UNCHANGED <<sstate, sapp>>
          /\ shnd' \notin {"finack", "closewait", "clientport"}
          /\ shnd' \in {"synack", "resynack", "connected"} => shnd = "resynack"
      BY <2>0, <2>4 DEF SendAnswer, Answer
    <3>6. InTransit("FIN")' = InTransit("FIN")
      BY <3>1 DEF SendToClient, InTransit
    <3> QED
      BY <1>1, <2>0, <3>4, <3>5, <3>6 DEF Promised
  <2>5. CASE StoreConnected
    <3>1. UNCHANGED <<c2s, s2c, sapp>> /\ shnd = "connected" /\ sstate' = "CONNECTED" /\ shnd' = "recv"
      BY <2>5 DEF StoreConnected, chanVars
    <3> QED
      BY <2>0, <3>1 DEF Promised, InTransit
  <2>6. CASE StoreCloseWait \/ StoreClientPort
    BY <2>0, <2>6 DEF StoreCloseWait, StoreClientPort
  <2>7. CASE ServerSock \/ Accept \/ AcceptReturn \/ Recv \/ ServerClose \/ ServerFault
    <3>1. UNCHANGED <<c2s, s2c, shnd>>
      BY <2>7 DEF ServerSock, Accept, AcceptReturn, Recv, ServerClose, ServerFault, chanVars
    <3>2. /\ sstate' # "CLOSEWAIT" /\ (sstate = "CONNECTED" => sstate' = "CONNECTED")
          /\ sapp' \in {"start", "created"} => sstate' \in {"NULL", "CLOSED"}
      BY <2>0, <2>7 DEF ServerSock, Accept, AcceptReturn, Recv, ServerClose, ServerFault
    <3> QED
      BY <1>1, <2>0, <3>1, <3>2 DEF Promised, InTransit
  <2> QED
    BY <2>2, <2>3, <2>4, <2>5, <2>6, <2>7 DEF ServerNext, ServerApp, ServerReceive, ServerWork
<1> QED
  BY <1>2, <1>3

LEMMA HandshakeInvStep ==
  ASSUME Reconnects = FALSE, TypeOK, HandshakeInv, [Next]_vars
  PROVE  HandshakeInv'
<1>1. CASE UNCHANGED vars
  BY <1>1 DEF vars, chanVars, clientVars, tcbVars, appVars, serverVars, HandshakeInv, Ending, InTransit
<1> QED
  BY <1>1, ClientHandshake, ServerHandshake DEF Next

(* A connected client has a connected server: no SYNACK, however late,     *)
(* connects it to a socket that did not accept it or has seen a FIN.       *)
THEOREM Handshake ==
  ASSUME Reconnects = FALSE
  PROVE  Spec => []HandshakeAgreement
<1>1. Init => TypeOK /\ HandshakeInv
  <2> SUFFICES ASSUME Init PROVE HandshakeInv
    BY InitTyped
  <2>1. /\ cstate = "NULL" /\ app = "start" /\ sstate = "NULL" /\ shnd = "recv"
        /\ Len(c2s) = 0 /\ Len(s2c) = 0
    BY EmptySeq DEF Init, ChannelInit, ClientInit, ServerInit
  <2> QED
    BY <2>1 DEF HandshakeInv, Ending, InTransit
<1>2. TypeOK /\ HandshakeInv /\ [Next]_vars => TypeOK' /\ HandshakeInv'
  BY NextTyped, HandshakeInvStep
<1>3. HandshakeInv => HandshakeAgreement
  BY DEF HandshakeInv, HandshakeAgreement
<1> QED
  BY <1>1, <1>2, <1>3, PTL DEF Spec

-----------------------------------------------------------------------------
(* The acknowledgements.                                                   *)

(* The segments of one send do not overlap, and start at next_seqNum.      *)
LEMMA SegmentsOrdered ==
  ASSUME ClientTypeOK, NEW length \in Nat
  PROVE  \A i, j \in 1 .. Len(Segments(length)) :
           /\ Segments(length)[j].seq >= nextSeq
           /\ i < j => Segments(length)[i].seq + Segments(length)[i].len <= Segments(length)[j].seq
<1> DEFINE n      == (length \div MaxSegLen) + 1
           off(i) == (i - 1) * MaxSegLen
           len(i) == IF i = n THEN length % MaxSegLen ELSE MaxSegLen
<1>1. /\ length \div MaxSegLen \in Nat /\ length % MaxSegLen \in 0 .. (MaxSegLen - 1)
      /\ MaxSegLen \in Nat \ {0} /\ nextSeq \in Nat
  BY DivMod, ChannelAssumption DEF ClientTypeOK
<1>2. /\ Len(Segments(length)) = n
      /\ \A i \in 1 .. n : /\ Segments(length)[i].seq = nextSeq + off(i)
                          /\ Segments(length)[i].len = len(i)
  <2>1. n \in Nat
    BY <1>1
  <2> HIDE DEF n, off, len
  <2>2. Segments(length) = [i \in 1 .. n |-> [port |-> svrPort, seq |-> nextSeq + off(i),
                                             len |-> len(i), pos |-> submitted + off(i)]]
    BY DEF Segments, n, off, len
  <2> QED
    BY <2>1, <2>2
<1>3. \A i \in 1 .. n : off(i) \in Nat /\ len(i) \in 0 .. MaxSegLen
  <2> TAKE i \in 1 .. n
  <2>1. off(i) \in Nat
    BY <1>1, ProductOfNaturals, i - 1 \in Nat
  <2> QED
    BY <1>1, <2>1
<1>4. ASSUME NEW i \in 1 .. n, NEW j \in 1 .. n, i < j
      PROVE  off(i) + MaxSegLen <= off(j)
  <2>1. i \in Nat /\ j - 1 \in Nat /\ i - 1 \in Nat /\ i <= j - 1
    BY <1>1, <1>4
  <2>2. i * MaxSegLen <= (j - 1) * MaxSegLen
    BY <1>1, <2>1, ProductMonotone
  <2>3. i * MaxSegLen = (i - 1) * MaxSegLen + MaxSegLen
    BY <1>1, <2>1
  <2> QED
    BY <2>2, <2>3
<1> HIDE DEF n, off, len
<1>5. ASSUME NEW i \in 1 .. n, NEW j \in 1 .. n
      PROVE  /\ nextSeq + off(j) >= nextSeq
             /\ i < j => nextSeq + off(i) + len(i) <= nextSeq + off(j)
  BY <1>1, <1>3, <1>4
<1> QED
  BY <1>2, <1>5

(* mrt_client_send changes no segment that is there already.               *)
SegsKept ==
  /\ Len(segs) \in Nat /\ Len(segs') \in Nat /\ Len(segs) <= Len(segs')
  /\ \A i \in 1 .. Len(segs) : segs'[i] = segs[i]

LEMMA SendOrder ==
  ASSUME StreamInv, SegmentsInOrder, Send
  PROVE  SegsKept /\ SegmentsInOrder'
<1> PICK length \in SendLens : segs' = segs \o Segments(length)
  BY DEF Send
<1> DEFINE more == Segments(length)
           joined == segs \o more
<1>1. ClientTypeOK /\ length \in Nat /\ segs \in Seq(DataSegment) /\ Len(segs) \in Nat
  BY ClientAssumption, LenProperties DEF StreamInv, TypeOK, ClientTypeOK
<1>2. more \in Seq(DataSegment) /\ Len(more) \in Nat
  BY <1>1, SegmentsOfSend
<1>3. \A i, j \in 1 .. Len(more) :
        more[j].seq >= nextSeq /\ (i < j => more[i].seq + more[i].len <= more[j].seq)
  BY <1>1, SegmentsOrdered
<1>4. segs' = joined
  OBVIOUS
<1> HIDE DEF more
<1>5. /\ Len(joined) = Len(segs) + Len(more)
      /\ \A i \in 1 .. Len(segs) + Len(more) :
           joined[i] = IF i <= Len(segs) THEN segs[i] ELSE more[i - Len(segs)]
  BY <1>1, <1>2, Concatenation, Zenon
<1> HIDE DEF joined
<1>6. \A i \in 1 .. Len(segs) : segs[i].seq + segs[i].len <= nextSeq
  BY DEF StreamInv, SegmentsInPlace
<1>7. /\ \A i \in 1 .. Len(segs) : segs[i].seq \in Nat /\ segs[i].len \in Nat
      /\ \A i \in 1 .. Len(more) : more[i].seq \in Nat /\ more[i].len \in Nat
  <2>1. \A i \in 1 .. Len(segs) : segs[i] \in DataSegment
    BY <1>1, ElementOfSeq
  <2>2. \A i \in 1 .. Len(more) : more[i] \in DataSegment
    BY <1>2, ElementOfSeq
  <2> QED
    BY <2>1, <2>2 DEF DataSegment
<1>8. ASSUME NEW i \in 1 .. Len(joined), NEW j \in 1 .. Len(joined), i < j
      PROVE  joined[i].seq + joined[i].len <= joined[j].seq
  <2>1. CASE j <= Len(segs)
    <3>1. /\ joined[i] = segs[i] /\ i \in 1 .. Len(segs)
          /\ joined[j] = segs[j] /\ j \in 1 .. Len(segs)
      BY <1>1, <1>2, <1>5, <1>8, <2>1
    <3>2. segs[i].seq + segs[i].len <= segs[j].seq
      BY <1>8, <3>1 DEF SegmentsInOrder
    <3> QED
      BY <3>1, <3>2
  <2>2. CASE i <= Len(segs) /\ ~(j <= Len(segs))
    <3>1. joined[i] = segs[i] /\ i \in 1 .. Len(segs)
          /\ joined[j] = more[j - Len(segs)] /\ j - Len(segs) \in 1 .. Len(more)
      BY <1>1, <1>2, <1>5, <2>2
    <3>2. more[j - Len(segs)].seq >= nextSeq /\ segs[i].seq + segs[i].len <= nextSeq
      BY <1>3, <1>6, <3>1
    <3>3. more[j - Len(segs)].seq \in Nat /\ segs[i].seq \in Nat /\ segs[i].len \in Nat
          /\ nextSeq \in Nat
      BY <1>1, <1>7, <3>1 DEF ClientTypeOK
    <3>4. segs[i].seq + segs[i].len <= more[j - Len(segs)].seq
      BY <3>2, <3>3, SMTT(20)
    <3> QED
      BY <3>1, <3>4
  <2>3. CASE ~(i <= Len(segs))
    <3>1. /\ joined[i] = more[i - Len(segs)] /\ i - Len(segs) \in 1 .. Len(more)
          /\ joined[j] = more[j - Len(segs)] /\ j - Len(segs) \in 1 .. Len(more)
          /\ i - Len(segs) < j - Len(segs)
      BY <1>1, <1>2, <1>5, <1>8, <2>3
    <3> QED
      BY <1>3, <3>1
  <2> QED
    BY <2>1, <2>2, <2>3
<1>9. SegmentsInOrder'
  BY <1>4, <1>8 DEF SegmentsInOrder
<1>10. SegsKept
  BY <1>1, <1>2, <1>4, <1>5 DEF SegsKept
<1> QED
  BY <1>9, <1>10

(* The client sends DATA from its send buffer only.                        *)
LEMMA ClientSegments ==
  ASSUME TypeOK, ClientNext
  PROVE  \/ c2s' = c2s
         \/ \E i \in 1 .. Len(segs) : SendToServer(Data(segs[i])) /\ segs' = segs
         \/ \E m \in ClientMsg : m.type # "DATA" /\ SendToServer(m) /\ segs' = segs
<1>1. CASE SendSyn
  <2>1. ClientControl("SYN", "svr") \in ClientMsg /\ ClientControl("SYN", "svr").type = "SYN"
    BY ClientMessages DEF ClientControl, Port
  <2> QED
    BY <1>1, <2>1 DEF SendSyn, tcbVars
<1>2. CASE SendFin
  <2>1. ClientControl("FIN", finPort) \in ClientMsg /\ ClientControl("FIN", finPort).type = "FIN"
    BY ClientMessages DEF ClientControl, TypeOK, ClientTypeOK
  <2> QED
    BY <1>2, <2>1 DEF SendFin, tcbVars
<1>3. CASE SendUnsent
  <2>1. unsent \in 1 .. Len(segs)
    BY <1>3, PointersTyped DEF SendUnsent, TypeOK, ClientTypeOK, SegRef
  <2> QED
    BY <1>3, <2>1 DEF SendUnsent, tcbVars
<1>4. ASSUME NEW t \in Timers, Resend(t)
      PROVE  \E i \in 1 .. Len(segs) : SendToServer(Data(segs[i])) /\ segs' = segs
  <2>1. timerSeg[t] \in 1 .. Len(segs)
    BY <1>4, PointersTyped DEF Resend, TypeOK, ClientTypeOK, SegRef
  <2> QED
    BY <1>4, <2>1 DEF Resend, tcbVars
<1>5. c2s' = c2s \/ SendSyn \/ SendFin \/ SendUnsent \/ \E t \in Timers : Resend(t)
  BY DEF ClientNext, AppCall, AppProgress, HandlerReceive, HandlerWork, TimerStep,
     Sock, Connect, ConnectPoll, ConnectLastCheck, ConnectGiveUp, Send, ReadHead, AppendList,
     CountRead, CountStore, SendReturn, Disconnect,
     DisconnectPoll, DisconnectLastCheck, Close, RecvSynAck, RecvFinAck, RecvDataAck, RecvOther,
     StorePort, CountAckRead, CountAckStore, NextSegment, StoreHead, HandlerFault,
     ClientLoss, TimerTop, TimerWake, TimerTest, TimerLoad, ResendDone, TimerFault,
     TakeAnswer, chanVars
<1> QED
  BY <1>1, <1>2, <1>3, <1>4, <1>5

LEMMA ClientTransit ==
  ASSUME TypeOK, TransitIsBuffered, SegsKept, ClientNext
  PROVE  TransitIsBuffered'
<1>1. CASE c2s' = c2s
  <2> SUFFICES ASSUME NEW k \in InTransit("DATA")
               PROVE  \E i \in 1 .. Len(segs') : c2s[k].seq = segs'[i].seq /\ c2s[k].len = segs'[i].len
    BY <1>1 DEF TransitIsBuffered, InTransit
  <2>1. PICK i \in 1 .. Len(segs) : c2s[k].seq = segs[i].seq /\ c2s[k].len = segs[i].len
    BY DEF TransitIsBuffered
  <2>2. i \in 1 .. Len(segs') /\ segs'[i] = segs[i]
    BY DEF SegsKept
  <2> QED
    BY <2>1, <2>2
<1>2. ASSUME NEW i \in 1 .. Len(segs), SendToServer(Data(segs[i])), segs' = segs
      PROVE  TransitIsBuffered'
  <2> DEFINE m == Data(segs[i])
  <2>1. segs[i] \in DataSegment
    BY ElementOfSeq DEF TypeOK, ClientTypeOK
  <2>2. m \in ClientMsg /\ m.type = "DATA" /\ m.seq = segs[i].seq /\ m.len = segs[i].len
    BY <2>1, ClientMessages DEF Data
  <2>3. c2s' = Append(c2s, m)
    BY <1>2 DEF SendToServer
  <2> HIDE DEF m
  <2>4. /\ InTransit("DATA")' = InTransit("DATA") \cup {Len(c2s) + 1}
        /\ \A j \in 1 .. Len(c2s) : c2s'[j] = c2s[j]
        /\ c2s'[Len(c2s) + 1] = m
    BY <2>2, <2>3, Appended DEF TypeOK
  <2>5. InTransit("DATA") \subseteq 1 .. Len(c2s)
    BY DEF InTransit
  <2> QED
    BY <1>2, <2>2, <2>4, <2>5 DEF TransitIsBuffered
<1>3. ASSUME NEW m \in ClientMsg, m.type # "DATA", SendToServer(m), segs' = segs
      PROVE  TransitIsBuffered'
  <2>1. /\ InTransit("DATA")' = InTransit("DATA")
        /\ \A j \in 1 .. Len(c2s) : c2s'[j] = c2s[j]
    <3>1. ChannelTypeOK /\ c2s' = Append(c2s, m)
      BY <1>3 DEF TypeOK, SendToServer
    <3> QED
      BY <1>3, <3>1, Appended, OtherSegments
  <2>2. InTransit("DATA") \subseteq 1 .. Len(c2s)
    BY DEF InTransit
  <2> QED
    BY <1>3, <2>1, <2>2 DEF TransitIsBuffered
<1> QED
  BY <1>1, <1>2, <1>3, ClientSegments

(* What was acknowledged stays so.                                         *)
LEMMA StillAtEnd ==
  ASSUME SegsKept
  PROVE  \A n : AtEnd(n) => n = 0 \/ \E i \in 1 .. Len(segs') : n = segs'[i].seq + segs'[i].len
  BY DEF SegsKept, AtEnd

LEMMA ClientAcks ==
  ASSUME StreamInv, AckInv, ClientNext, UNCHANGED serverVars
  PROVE  AckInv'
<1>1. SegsKept /\ SegmentsInOrder'
  <2>1. segs' = segs \/ Send
    BY DEF ClientNext, AppCall, AppProgress, HandlerReceive, HandlerWork, TimerStep,
       Sock, Connect, SendSyn, ConnectPoll, ConnectLastCheck, ConnectGiveUp, ReadHead,
       AppendList, SendUnsent, CountRead, CountStore, SendReturn, Disconnect, SendFin,
       DisconnectPoll, DisconnectLastCheck, Close, RecvSynAck, RecvFinAck, RecvDataAck, RecvOther,
       StorePort, CountAckRead, CountAckStore, NextSegment, StoreHead, HandlerFault,
       ClientLoss, TimerTop, TimerWake, TimerTest, TimerLoad, Resend, ResendDone, TimerFault,
       clientVars, tcbVars
  <2>2. CASE segs' = segs
    <3>1. Len(segs) \in Nat
      BY LenProperties DEF StreamInv, TypeOK, ClientTypeOK
    <3>2. SegsKept
      BY <2>2, <3>1 DEF SegsKept
    <3> QED
      BY <2>2, <3>2 DEF AckInv, SegmentsInOrder
  <2> QED
    BY <2>1, <2>2, SendOrder DEF AckInv
<1>2. TransitIsBuffered'
  BY <1>1, ClientTransit DEF StreamInv, AckInv
<1>3. hndAck' \in {0, hndAck} \/ \E j \in 1 .. Len(s2c) : hndAck' = s2c[j].seq
  <2>1. hndAck' \in {0, hndAck} \/ RecvDataAck
    BY DEF ClientNext, AppCall, AppProgress, HandlerReceive, HandlerWork, TimerStep,
       Sock, Connect, SendSyn, ConnectPoll, ConnectLastCheck, ConnectGiveUp, Send, ReadHead,
       AppendList, SendUnsent, CountRead, CountStore, SendReturn, Disconnect, SendFin,
       DisconnectPoll, DisconnectLastCheck, Close, RecvSynAck, RecvFinAck, RecvOther,
       StorePort, CountAckRead, CountAckStore, NextSegment, StoreHead, HandlerFault,
       ClientLoss, TimerTop, TimerWake, TimerTest, TimerLoad, Resend, ResendDone, TimerFault,
       clientVars, hndVars
  <2>2. CASE RecvDataAck
    BY <2>2, AnswerTaken DEF RecvDataAck, TakeAnswer, StreamInv, TypeOK
  <2> QED
    BY <2>1, <2>2
<1>4. UNCHANGED <<expect, buf>> /\ expect \in Nat
  BY DEF serverVars, StreamInv, TypeOK, ServerTypeOK
<1>5. Acknowledged(hndAck)' /\ Acknowledged(expect)'
  <2>1. AtEnd(hndAck') /\ hndAck' <= expect
    BY <1>3, <1>4 DEF AckInv, Acknowledged, AtEnd
  <2>2. AtEnd(expect)
    BY DEF AckInv, Acknowledged
  <2>3. AtEnd(hndAck)' /\ AtEnd(expect)'
    BY <1>1, <1>4, <2>1, <2>2, StillAtEnd DEF AtEnd
  <2> QED
    BY <1>4, <2>1, <2>3 DEF Acknowledged
<1>6. \A k \in 1 .. Len(s2c') : \E j \in 1 .. Len(s2c) : s2c'[k] = s2c[j]
  BY ClientTakes DEF StreamInv
<1>7. (\A k \in 1 .. Len(s2c) : Acknowledged(s2c[k].seq))'
  <2> SUFFICES ASSUME NEW k \in 1 .. Len(s2c') PROVE Acknowledged(s2c[k].seq)'
    OBVIOUS
  <2>1. PICK j \in 1 .. Len(s2c) : s2c'[k] = s2c[j]
    BY <1>6
  <2>2. Acknowledged(s2c[j].seq)
    BY DEF AckInv
  <2> QED
    BY <1>1, <1>4, <2>1, <2>2, StillAtEnd DEF Acknowledged, AtEnd
<1> QED
  BY <1>1, <1>2, <1>4, <1>5, <1>7 DEF AckInv

(* The server stands where it stood, or behind the next segment.           *)
LEMMA ServerStands ==
  ASSUME StreamInv, AckInv, ServerNext, UNCHANGED clientVars
  PROVE  expect' = Len(buf') /\ expect <= expect' /\ AtEnd(expect)'
<1> USE DEF chanVars
<1>1. expect \in Nat /\ Len(buf) \in Nat /\ expect = Len(buf) /\ segs' = segs
  BY LenProperties DEF StreamInv, TypeOK, ServerTypeOK, AckInv, clientVars, tcbVars
<1>2. CASE UNCHANGED <<expect, buf>>
  BY <1>1, <1>2 DEF AckInv, Acknowledged, AtEnd
<1>3. CASE ServerSock
  <2>1. Len(buf) = 0 /\ buf' = <<>> /\ expect' = expect
    BY <1>3 DEF ServerSock, StreamInv, ReceivedInPlace
  <2> QED
    BY <1>1, <2>1, EmptySeq DEF AtEnd
<1>4. CASE RecvSyn \/ StoreConnected
  <2>1. Len(buf) = 0
    <3>1. CASE StoreConnected
      BY <3>1 DEF StoreConnected, StreamInv, ReceivedInPlace
    <3>2. CASE RecvSyn
      <4>1. 1 \in InTransit("SYN")
        BY <3>2, HeadInTransit DEF RecvSyn, Take, StreamInv, TypeOK
      <4> QED
        BY <1>1, <4>1 DEF StreamInv, SynsBeforeData
    <3> QED
      BY <1>4, <3>1, <3>2
  <2>2. expect' = 0 /\ buf' = buf
    BY <1>4 DEF RecvSyn, StoreConnected
  <2> QED
    BY <1>1, <2>1, <2>2 DEF AtEnd
<1>5. CASE RecvData
  <2> DEFINE m == Head(c2s)
  <2>1. c2s # <<>> /\ m.type = "DATA" /\ sstate' = "CONNECTED"
    BY <1>5 DEF RecvData, Take
  <2>2. m \in ClientMsg /\ m = c2s[1] /\ 1 \in InTransit("DATA")
    BY <2>1, ReceivedByServer, HeadInTransit DEF StreamInv, TypeOK
  <2>3. PICK i \in 1 .. Len(segs) : m.seq = segs[i].seq /\ m.len = segs[i].len
    BY <2>2 DEF AckInv, TransitIsBuffered
  <2>4. m.len \in Nat
    BY <2>2 DEF ClientMsg
  <2>5. CASE UNCHANGED <<expect, buf>>
    BY <1>2, <2>5
  <2>6. CASE InSequence(m) /\ expect' = expect + m.len
    <3>1. expect' = segs[i].seq + segs[i].len
      BY <2>3, <2>6 DEF InSequence
    <3>2. expect' = Len(buf')
      <4>1. StreamInv'
        BY NextTyped, ServerStep DEF Next, StreamInv
      <4> QED
        BY <2>1, <4>1 DEF StreamInv, ReceivedInPlace
    <3> QED
      BY <1>1, <2>4, <2>6, <3>1, <3>2 DEF AtEnd
  <2> QED
    BY <1>5, <2>5, <2>6 DEF RecvData
<1> QED
  BY <1>2, <1>3, <1>4, <1>5
  DEF ServerNext, ServerApp, ServerReceive, ServerWork, Accept, AcceptReturn, Recv, ServerClose,
      RecvSynAgain, RecvFin, RecvIgnored, ServerLoss, SendAnswer, Answer, StoreCloseWait,
      StoreClientPort, ServerFault, serverVars

LEMMA ServerAcks ==
  ASSUME StreamInv, AckInv, ServerNext, UNCHANGED clientVars
  PROVE  AckInv'
<1> USE DEF chanVars
<1>1. expect' = Len(buf') /\ expect <= expect' /\ AtEnd(expect)'
  BY ServerStands
<1>2. UNCHANGED <<segs, hndAck>>
  BY DEF clientVars, tcbVars, hndVars
<1>3. expect \in Nat /\ expect' \in Nat /\ hndAck \in Nat
  <2>1. TypeOK'
    BY NextTyped DEF Next, StreamInv
  <2> QED
    BY <2>1 DEF StreamInv, TypeOK, ServerTypeOK, ClientTypeOK
<1>4. SegmentsInOrder'
  BY <1>2 DEF AckInv, SegmentsInOrder
<1>5. c2s' = c2s \/ (c2s # <<>> /\ c2s' = Tail(c2s))
  BY DEF ServerNext, ServerApp, ServerReceive, ServerWork, ServerSock, Accept, AcceptReturn,
     Recv, ServerClose, RecvSyn, RecvSynAgain, RecvFin, RecvData, RecvIgnored, ServerLoss,
     SendAnswer, Answer, SendToClient, StoreConnected, StoreCloseWait, StoreClientPort,
     ServerFault, Take
<1>6. TransitIsBuffered'
  <2>1. CASE c2s' = c2s
    BY <1>2, <2>1 DEF AckInv, TransitIsBuffered, InTransit
  <2>2. CASE c2s # <<>> /\ c2s' = Tail(c2s)
    <3>1. /\ InTransit("DATA")' = {i \in 1 .. (Len(c2s) - 1) : i + 1 \in InTransit("DATA")}
          /\ \A i \in 1 .. (Len(c2s) - 1) : c2s'[i] = c2s[i + 1]
      BY <2>2, Removed DEF StreamInv, TypeOK
    <3>2. ASSUME NEW k \in InTransit("DATA")'
          PROVE  \E i \in 1 .. Len(segs) : c2s'[k].seq = segs[i].seq /\ c2s'[k].len = segs[i].len
      <4>1. k + 1 \in InTransit("DATA") /\ c2s'[k] = c2s[k + 1]
        BY <3>1
      <4> QED
        BY <4>1 DEF AckInv, TransitIsBuffered
    <3> QED
      BY <1>2, <3>2 DEF TransitIsBuffered
  <2> QED
    BY <1>5, <2>1, <2>2
<1>7. Acknowledged(hndAck)' /\ Acknowledged(expect)'
  BY <1>1, <1>2, <1>3 DEF AckInv, Acknowledged, AtEnd
<1>8. \A k \in 1 .. Len(s2c') :
        \/ s2c'[k].seq \in {0, expect}
        \/ k \in 1 .. Len(s2c) /\ s2c'[k] = s2c[k]
  <2>1. CASE s2c' = s2c
    BY <2>1
  <2>2. CASE SendAnswer
    <3>1. PICK t \in {"SYNACK", "FINACK", "DATAACK"}, n \in {0, expect} :
            s2c' = Append(s2c, ServerReply(t, n))
      BY <2>2 DEF SendAnswer, Answer, SendToClient
    <3>2. ServerReply(t, n) \in ServerMsg /\ ServerReply(t, n).seq = n
      BY <1>3 DEF ServerReply, ServerMsg
    <3> QED
      BY <3>1, <3>2, AnswerSent DEF StreamInv, TypeOK
  <2> QED
    BY <2>1, <2>2 DEF ServerNext, ServerApp, ServerReceive, ServerWork, ServerSock, Accept,
       AcceptReturn, Recv, ServerClose, RecvSyn, RecvSynAgain, RecvFin, RecvData, RecvIgnored,
       ServerLoss, StoreConnected, StoreCloseWait, StoreClientPort, ServerFault, Take
<1>9. ASSUME NEW k \in 1 .. Len(s2c') PROVE Acknowledged(s2c[k].seq)'
  <2>1. CASE s2c'[k].seq \in {0, expect}
    BY <1>1, <1>2, <1>3, <2>1 DEF AckInv, Acknowledged, AtEnd
  <2>2. CASE k \in 1 .. Len(s2c) /\ s2c'[k] = s2c[k]
    <3>1. Acknowledged(s2c[k].seq) /\ s2c[k].seq \in Nat
      <4>1. s2c[k] \in ServerMsg
        BY <2>2, ElementOfSeq DEF StreamInv, TypeOK, ChannelTypeOK
      <4> QED
        BY <2>2, <4>1 DEF AckInv, ServerMsg
    <3> QED
      BY <1>1, <1>2, <1>3, <2>2, <3>1 DEF Acknowledged, AtEnd
  <2> QED
    BY <1>8, <2>1, <2>2
<1> QED
  BY <1>1, <1>4, <1>6, <1>7, <1>9 DEF AckInv

LEMMA AckInvInit == Init => AckInv
<1> SUFFICES ASSUME Init PROVE AckInv
  OBVIOUS
<1>1. /\ expect = 0 /\ hndAck = 0 /\ Len(buf) = 0 /\ Len(segs) = 0 /\ Len(c2s) = 0 /\ Len(s2c) = 0
  BY EmptySeq DEF Init, ChannelInit, ClientInit, ServerInit
<1> QED
  BY <1>1 DEF AckInv, Acknowledged, AtEnd, SegmentsInOrder, TransitIsBuffered, InTransit

LEMMA AckInvStep ==
  ASSUME StreamInv, AckInv, [Next]_vars
  PROVE  AckInv'
<1>1. CASE UNCHANGED vars
  <2>1. UNCHANGED <<expect, buf, segs, c2s, s2c, hndAck>>
    BY <1>1 DEF vars, chanVars, clientVars, tcbVars, hndVars, serverVars
  <2>2. SegmentsInOrder' /\ TransitIsBuffered'
    BY <2>1 DEF AckInv, SegmentsInOrder, TransitIsBuffered, InTransit
  <2> QED
    BY <2>1, <2>2 DEF AckInv, Acknowledged, AtEnd
<1> QED
  BY <1>1, ClientAcks, ServerAcks DEF Next

(* A number behind a segment's beginning is not in front of its end.       *)
LEMMA CoversAll ==
  ASSUME StreamInv, AckInv, NEW n \in Nat, AtEnd(n), NEW i \in 1 .. Len(segs), n > segs[i].seq
  PROVE  segs[i].seq + segs[i].len <= n
<1>1. \A j \in 1 .. Len(segs) : segs[j].seq \in Nat /\ segs[j].len \in Nat
  <2>1. \A j \in 1 .. Len(segs) : segs[j] \in DataSegment
    BY ElementOfSeq DEF StreamInv, TypeOK, ClientTypeOK
  <2> QED
    BY <2>1 DEF DataSegment
<1>2. PICK j \in 1 .. Len(segs) : n = segs[j].seq + segs[j].len
  BY <1>1 DEF AtEnd
<1>3. Len(segs) \in Nat
  BY LenProperties DEF StreamInv, TypeOK, ClientTypeOK
<1>4. CASE j = i
  BY <1>2, <1>4
<1>5. CASE i < j
  <2>1. segs[i].seq + segs[i].len <= segs[j].seq
    BY <1>5 DEF AckInv, SegmentsInOrder
  <2>2. {segs[i].seq, segs[i].len, segs[j].seq, segs[j].len} \subseteq Nat
    BY <1>1
  <2> QED
    BY <1>2, <2>1, <2>2
<1>6. CASE j < i
  <2>1. segs[j].seq + segs[j].len <= segs[i].seq
    BY <1>6 DEF AckInv, SegmentsInOrder
  <2> QED
    BY <1>1, <1>2, <2>1
<1> QED
  BY <1>3, <1>4, <1>5, <1>6

(* seghandler counts as acknowledged, and takes out of the send buffer,    *)
(* only segments the server has put into its receive buffer.               *)
THEOREM AcksAreTrue ==
  ASSUME Reconnects = FALSE
  PROVE  Spec => AckedWereAccepted
<1>1. ASSUME StreamInv, AckInv, [Next]_vars, hnd = "scan", hnd' = "store"
      PROVE  segs[hndSeg].seq + segs[hndSeg].len <= expect
  <2>1. CountAckRead
    BY <1>1 DEF Next, ClientNext, AppCall, AppProgress, HandlerReceive, HandlerWork, TimerStep,
       Sock, Connect, SendSyn, ConnectPoll, ConnectLastCheck, ConnectGiveUp, Send, ReadHead,
       AppendList, SendUnsent, CountRead, CountStore, SendReturn, Disconnect, SendFin,
       DisconnectPoll, DisconnectLastCheck, Close, RecvSynAck, RecvFinAck, RecvDataAck, RecvOther,
       StorePort, CountAckStore, NextSegment, StoreHead, HandlerFault,
       ClientLoss, TimerTop, TimerWake, TimerTest, TimerLoad, Resend, ResendDone, TimerFault,
       clientVars, hndVars, TakeAnswer, vars
  <2>2. hndSeg \in 1 .. Len(segs) /\ hndAck > segs[hndSeg].seq
    BY <1>1, <2>1, PointersTyped DEF CountAckRead, Covers, StreamInv, TypeOK, ClientTypeOK, SegRef
  <2>3. hndAck \in Nat /\ AtEnd(hndAck) /\ hndAck <= expect /\ expect \in Nat
    BY <1>1 DEF AckInv, Acknowledged, StreamInv, TypeOK, ClientTypeOK, ServerTypeOK
  <2>4. segs[hndSeg].seq + segs[hndSeg].len <= hndAck
    BY <1>1, <2>2, <2>3, CoversAll
  <2>5. segs[hndSeg].seq \in Nat /\ segs[hndSeg].len \in Nat
    <3>1. segs[hndSeg] \in DataSegment
      BY <1>1, <2>2, ElementOfSeq DEF StreamInv, TypeOK, ClientTypeOK
    <3> QED
      BY <3>1 DEF DataSegment
  <2> QED
    BY <2>3, <2>4, <2>5
<1>2. StreamInv /\ AckInv /\ [Next]_vars =>
        [hnd = "scan" /\ hnd' = "store" => segs[hndSeg].seq + segs[hndSeg].len <= expect]_vars
  BY <1>1
<1>3. Init => AckInv
  BY AckInvInit
<1>4. StreamInv /\ AckInv /\ [Next]_vars => AckInv'
  BY AckInvStep
<1> QED
  BY <1>2, <1>3, <1>4, StreamInvariant, PTL DEF Spec, AckedWereAccepted

-----------------------------------------------------------------------------
(* The send buffer, when send is called once.                              *)

LEMMA SegmentNumbers ==
  ASSUME StreamInv
  PROVE  /\ Len(segs) \in Nat
         /\ \A i \in 1 .. Len(segs) : segs[i].seq \in Nat
         /\ expect \in Nat /\ head \in SegRef /\ hndSeg \in SegRef
<1>1. \A i \in 1 .. Len(segs) : segs[i] \in DataSegment
  BY ElementOfSeq DEF StreamInv, TypeOK, ClientTypeOK
<1> QED
  BY <1>1, LenProperties DEF DataSegment, StreamInv, TypeOK, ClientTypeOK, ServerTypeOK

(* Steps that leave the list and seghandler's walk as they are.            *)
LEMMA BufferKept ==
  ASSUME StreamInv, BufferInv, UNCHANGED <<segs, nxt, head, hnd, hndSeg, hndAck, newhead, nSends>>,
         Appending' <=> Appending, expect' \in Nat, expect <= expect', NothingBefore'
  PROVE  BufferInv'
<1>1. \A h : Passed(h) => \A i \in 1 .. Len(segs) : h = 0 \/ i < h => segs[i].seq < expect'
  BY SegmentNumbers DEF Passed
<1>2. /\ ~Appending' => Passed(head)'
      /\ Walking' => Passed(hndSeg)'
  BY <1>1 DEF BufferInv, Passed, Walking
<1> QED
  BY <1>2 DEF BufferInv, ListInOrder, Walking

(* The first and only send chains its segments.                            *)
LEMMA SendBuffer ==
  ASSUME MaxSends <= 1, StreamInv, BufferInv, Send, UNCHANGED serverVars
  PROVE  BufferInv'
<1> USE DEF hndVars, timerVars, chanVars
<1>1. nSends = 0 /\ segs = <<>> /\ nSends' = 1 /\ app' = "readhead"
  BY ClientAssumption DEF Send, BufferInv
<1>2. PICK length \in SendLens : /\ segs' = segs \o Segments(length)
                                 /\ nxt' = nxt \o Chain(Len(Segments(length)))
  BY DEF Send
<1> DEFINE n == Len(Segments(length))
           S == Segments(length)
<1>3. ClientTypeOK /\ length \in Nat
  BY ClientAssumption DEF StreamInv, TypeOK
<1>4. S \in Seq(DataSegment) /\ n \in Nat
  BY <1>3, SegmentsOfSend
<1>5. nxt = <<>> /\ Len(segs) = 0
  <2>1. nxt \in Seq(Nat) /\ Len(nxt) = Len(segs)
    BY <1>3 DEF ClientTypeOK
  <2>2. Len(segs) = 0
    BY <1>1, EmptySeq
  <2> QED
    BY <2>1, <2>2, EmptySeq
<1>6. segs' = S
  BY <1>1, <1>2, <1>4, ConcatEmptySeq
<1>7. Chain(n) \in Seq(Nat) /\ Chain(n) = [i \in 1 .. n |-> IF i < n THEN i + 1 ELSE 0]
  BY <1>3, <1>4, <1>5, ChainOfSend DEF Chain
<1>8. nxt' = Chain(n)
  BY <1>2, <1>5, <1>7, ConcatEmptySeq
<1>9. ListInOrder'
  BY <1>6, <1>7, <1>8 DEF ListInOrder
<1>10. newhead' = 1 /\ UNCHANGED <<head, seen, c2s, s2c, hnd, hndSeg, timer>>
  BY <1>5 DEF Send
<1>11. NothingBefore' /\ ~Walking'
  BY <1>1, <1>10 DEF BufferInv, NothingBefore, Walking, InTransit, serverVars
<1> QED
  BY <1>1, <1>9, <1>10, <1>11 DEF BufferInv, Appending, Walking

(* The other steps of the application.                                     *)
LEMMA AppBuffer ==
  ASSUME MaxSends <= 1, StreamInv, BufferInv, AppCall \/ AppProgress, UNCHANGED serverVars
  PROVE  BufferInv'
<1> USE DEF tcbVars, appVars, hndVars, timerVars, histVars, chanVars
<1>1. expect' = expect /\ expect \in Nat /\ shnd' = shnd
  BY DEF StreamInv, TypeOK, ServerTypeOK, serverVars
<1>2. CASE Sock
  <2>1. /\ segs = <<>> /\ app = "start" /\ app' = "ready" /\ head' = 0
        /\ UNCHANGED <<segs, nxt, seen, hnd, hndSeg, hndAck, nSends, timer, c2s, s2c>>
    BY <1>2 DEF Sock, StreamInv, NothingSentBefore
  <2>2. Len(segs') = 0
    BY <2>1, EmptySeq
  <2>3. NothingBefore'
    BY <1>1, <2>1 DEF BufferInv, NothingBefore, Walking, Appending, InTransit
  <2>4. Walking' => Passed(hndSeg)'
    BY <2>2 DEF Passed
  <2>5. hnd' \in {"store", "next"} => segs'[hndSeg'].seq < hndAck'
    BY <2>1 DEF BufferInv
  <2> QED
    BY <2>1, <2>2, <2>3, <2>4, <2>5 DEF BufferInv, ListInOrder, Passed, Appending
<1>3. CASE Send
  BY <1>3, SendBuffer
<1>4. CASE ReadHead
  <2>1. /\ app = "readhead" /\ app' = "append" /\ seen' = head
        /\ UNCHANGED <<segs, nxt, head, hnd, hndSeg, hndAck, newhead, nSends, timer, c2s, s2c>>
    BY <1>4 DEF ReadHead
  <2>2. NothingBefore'
    BY <1>1, <2>1 DEF BufferInv, NothingBefore, Walking, Appending, InTransit
  <2> QED
    BY <1>1, <2>1, <2>2, BufferKept DEF Appending
<1>5. CASE AppendList
  <2>1. app = "append" /\ seen = 0 /\ ~Walking /\ newhead = 1 /\ nSends = 1
    BY <1>5 DEF AppendList, BufferInv, NothingBefore, Appending
  <2>2. /\ app' = "sending" /\ head' = 1
        /\ UNCHANGED <<segs, nxt, hnd, hndSeg, hndAck, nSends>>
    BY <1>5, <2>1 DEF AppendList
  <2>3. Passed(head)'
    BY <2>2, SegmentNumbers DEF Passed
  <2>4. ~Walking' /\ ~Appending'
    BY <2>1, <2>2 DEF Walking, Appending
  <2> QED
    BY <2>1, <2>2, <2>3, <2>4 DEF BufferInv, ListInOrder, NothingBefore, Walking
<1>6. CASE SendUnsent
  <2>1. unsent # 0 /\ app = "sending" /\ app' = "count"
        /\ UNCHANGED <<segs, nxt, head, hnd, hndSeg, hndAck, newhead, nSends>>
    BY <1>6 DEF SendUnsent
  <2>2. segs # <<>>
    BY <2>1, EmptySeq DEF StreamInv, TypeOK, ClientTypeOK, SegRef
  <2>3. nSends' # 0
    BY <2>1, <2>2 DEF BufferInv
  <2>4. NothingBefore' /\ (Appending' <=> Appending)
    BY <2>1, <2>3 DEF NothingBefore, Appending
  <2> QED
    BY <1>1, <2>1, <2>4, BufferKept
<1>7. CASE SendSyn \/ SendFin
  <2>1. UNCHANGED <<segs, nxt, head, hnd, hndSeg, hndAck, newhead, nSends, seen, timer, s2c>>
    BY <1>7 DEF SendSyn, SendFin, SendToServer
  <2>2. Appending' <=> Appending
    BY <1>7 DEF SendSyn, SendFin, Appending
  <2>3. PICK m \in ClientMsg : m.type # "DATA" /\ SendToServer(m)
    BY <1>7, ClientMessages
    DEF SendSyn, SendFin, ClientControl, Port, StreamInv, TypeOK, ClientTypeOK
  <2>4. InTransit("DATA")' = InTransit("DATA")
    BY <2>3, OtherSegments DEF StreamInv
  <2>5. NothingBefore'
    BY <1>1, <2>1, <2>2, <2>4 DEF BufferInv, NothingBefore, Walking
  <2> QED
    BY <1>1, <2>1, <2>2, <2>5, BufferKept
<1>8. CASE \/ Connect \/ ConnectPoll \/ ConnectLastCheck \/ ConnectGiveUp \/ CountRead
           \/ CountStore \/ SendReturn \/ Disconnect \/ DisconnectPoll
           \/ DisconnectLastCheck \/ Close
  <2>1. /\ UNCHANGED <<segs, nxt, head, hnd, hndSeg, hndAck, newhead, nSends, seen, timer, c2s, s2c>>
        /\ ~Appending /\ ~Appending'
    BY <1>8 DEF Connect, MayConnect, ConnectPoll, ConnectLastCheck, ConnectGiveUp, CountRead,
       CountStore, SendReturn, Disconnect, DisconnectPoll, DisconnectLastCheck, Close, Appending
  <2>2. NothingBefore'
    BY <1>1, <2>1 DEF BufferInv, NothingBefore, Walking, InTransit
  <2> QED
    BY <1>1, <2>1, <2>2, BufferKept
<1> QED
  BY <1>2, <1>3, <1>4, <1>5, <1>6, <1>7, <1>8 DEF AppCall, AppProgress

(* seghandler walks past what the server has accepted.                     *)
LEMMA HandlerBuffer ==
  ASSUME StreamInv, AckInv, BufferInv, HandlerReceive \/ HandlerWork \/ ClientLoss,
         UNCHANGED serverVars
  PROVE  BufferInv'
<1> USE DEF tcbVars, appVars, hndVars, timerVars, histVars, chanVars
<1>1. expect' = expect /\ expect \in Nat /\ shnd' = shnd
  BY DEF StreamInv, TypeOK, ServerTypeOK, serverVars
<1>2. /\ UNCHANGED <<segs, nxt, newhead, seen, nSends, timer, app, c2s>>
      /\ Appending' <=> Appending
  BY DEF HandlerReceive, HandlerWork, ClientLoss, TakeAnswer, clientVars, RecvSynAck,
     RecvFinAck, RecvDataAck, RecvOther, StorePort, CountAckRead, CountAckStore,
     NextSegment, StoreHead, HandlerFault, Appending
<1>3. \A k \in 1 .. Len(s2c') : \E j \in 1 .. Len(s2c) : s2c'[k] = s2c[j]
  <2>1. s2c' = s2c \/ (s2c # <<>> /\ s2c' = Tail(s2c))
    BY DEF HandlerReceive, HandlerWork, ClientLoss, TakeAnswer, RecvSynAck,
       RecvFinAck, RecvDataAck, RecvOther, StorePort, CountAckRead, CountAckStore,
       NextSegment, StoreHead, HandlerFault
  <2> QED
    BY <2>1, AnswerTaken DEF StreamInv, TypeOK
<1>4. (nSends = 0 \/ Appending) /\ head' = 0 /\ ~Walking' => NothingBefore'
  BY <1>1, <1>2, <1>3 DEF BufferInv, NothingBefore, InTransit
<1>5. \A h : Passed(h) => \A i \in 1 .. Len(segs') : h = 0 \/ i < h => segs'[i].seq < expect'
  BY <1>1, <1>2 DEF Passed
<1>6. CASE RecvDataAck
  <2>1. /\ s2c # <<>> /\ Head(s2c).type = "DATAACK" /\ hnd' = "scan"
        /\ hndSeg' = head /\ head' = head
    BY <1>6 DEF RecvDataAck, TakeAnswer
  <2>2. 1 \in 1 .. Len(s2c) /\ s2c[1].type = "DATAACK"
    BY <1>6, <2>1, AnswerTaken DEF RecvDataAck, TakeAnswer, StreamInv, TypeOK
  <2>3. ~(nSends = 0 \/ Appending)
    BY <2>2 DEF BufferInv, NothingBefore
  <2>4. Passed(head)
    BY <2>3 DEF BufferInv
  <2>5. Passed(head)' /\ Passed(hndSeg)'
    BY <1>5, <2>1, <2>4 DEF Passed
  <2> QED
    BY <1>2, <2>1, <2>3, <2>5 DEF BufferInv, ListInOrder, NothingBefore, Walking
<1>7. CASE CountAckRead \/ CountAckStore
  <2>1. /\ hnd \in {"scan", "store"} /\ hnd' \in {"store", "next"}
        /\ UNCHANGED <<head, hndSeg, hndAck>>
        /\ segs[hndSeg].seq < hndAck
    BY <1>7, <1>1 DEF CountAckRead, CountAckStore, Covers, BufferInv
  <2>2. Walking /\ ~(nSends = 0 \/ Appending)
    BY <2>1 DEF Walking, BufferInv, NothingBefore
  <2>3. Passed(head)' /\ Passed(hndSeg)'
    BY <1>5, <2>1, <2>2 DEF BufferInv, Passed
  <2> QED
    BY <1>2, <2>1, <2>2, <2>3 DEF BufferInv, ListInOrder, NothingBefore
<1>8. CASE NextSegment
  <2>1. hnd = "next" /\ hnd' = "scan" /\ hndSeg' = nxt[hndSeg] /\ head' = head
    BY <1>8 DEF NextSegment
  <2>2. Walking /\ ~(nSends = 0 \/ Appending) /\ Passed(hndSeg) /\ Passed(head)
    BY <2>1 DEF Walking, BufferInv, NothingBefore
  <2>3. /\ hndSeg \in 1 .. Len(segs) /\ Len(segs) \in Nat
        /\ \A i \in 1 .. Len(segs) : segs[i].seq \in Nat
    BY <2>1, SegmentNumbers DEF StreamInv, TypeOK, ClientTypeOK, PointersInUse, SegRef
  <2>4. segs[hndSeg].seq < expect
    <3>1. segs[hndSeg].seq < hndAck /\ hndAck <= expect /\ hndAck \in Nat
      BY <2>1 DEF BufferInv, AckInv, Acknowledged, StreamInv, TypeOK, ClientTypeOK
    <3> QED
      BY <1>1, <2>3, <3>1
  <2>5. hndSeg' = IF hndSeg < Len(segs) THEN hndSeg + 1 ELSE 0
    BY <2>1, <2>3 DEF BufferInv, ListInOrder
  <2>6. \A i \in 1 .. Len(segs) : i <= hndSeg => segs[i].seq < expect
    BY <2>2, <2>3, <2>4 DEF Passed
  <2>7. Passed(hndSeg)'
    BY <1>1, <1>2, <2>3, <2>5, <2>6 DEF Passed
  <2>8. Passed(head)'
    BY <1>5, <2>1, <2>2 DEF Passed
  <2> QED
    BY <1>2, <2>1, <2>2, <2>7, <2>8 DEF BufferInv, ListInOrder, NothingBefore
<1>9. CASE StoreHead
  <2>1. hnd = "scan" /\ hnd' = "recv" /\ head' = hndSeg
    BY <1>9 DEF StoreHead
  <2>2. ~(nSends = 0 \/ Appending) /\ Passed(hndSeg)
    BY <2>1 DEF Walking, BufferInv, NothingBefore
  <2>3. Passed(head)'
    BY <1>5, <2>1, <2>2 DEF Passed
  <2> QED
    BY <1>2, <2>1, <2>2, <2>3 DEF BufferInv, ListInOrder, NothingBefore, Walking
<1>10. CASE RecvSynAck \/ RecvFinAck \/ RecvOther \/ StorePort \/ HandlerFault \/ ClientLoss
  <2>1. /\ UNCHANGED <<head, hndSeg, hndAck>>
        /\ hnd' = hnd \/ (~Walking /\ ~Walking')
    BY <1>10 DEF RecvSynAck, RecvFinAck, RecvOther, StorePort, HandlerFault, ClientLoss,
       TakeAnswer, clientVars, Walking
  <2>2. Walking' <=> Walking
    BY <2>1 DEF Walking
  <2>3. NothingBefore'
    BY <1>1, <1>2, <1>3, <2>1, <2>2 DEF BufferInv, NothingBefore, InTransit
  <2>4. /\ ~Appending' => Passed(head)'
        /\ Walking' => Passed(hndSeg)'
    BY <1>2, <1>5, <2>1, <2>2 DEF BufferInv, Passed
  <2> QED
    BY <1>2, <2>1, <2>2, <2>3, <2>4 DEF BufferInv, ListInOrder, Walking
<1> QED
  BY <1>6, <1>7, <1>8, <1>9, <1>10 DEF HandlerReceive, HandlerWork

(* There is no timer thread before the segments are appended.              *)
LEMMA TimerBuffer ==
  ASSUME StreamInv, BufferInv, NEW t \in Timers, TimerStep(t), UNCHANGED serverVars
  PROVE  BufferInv'
<1> USE DEF tcbVars, appVars, hndVars, timerVars, histVars, chanVars
<1>1. /\ UNCHANGED <<segs, nxt, head, hnd, hndSeg, hndAck, newhead, nSends, app>>
      /\ timer[t] # "off" \/ (cstate = "NULL" /\ UNCHANGED <<timer, seen, c2s, s2c>>)
      /\ expect' = expect /\ expect \in Nat
  BY DEF TimerStep, TimerTop, TimerWake, TimerTest, TimerLoad, Resend, ResendDone, TimerFault,
     serverVars, StreamInv, TypeOK, ServerTypeOK
<1>2. Appending' <=> Appending
  BY <1>1 DEF Appending
<1>3. NothingBefore'
  <2>1. CASE timer[t] # "off"
    BY <1>1, <1>2, <2>1 DEF BufferInv, NothingBefore
  <2>2. CASE UNCHANGED <<timer, seen, c2s, s2c>>
    BY <1>1, <1>2, <2>2 DEF BufferInv, NothingBefore, InTransit, Walking, serverVars
  <2> QED
    BY <1>1, <2>1, <2>2
<1> QED
  BY <1>1, <1>2, <1>3, BufferKept

(* The server answers no data before there are any.                        *)
LEMMA ServerBuffer ==
  ASSUME StreamInv, AckInv, BufferInv, ServerNext, UNCHANGED clientVars
  PROVE  BufferInv'
<1> USE DEF chanVars
<1>1. /\ UNCHANGED <<segs, nxt, head, hnd, hndSeg, hndAck, newhead, nSends, app, timer, seen>>
      /\ Appending' <=> Appending
  BY DEF clientVars, tcbVars, appVars, hndVars, timerVars, histVars, Appending
<1>2. expect <= expect' /\ expect' \in Nat
  <2>1. TypeOK'
    BY NextTyped DEF Next, StreamInv
  <2> QED
    BY <2>1, ServerStands DEF TypeOK, ServerTypeOK
<1>3. ASSUME nSends = 0 \/ Appending
      PROVE  /\ InTransit("DATA")' = {} /\ shnd' # "dataack"
             /\ \A k \in 1 .. Len(s2c') : s2c'[k].type # "DATAACK"
  <2>1. /\ InTransit("DATA") = {} /\ shnd # "dataack"
        /\ \A k \in 1 .. Len(s2c) : s2c[k].type # "DATAACK"
    BY <1>3 DEF BufferInv, NothingBefore
  <2>2. ~RecvData
    <3>1. RecvData => 1 \in InTransit("DATA")
      BY HeadInTransit DEF RecvData, Take, StreamInv, TypeOK
    <3> QED
      BY <2>1, <3>1
  <2>3. InTransit("DATA")' = {}
    <3>1. c2s' = c2s \/ (c2s # <<>> /\ c2s' = Tail(c2s))
      BY DEF ServerNext, ServerApp, ServerReceive, ServerWork, ServerSock, Accept, AcceptReturn,
         Recv, ServerClose, RecvSyn, RecvSynAgain, RecvFin, RecvData, RecvIgnored, ServerLoss,
         SendAnswer, Answer, SendToClient, StoreConnected, StoreCloseWait, StoreClientPort,
         ServerFault, Take
    <3>2. CASE c2s' = c2s
      BY <2>1, <3>2 DEF InTransit
    <3>3. CASE c2s # <<>> /\ c2s' = Tail(c2s)
      BY <2>1, <3>3, Removed DEF StreamInv, TypeOK
    <3> QED
      BY <3>1, <3>2, <3>3
  <2>4. shnd' # "dataack"
    BY <2>1, <2>2 DEF ServerNext, ServerApp, ServerReceive, ServerWork, ServerSock, Accept,
       AcceptReturn, Recv, ServerClose, RecvSyn, RecvSynAgain, RecvFin, RecvIgnored, ServerLoss,
       SendAnswer, Answer, StoreConnected, StoreCloseWait, StoreClientPort, ServerFault, serverVars
  <2>5. CASE s2c' = s2c
    BY <2>1, <2>3, <2>4, <2>5
  <2>6. CASE SendAnswer
    <3>1. PICK t \in {"SYNACK", "FINACK"} : s2c' = Append(s2c, ServerReply(t, 0))
      BY <2>1, <2>6 DEF SendAnswer, Answer, SendToClient
    <3>2. ServerReply(t, 0) \in ServerMsg /\ ServerReply(t, 0).type = t
      BY DEF ServerReply, ServerMsg
    <3>3. \A k \in 1 .. Len(s2c') :
            s2c'[k] = ServerReply(t, 0) \/ (k \in 1 .. Len(s2c) /\ s2c'[k] = s2c[k])
      BY <3>1, <3>2, AnswerSent DEF StreamInv, TypeOK
    <3> QED
      BY <2>1, <2>3, <2>4, <3>2, <3>3
  <2> QED
    BY <2>2, <2>5, <2>6 DEF ServerNext, ServerApp, ServerReceive, ServerWork, ServerSock, Accept,
       AcceptReturn, Recv, ServerClose, RecvSyn, RecvSynAgain, RecvFin, RecvIgnored,
       ServerLoss, StoreConnected, StoreCloseWait, StoreClientPort, ServerFault, Take
<1>4. NothingBefore'
  BY <1>1, <1>3 DEF BufferInv, NothingBefore, Walking
<1> QED
  BY <1>1, <1>2, <1>4, BufferKept

LEMMA BufferInvInit == Init => BufferInv
<1> SUFFICES ASSUME Init PROVE BufferInv
  OBVIOUS
<1>1. /\ segs = <<>> /\ Len(segs) = 0 /\ nSends = 0 /\ head = 0 /\ seen = 0 /\ app = "start"
      /\ hnd = "recv" /\ shnd = "recv" /\ timer = [t \in Timers |-> "off"]
      /\ Len(c2s) = 0 /\ Len(s2c) = 0
  BY EmptySeq DEF Init, ChannelInit, ClientInit, ServerInit
<1> QED
  BY <1>1 DEF BufferInv, Appending, Walking, ListInOrder, NothingBefore, Passed, InTransit

LEMMA BufferInvStep ==
  ASSUME MaxSends <= 1, StreamInv, AckInv, BufferInv, [Next]_vars
  PROVE  BufferInv'
<1>1. CASE ClientNext /\ UNCHANGED serverVars
  BY <1>1, AppBuffer, HandlerBuffer, TimerBuffer DEF ClientNext
<1>2. CASE ServerNext /\ UNCHANGED clientVars
  BY <1>2, ServerBuffer
<1>3. CASE UNCHANGED vars
  BY <1>3 DEF vars, chanVars, clientVars, tcbVars, appVars, hndVars, timerVars, histVars, serverVars,
     BufferInv, Appending, Walking, ListInOrder, NothingBefore, Passed, InTransit
<1> QED
  BY <1>1, <1>2, <1>3 DEF Next

(* What is sent and not accepted is on the list that the timer repeats,    *)
(* if the application calls mrt_client_send once.                          *)
THEOREM OneSendIsKept ==
  ASSUME Reconnects = FALSE, MaxSends <= 1
  PROVE  Spec => []SentAreBuffered
<1>1. ASSUME StreamInv, BufferInv PROVE SentAreBuffered
  <2> SUFFICES ASSUME app \notin {"readhead", "append"}, NEW i \in 1 .. Len(segs),
                      expect <= segs[i].seq
               PROVE  Buffered(i)
    BY DEF SentAreBuffered
  <2>1. Passed(head) /\ ListInOrder
    BY <1>1 DEF BufferInv, Appending
  <2>2. /\ Len(segs) \in Nat /\ segs[i].seq \in Nat /\ expect \in Nat /\ head \in 0 .. Len(segs)
    BY <1>1, SegmentNumbers DEF SegRef
  <2>3. head # 0 /\ head <= i
    BY <2>1, <2>2 DEF Passed
  <2>4. \A j \in head .. (i - 1) : nxt[j] # 0
    BY <2>1, <2>2, <2>3 DEF ListInOrder
  <2> QED
    BY <2>3, <2>4 DEF Buffered
<1>2. Init => AckInv /\ BufferInv
  BY AckInvInit, BufferInvInit
<1>3. StreamInv /\ AckInv /\ BufferInv /\ [Next]_vars => AckInv' /\ BufferInv'
  BY AckInvStep, BufferInvStep
<1> QED
  BY <1>1, <1>2, <1>3, StreamInvariant, PTL DEF Spec
=============================================================================
