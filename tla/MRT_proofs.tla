----------------------------- MODULE MRT_proofs -----------------------------
(***************************************************************************)
(* Proofs about the MRT transport of module MRT, for every value of its    *)
(* constants.                                                              *)
(***************************************************************************)
EXTENDS MRT, SequenceTheorems, TLAPS

-----------------------------------------------------------------------------
(* Arithmetic of the segments of one send.                                 *)

LEMMA DivMod ==
  ASSUME NEW m \in Nat \ {0}, NEW n \in Nat
  PROVE  /\ n \div m \in Nat
         /\ n % m \in 0 .. (m - 1)
         /\ n = (n \div m) * m + (n % m)
  OBVIOUS

LEMMA ProductOfNaturals ==
  ASSUME NEW m \in Nat, NEW a \in Nat
  PROVE  a * m \in Nat
  OBVIOUS

LEMMA ProductMonotone ==
  ASSUME NEW m \in Nat, NEW a \in Nat, NEW b \in Nat, a <= b
  PROVE  a * m <= b * m
  OBVIOUS

(* The segments of a send of length bytes hold nothing but these bytes.    *)
LEMMA SegmentsOfSend ==
  ASSUME ClientTypeOK, NEW length \in Nat
  PROVE  /\ Segments(length) \in Seq(DataSegment)
         /\ Len(Segments(length)) \in Nat \ {0}
         /\ \A i \in 1 .. Len(Segments(length)) :
              /\ Segments(length)[i].seq - nextSeq = Segments(length)[i].pos - submitted
              /\ Segments(length)[i].pos + Segments(length)[i].len <= submitted + length
<1> DEFINE k      == length \div MaxSegLen
           r      == length % MaxSegLen
           n      == k + 1
           off(i) == (i - 1) * MaxSegLen
           seg(i) == [port |-> svrPort,
                      seq  |-> nextSeq + off(i),
                      len  |-> IF i = n THEN r ELSE MaxSegLen,
                      pos  |-> submitted + off(i)]
<1>1. k \in Nat /\ r \in Nat /\ length = k * MaxSegLen + r
  BY DivMod, ChannelAssumption
<1>2. ASSUME NEW i \in 1 .. n
      PROVE  /\ off(i) \in Nat
             /\ i = n => off(i) + r <= length
             /\ i # n => off(i) + MaxSegLen <= length
  <2>1. off(i) \in Nat
    BY <1>1, ProductOfNaturals, ChannelAssumption, i - 1 \in Nat
  <2>2. CASE i = n
    BY <2>1, <2>2, <1>1
  <2>3. CASE i # n
    <3>1. i \in Nat /\ i <= k
      BY <2>3, <1>1
    <3>2. i * MaxSegLen <= k * MaxSegLen
      BY <3>1, <1>1, ProductMonotone, ChannelAssumption
    <3>3. i * MaxSegLen = (i - 1) * MaxSegLen + MaxSegLen
      BY <3>1, ChannelAssumption
    <3> QED
      BY <1>1, <2>1, <2>3, <3>1, <3>2, <3>3, ProductOfNaturals, ChannelAssumption
  <2> QED
    BY <2>1, <2>2, <2>3
<1>3. Segments(length) = [i \in 1 .. n |-> seg(i)]
  BY DEF Segments
<1> HIDE DEF k, r, off
<1>4. nextSeq \in Nat /\ submitted \in Nat /\ svrPort \in Port
  BY DEF ClientTypeOK
<1>5. ASSUME NEW i \in 1 .. n
      PROVE  /\ seg(i) \in DataSegment
             /\ seg(i).seq - nextSeq = seg(i).pos - submitted
             /\ seg(i).pos + seg(i).len <= submitted + length
  BY <1>1, <1>2, <1>4, ChannelAssumption DEF DataSegment
<1> HIDE DEF seg
<1>6. Segments(length) \in [1 .. n -> DataSegment]
  BY <1>3, <1>5
<1>7. Segments(length) \in Seq(DataSegment) /\ Len(Segments(length)) = n
  BY <1>1, <1>6
<1>8. \A i \in 1 .. n : Segments(length)[i] = seg(i)
  BY <1>3
<1> QED
  BY <1>1, <1>5, <1>7, <1>8

-----------------------------------------------------------------------------
(* Type correctness.                                                       *)

(* What the concatenation of two sequences holds.                          *)
LEMMA Concatenation ==
  ASSUME NEW S, NEW s \in Seq(S), NEW t \in Seq(S)
  PROVE  /\ s \o t \in Seq(S)
         /\ Len(s \o t) = Len(s) + Len(t)
         /\ \A i \in 1 .. Len(s) + Len(t) :
              (s \o t)[i] = IF i <= Len(s) THEN s[i] ELSE t[i - Len(s)]
  BY ConcatProperties

(* The next pointers of the new segments stay inside the longer list.      *)
LEMMA ChainOfSend ==
  ASSUME ClientTypeOK, NEW n \in Nat
  PROVE  /\ Chain(n) \in Seq(Nat)
         /\ Len(Chain(n)) = n
         /\ \A i \in 1 .. n : Chain(n)[i] \in 0 .. (Len(segs) + n)
<1>1. Len(segs) \in Nat
  BY LenProperties DEF ClientTypeOK
<1>2. Chain(n) \in [1 .. n -> Nat]
  BY <1>1 DEF Chain
<1> QED
  BY <1>1, <1>2 DEF Chain

(* What the client puts on the network is a message.                       *)
LEMMA ClientMessages ==
  /\ \A p \in Port : ClientControl("SYN", p) \in ClientMsg /\ ClientControl("FIN", p) \in ClientMsg
  /\ \A s \in DataSegment : Data(s) \in ClientMsg
  BY DEF ClientControl, Data, ClientMsg, DataSegment

LEMMA SendToServerTyped ==
  ASSUME ChannelTypeOK, NEW m \in ClientMsg, SendToServer(m)
  PROVE  ChannelTypeOK'
  BY AppendProperties DEF ChannelTypeOK, SendToServer

LEMMA TakeAnswerTyped ==
  ASSUME ChannelTypeOK, NEW t, TakeAnswer(t)
  PROVE  ChannelTypeOK' /\ Head(s2c).seq \in Nat
<1>1. s2c \in Seq(ServerMsg) /\ s2c # <<>>
  BY DEF TakeAnswer, ChannelTypeOK
<1>2. Head(s2c) \in ServerMsg /\ Tail(s2c) \in Seq(ServerMsg)
  BY <1>1, HeadTailProperties
<1> QED
  BY <1>2 DEF TakeAnswer, ChannelTypeOK, ServerMsg

(* Every pointer of the send buffer that is not NULL is a segment's index. *)
LEMMA PointersTyped ==
  ASSUME ClientTypeOK
  PROVE  /\ Len(segs) \in Nat
         /\ \A i \in SegRef \ {0} : segs[i] \in DataSegment /\ nxt[i] \in SegRef
  BY LenProperties, ElementOfSeq DEF ClientTypeOK, SegRef

LEMMA AppTyped ==
  ASSUME ChannelTypeOK, ClientTypeOK, AppCall \/ AppProgress
  PROVE  ChannelTypeOK' /\ ClientTypeOK'
<1> USE DEF tcbVars, appVars, hndVars, timerVars, histVars, chanVars, PointersInUse
<1>1. CASE Sock
  <2>1. SegRef' = SegRef /\ 0 \in SegRef
    BY <1>1, PointersTyped DEF Sock, SegRef
  <2>2. /\ head' \in SegRef /\ unsent' \in SegRef /\ tail' \in SegRef
        /\ newhead' \in SegRef /\ seen' \in SegRef /\ hndSeg' \in SegRef
    BY <1>1, <2>1 DEF Sock, ClientTypeOK
  <2> QED
    BY <1>1, <2>1, <2>2 DEF Sock, ChannelTypeOK, ClientTypeOK, CState, AppPc
<1>2. CASE Connect
  BY <1>2 DEF Connect, ChannelTypeOK, ClientTypeOK, SegRef, CState, AppPc
<1>3. CASE ConnectPoll
  <2>1. app' \in AppPc /\ try' \in Nat
    BY <1>3 DEF ConnectPoll, ClientTypeOK, AppPc
  <2>2. app' \notin {"count", "store"}
    BY <1>3 DEF ConnectPoll
  <2> QED
    BY <1>3, <2>1, <2>2 DEF ConnectPoll, ChannelTypeOK, ClientTypeOK, SegRef
<1>4. CASE ConnectLastCheck
  BY <1>4 DEF ConnectLastCheck, ChannelTypeOK, ClientTypeOK, SegRef, AppPc
<1>5. CASE ConnectGiveUp
  BY <1>5 DEF ConnectGiveUp, ChannelTypeOK, ClientTypeOK, SegRef, CState, AppPc
<1>6. CASE Send
  <2> PICK length \in SendLens :
             /\ segs' = segs \o Segments(length)
             /\ nxt' = nxt \o Chain(Len(Segments(length)))
             /\ nextSeq' = nextSeq + length
             /\ submitted' = submitted + length
    BY <1>6 DEF Send, NumberAfter
  <2> DEFINE n == Len(Segments(length))
  <2>1. length \in Nat
    BY ClientAssumption
  <2>2. Segments(length) \in Seq(DataSegment) /\ n \in Nat \ {0}
    BY <2>1, SegmentsOfSend
  <2>3. /\ Chain(n) \in Seq(Nat) /\ Len(Chain(n)) = n
        /\ \A i \in 1 .. n : Chain(n)[i] \in 0 .. (Len(segs) + n)
    BY <2>2, ChainOfSend
  <2> HIDE DEF n
  <2>4. segs' \in Seq(DataSegment) /\ Len(segs') = Len(segs) + n
    BY <2>2, ConcatProperties DEF ClientTypeOK, n
  <2>5. Len(segs) \in Nat /\ nxt \in Seq(Nat) /\ Len(nxt) = Len(segs)
    BY PointersTyped DEF ClientTypeOK
  <2> DEFINE c == Chain(n)
  <2>6. /\ nxt' \in Seq(Nat) /\ Len(nxt') = Len(segs')
        /\ \A i \in 1 .. Len(segs) + n :
             nxt'[i] = IF i <= Len(segs) THEN nxt[i] ELSE c[i - Len(segs)]
    <3>1. c \in Seq(Nat) /\ Len(c) = n
      BY <2>3
    <3> DEFINE joined == nxt \o c
    <3>2. nxt' = joined
      BY DEF n
    <3> HIDE DEF c
    <3>3. /\ joined \in Seq(Nat) /\ Len(joined) = Len(segs) + n
          /\ \A i \in 1 .. Len(segs) + n :
               joined[i] = IF i <= Len(segs) THEN nxt[i] ELSE c[i - Len(segs)]
      <4>1. /\ joined \in Seq(Nat) /\ Len(joined) = Len(nxt) + Len(c)
            /\ \A i \in 1 .. Len(nxt) + Len(c) :
                 joined[i] = IF i <= Len(nxt) THEN nxt[i] ELSE c[i - Len(nxt)]
        BY <2>5, <3>1, Concatenation, Zenon
      <4> HIDE DEF joined
      <4> QED
        BY <2>5, <3>1, <4>1
    <3> HIDE DEF joined
    <3> QED
      BY <2>4, <3>2, <3>3
  <2>7. \A i \in 1 .. Len(nxt') : nxt'[i] \in SegRef'
    <3>1. \A i \in 1 .. Len(segs) : nxt[i] \in 0 .. Len(segs)
      BY <2>5 DEF ClientTypeOK, SegRef
    <3>2. \A i \in 1 .. n : c[i] \in 0 .. (Len(segs) + n)
      BY <2>3
    <3> HIDE DEF c
    <3> SUFFICES ASSUME NEW i \in 1 .. (Len(segs) + n)
                 PROVE  nxt'[i] \in 0 .. (Len(segs) + n)
      BY <2>4, <2>6 DEF SegRef
    <3>3. CASE i <= Len(segs)
      BY <2>2, <2>5, <2>6, <3>1, <3>3
    <3>4. CASE ~(i <= Len(segs))
      <4>1. i - Len(segs) \in 1 .. n
        BY <2>2, <2>5, <3>4
      <4>2. nxt'[i] = c[i - Len(segs)]
        BY <2>6, <3>4
      <4> QED
        BY <3>2, <4>1, <4>2
    <3> QED
      BY <3>3, <3>4
  <2>8. SegRef \subseteq SegRef' /\ Len(segs) + 1 \in SegRef'
    BY <2>2, <2>4, <2>5 DEF SegRef
  <2>9. /\ head' \in SegRef' /\ unsent' \in SegRef' /\ tail' \in SegRef'
        /\ newhead' \in SegRef' /\ seen' \in SegRef' /\ hndSeg' \in SegRef'
    BY <1>6, <2>8 DEF Send, ClientTypeOK
  <2>10. timer' \in [Timers -> TimerPc] /\ timerSeg' \in [Timers -> SegRef']
    BY <1>6, <2>8 DEF Send, ClientTypeOK
  <2>11. nextSeq' \in Nat /\ submitted' \in Nat
    BY <2>1 DEF ClientTypeOK
  <2>12. ChannelTypeOK'
    BY <1>6 DEF Send, ChannelTypeOK
  <2>13. /\ app' = "readhead" /\ nSends' = nSends + 1
         /\ UNCHANGED <<cstate, svrPort, unAck, try, finPort, appCnt, hndVars,
                        clientDown, nConnects>>
    BY <1>6 DEF Send
  <2> QED
    BY <2>4, <2>6, <2>7, <2>9, <2>10, <2>11, <2>12, <2>13 DEF ClientTypeOK, AppPc
<1>7. CASE ReadHead
  BY <1>7 DEF ReadHead, ChannelTypeOK, ClientTypeOK, SegRef, AppPc
<1>8. CASE AppendList
  <2>1. Len(segs) \in SegRef /\ SegRef' = SegRef /\ SegRef \subseteq Nat
    BY <1>8, PointersTyped DEF AppendList, SegRef
  <2>2. timer' \in [Timers -> TimerPc]
    BY <1>8 DEF AppendList, ClientTypeOK, TimerPc
  <2>3. nxt' \in Seq(Nat) /\ Len(nxt') = Len(nxt) /\ \A i \in 1 .. Len(nxt) : nxt'[i] \in SegRef
    <3>1. CASE nxt' = nxt
      BY <3>1 DEF ClientTypeOK
    <3>2. CASE nxt' = [nxt EXCEPT ![tail] = newhead]
      <4>1. nxt \in [1 .. Len(nxt) -> Nat] /\ Len(nxt) \in Nat /\ newhead \in SegRef
        BY LenProperties DEF ClientTypeOK
      <4>2. nxt' \in [1 .. Len(nxt) -> Nat]
        BY <2>1, <3>2, <4>1
      <4>3. nxt' \in Seq(Nat) /\ Len(nxt') = Len(nxt)
        BY <4>1, <4>2
      <4> QED
        BY <3>2, <4>1, <4>3 DEF ClientTypeOK
    <3> QED
      BY <1>8, <3>1, <3>2 DEF AppendList
  <2>4. head' \in SegRef /\ newhead' \in SegRef /\ seen' \in SegRef
    BY <1>8, <2>1, PointersTyped DEF AppendList, ClientTypeOK, SegRef
  <2> QED
    BY <1>8, <2>1, <2>2, <2>3, <2>4 DEF AppendList, ChannelTypeOK, ClientTypeOK, AppPc
<1>9. CASE SendUnsent
  <2>1. segs[unsent] \in DataSegment
    BY <1>9, PointersTyped DEF SendUnsent, ClientTypeOK
  <2>2. ChannelTypeOK'
    BY <1>9, <2>1, ClientMessages, SendToServerTyped DEF SendUnsent
  <2> QED
    BY <1>9, <2>2 DEF SendUnsent, ClientTypeOK, SegRef, AppPc
<1>10. CASE CountRead
  BY <1>10 DEF CountRead, ChannelTypeOK, ClientTypeOK, SegRef, AppPc
<1>11. CASE CountStore
  <2>1. SegRef' = SegRef /\ unAck' \in Int
    BY <1>11 DEF CountStore, ClientTypeOK, SegRef
  <2> QED
    BY <1>11, <2>1, PointersTyped DEF CountStore, ChannelTypeOK, ClientTypeOK, AppPc
<1>12. CASE SendReturn
  BY <1>12 DEF SendReturn, ChannelTypeOK, ClientTypeOK, SegRef, AppPc
<1>13. CASE Disconnect
  BY <1>13 DEF Disconnect, ChannelTypeOK, ClientTypeOK, SegRef, CState, AppPc
<1>14. CASE DisconnectPoll
  <2>1. app' \in AppPc /\ try' \in Nat /\ finPort' \in Port
    BY <1>14 DEF DisconnectPoll, ClientTypeOK, AppPc, Port
  <2>2. app' \notin {"count", "store"}
    BY <1>14 DEF DisconnectPoll
  <2> QED
    BY <1>14, <2>1, <2>2 DEF DisconnectPoll, ChannelTypeOK, ClientTypeOK, SegRef
<1>15. CASE DisconnectLastCheck
  BY <1>15 DEF DisconnectLastCheck, ChannelTypeOK, ClientTypeOK, SegRef, CState, AppPc, Port
<1>16. CASE Close
  BY <1>16 DEF Close, ChannelTypeOK, ClientTypeOK, SegRef, CState, AppPc
<1>17. CASE SendSyn
  <2>1. ChannelTypeOK'
    BY <1>17, ClientMessages, SendToServerTyped DEF SendSyn, Port
  <2> QED
    BY <1>17, <2>1 DEF SendSyn, ClientTypeOK, SegRef, AppPc
<1>18. CASE SendFin
  <2>1. ChannelTypeOK'
    BY <1>18, ClientMessages, SendToServerTyped DEF SendFin, ClientTypeOK
  <2> QED
    BY <1>18, <2>1 DEF SendFin, ClientTypeOK, SegRef, AppPc
<1> QED
  BY <1>1, <1>2, <1>3, <1>4, <1>5, <1>6, <1>7, <1>8, <1>9, <1>10, <1>11, <1>12,
     <1>13, <1>14, <1>15, <1>16, <1>17, <1>18 DEF AppCall, AppProgress

LEMMA HandlerTyped ==
  ASSUME ChannelTypeOK, ClientTypeOK, HandlerReceive \/ HandlerWork \/ ClientLoss
  PROVE  ChannelTypeOK' /\ ClientTypeOK'
<1> USE DEF tcbVars, appVars, hndVars, timerVars, histVars, chanVars, PointersInUse
<1>1. CASE RecvSynAck
  BY <1>1, TakeAnswerTyped DEF RecvSynAck, ClientTypeOK, SegRef, CState, HndPc
<1>2. CASE RecvFinAck
  BY <1>2, TakeAnswerTyped DEF RecvFinAck, ClientTypeOK, SegRef, CState, HndPc
<1>3. CASE RecvDataAck
  BY <1>3, TakeAnswerTyped DEF RecvDataAck, ClientTypeOK, SegRef, HndPc
<1>4. CASE RecvOther
  BY <1>4, TakeAnswerTyped DEF RecvOther, clientVars, ClientTypeOK, SegRef
<1>5. CASE StorePort
  BY <1>5 DEF StorePort, ChannelTypeOK, ClientTypeOK, SegRef, HndPc, Port
<1>6. CASE CountAckRead
  BY <1>6 DEF CountAckRead, ChannelTypeOK, ClientTypeOK, SegRef, HndPc
<1>7. CASE CountAckStore
  BY <1>7 DEF CountAckStore, ChannelTypeOK, ClientTypeOK, SegRef, HndPc
<1>8. CASE NextSegment
  <2>1. SegRef' = SegRef /\ hndSeg' \in SegRef
    BY <1>8, PointersTyped DEF NextSegment, ClientTypeOK, SegRef
  <2> QED
    BY <1>8, <2>1 DEF NextSegment, ChannelTypeOK, ClientTypeOK, HndPc
<1>9. CASE StoreHead
  BY <1>9, PointersTyped DEF StoreHead, ChannelTypeOK, ClientTypeOK, SegRef, HndPc
<1>10. CASE HandlerFault
  BY <1>10 DEF HandlerFault, ChannelTypeOK, ClientTypeOK, SegRef
<1>11. CASE ClientLoss
  <2>1. Tail(s2c) \in Seq(ServerMsg)
    BY <1>11, HeadTailProperties DEF ClientLoss, ChannelTypeOK
  <2> QED
    BY <1>11, <2>1 DEF ClientLoss, clientVars, ChannelTypeOK, ClientTypeOK, SegRef
<1> QED
  BY <1>1, <1>2, <1>3, <1>4, <1>5, <1>6, <1>7, <1>8, <1>9, <1>10, <1>11
  DEF HandlerReceive, HandlerWork

LEMMA TimerTyped ==
  ASSUME ChannelTypeOK, ClientTypeOK, NEW t \in Timers, TimerStep(t)
  PROVE  ChannelTypeOK' /\ ClientTypeOK'
<1> USE DEF tcbVars, appVars, hndVars, timerVars, histVars, chanVars, PointersInUse
<1>1. CASE TimerTop(t)
  BY <1>1 DEF TimerTop, ChannelTypeOK, ClientTypeOK, SegRef, TimerPc
<1>2. CASE TimerWake(t)
  BY <1>2 DEF TimerWake, ChannelTypeOK, ClientTypeOK, SegRef, TimerPc
<1>3. CASE TimerTest(t)
  BY <1>3 DEF TimerTest, ChannelTypeOK, ClientTypeOK, SegRef, TimerPc
<1>4. CASE Resend(t)
  <2>1. timerSeg[t] \in SegRef \ {0}
    BY <1>4 DEF Resend, ClientTypeOK
  <2>2. segs[timerSeg[t]] \in DataSegment /\ nxt[timerSeg[t]] \in SegRef
    BY <2>1, PointersTyped
  <2>3. ChannelTypeOK'
    BY <1>4, <2>2, ClientMessages, SendToServerTyped DEF Resend
  <2>4. timerSeg' \in [Timers -> SegRef]
    BY <1>4, <2>2 DEF Resend, ClientTypeOK
  <2> QED
    BY <1>4, <2>3, <2>4 DEF Resend, ClientTypeOK, SegRef
<1>5. CASE ResendDone(t)
  BY <1>5 DEF ResendDone, ChannelTypeOK, ClientTypeOK, SegRef, TimerPc
<1>6. CASE TimerFault(t)
  BY <1>6 DEF TimerFault, ChannelTypeOK, ClientTypeOK, SegRef
<1>7. CASE TimerLoad(t)
  <2>1. timerSeg' \in [Timers -> SegRef]
    BY <1>7 DEF TimerLoad, ClientTypeOK
  <2> QED
    BY <1>7, <2>1 DEF TimerLoad, ChannelTypeOK, ClientTypeOK, SegRef, TimerPc
<1> QED
  BY <1>1, <1>2, <1>3, <1>4, <1>5, <1>6, <1>7 DEF TimerStep

(* The segment at the head of c2s, and what is left when it is received.   *)
LEMMA ReceivedByServer ==
  ASSUME ChannelTypeOK, c2s # <<>>
  PROVE  Head(c2s) \in ClientMsg /\ Tail(c2s) \in Seq(ClientMsg)
  BY HeadTailProperties DEF ChannelTypeOK

LEMMA ServerTakeTyped ==
  ASSUME ChannelTypeOK, NEW t, Take(t)
  PROVE  ChannelTypeOK' /\ Head(c2s) \in ClientMsg
  BY ReceivedByServer DEF Take, ChannelTypeOK

LEMMA AnswerTyped ==
  ASSUME ChannelTypeOK, ServerTypeOK,
         NEW pc, NEW t \in {"SYNACK", "FINACK", "DATAACK"}, NEW n \in Nat,
         NEW next \in ServerPc, Answer(pc, t, n, next)
  PROVE  ChannelTypeOK' /\ ServerTypeOK'
<1>1. ServerReply(t, n) \in ServerMsg
  BY DEF ServerReply, ServerMsg
<1>2. ChannelTypeOK'
  BY <1>1, AppendProperties DEF ChannelTypeOK, Answer, SendToClient
<1> QED
  BY <1>2 DEF Answer, ServerTypeOK

(* What mrt_server_recv copies out of the buffer.                          *)
LEMMA PartOfBuffer ==
  ASSUME NEW s \in Seq(Nat), NEW a \in Nat, NEW n \in Nat, a + n <= Len(s)
  PROVE  SubSeq(s, a + 1, a + n) \in Seq(Nat)
<1>1. \A i \in (a + 1) .. (a + n) : s[i] \in Nat
  <2>1. (a + 1) .. (a + n) \subseteq 1 .. Len(s)
    BY LenProperties
  <2> QED
    BY <2>1, ElementOfSeq
<1> QED
  BY <1>1, SubSeqProperties

LEMMA ServerTyped ==
  ASSUME ChannelTypeOK, ServerTypeOK, ServerNext
  PROVE  ChannelTypeOK' /\ ServerTypeOK'
<1> USE DEF chanVars
<1>1. CASE ServerSock
  BY <1>1 DEF ServerSock, ChannelTypeOK, ServerTypeOK, SState
<1>2. CASE Accept
  BY <1>2 DEF Accept, ChannelTypeOK, ServerTypeOK, SState
<1>3. CASE AcceptReturn
  BY <1>3 DEF AcceptReturn, ChannelTypeOK, ServerTypeOK
<1>4. CASE Recv
  <2> PICK length \in RecvLens :
             /\ used >= length
             /\ got' = got \o SubSeq(buf, base + 1, base + length)
             /\ used' = used - length
             /\ base' = base + length
    BY <1>4 DEF Recv
  <2>1. /\ length \in Nat /\ length <= used
        /\ base \in Nat /\ used \in Nat /\ Len(buf) = base + used
        /\ buf \in Seq(Nat) /\ got \in Seq(Nat)
    BY ServerAssumption DEF ServerTypeOK
  <2> DEFINE part   == SubSeq(buf, base + 1, base + length)
             joined == got \o part
  <2>2. part \in Seq(Nat)
    BY <2>1, PartOfBuffer
  <2>3. got' = joined /\ base' = base + length /\ used' = used - length
    OBVIOUS
  <2> HIDE DEF part
  <2>4. joined \in Seq(Nat)
    BY <2>1, <2>2, Concatenation
  <2> HIDE DEF joined
  <2>5. used' \in Nat /\ base' \in Nat /\ Len(buf) = base' + used'
    BY <2>1, <2>3
  <2> QED
    BY <1>4, <2>3, <2>4, <2>5 DEF Recv, ChannelTypeOK, ServerTypeOK
<1>5. CASE ServerClose
  BY <1>5 DEF ServerClose, ChannelTypeOK, ServerTypeOK, SState
<1>6. CASE RecvSyn
  BY <1>6, ServerTakeTyped DEF RecvSyn, ServerTypeOK, SState, ServerPc
<1>7. CASE RecvSynAgain \/ RecvFin
  BY <1>7, ServerTakeTyped DEF RecvSynAgain, RecvFin, ServerTypeOK, ServerPc
<1>8. CASE RecvData
  <2> DEFINE m == Head(c2s)
  <2>1. ChannelTypeOK' /\ m \in ClientMsg
    BY <1>8, ServerTakeTyped DEF RecvData
  <2>2. m.len \in Nat /\ m.pos \in Nat
    BY <2>1 DEF ClientMsg
  <2> HIDE DEF m
  <2>3. expect' \in Nat /\ used' \in Nat /\ buf' \in Seq(Nat) /\ Len(buf') = base + used'
    <3>1. CASE UNCHANGED <<expect, buf, used>>
      BY <3>1 DEF ServerTypeOK
    <3>2. CASE /\ expect' = expect + m.len
               /\ buf' = SubSeq(buf, 1, base + used) \o Payload(m)
               /\ used' = used + m.len
      <4>1. SubSeq(buf, 1, base + used) = buf
        BY SubSeqProperties DEF ServerTypeOK
      <4>2. Payload(m) \in Seq(Nat) /\ Len(Payload(m)) = m.len
        BY <2>2 DEF Payload
      <4>3. buf \in Seq(Nat) /\ Len(buf) = base + used /\ base \in Nat /\ used \in Nat
            /\ expect \in Nat
        BY DEF ServerTypeOK
      <4> DEFINE p      == Payload(m)
                 joined == buf \o p
      <4>4. buf' = joined
        BY <3>2, <4>1
      <4> HIDE DEF p
      <4>5. joined \in Seq(Nat) /\ Len(joined) = Len(buf) + Len(p)
        BY <4>2, <4>3, Concatenation DEF p
      <4>6. Len(p) = m.len
        BY <4>2 DEF p
      <4> HIDE DEF joined
      <4>7. expect' = expect + m.len /\ used' = used + m.len
        BY <3>2
      <4>8. expect' \in Nat /\ used' \in Nat
        BY <2>2, <4>3, <4>7
      <4>9. Len(joined) = base + used'
        BY <2>2, <4>3, <4>5, <4>6, <4>7
      <4> QED
        BY <4>4, <4>5, <4>8, <4>9
    <3> QED
      BY <1>8, <3>1, <3>2 DEF RecvData, m
  <2> QED
    BY <1>8, <2>1, <2>3 DEF RecvData, ServerTypeOK, ServerPc
<1>9. CASE RecvIgnored
  BY <1>9, ReceivedByServer DEF RecvIgnored, ChannelTypeOK, ServerTypeOK, serverVars
<1>10. CASE ServerLoss
  BY <1>10, ReceivedByServer DEF ServerLoss, ChannelTypeOK, ServerTypeOK, serverVars
<1>11. CASE SendAnswer
  <2>1. /\ {"recv", "connected", "closewait"} \subseteq ServerPc
        /\ expect \in Nat /\ 0 \in Nat
    BY DEF ServerPc, ServerTypeOK
  <2>2. CASE Answer("synack", "SYNACK", 0, "recv")
    BY <2>1, <2>2, AnswerTyped
  <2>3. CASE Answer("resynack", "SYNACK", 0, "connected")
    BY <2>1, <2>3, AnswerTyped
  <2>4. CASE Answer("finack", "FINACK", 0, "closewait")
    BY <2>1, <2>4, AnswerTyped
  <2>5. CASE Answer("dataack", "DATAACK", expect, "recv")
    BY <2>1, <2>5, AnswerTyped
  <2> QED
    BY <1>11, <2>2, <2>3, <2>4, <2>5 DEF SendAnswer
<1>12. CASE StoreConnected
  BY <1>12 DEF StoreConnected, ChannelTypeOK, ServerTypeOK, SState, ServerPc
<1>13. CASE StoreCloseWait
  BY <1>13 DEF StoreCloseWait, ChannelTypeOK, ServerTypeOK, SState, ServerPc
<1>14. CASE StoreClientPort
  BY <1>14 DEF StoreClientPort, ChannelTypeOK, ServerTypeOK, ServerPc
<1>15. CASE ServerFault
  BY <1>15 DEF ServerFault, ChannelTypeOK, ServerTypeOK
<1> QED
  BY <1>1, <1>2, <1>3, <1>4, <1>5, <1>6, <1>7, <1>8, <1>9, <1>10, <1>11, <1>12,
     <1>13, <1>14, <1>15
  DEF ServerNext, ServerApp, ServerReceive, ServerWork

LEMMA InitTyped == Init => TypeOK
<1> SUFFICES ASSUME Init PROVE TypeOK
  OBVIOUS
<1>1. ChannelTypeOK
  <2>1. <<>> \in Seq(ClientMsg) /\ <<>> \in Seq(ServerMsg)
    BY EmptySeq
  <2> QED
    BY <2>1 DEF Init, ChannelInit, ChannelTypeOK
<1>2. ServerTypeOK
  <2>1. <<>> \in Seq(Nat) /\ Len(<<>>) = 0
    BY EmptySeq
  <2>2. /\ sstate = "NULL" /\ expect = 0 /\ buf = <<>> /\ base = 0 /\ used = 0
        /\ sapp = "start" /\ shnd = "recv" /\ got = <<>>
    BY DEF Init, ServerInit
  <2>3. serverDown \in BOOLEAN
    BY Zenon DEF Init, ServerInit
  <2> QED
    BY <2>1, <2>2, <2>3 DEF ServerTypeOK, SState, ServerPc
<1>3. /\ segs \in Seq(DataSegment) /\ nxt \in Seq(Nat) /\ Len(segs) = 0 /\ Len(nxt) = 0
      /\ 0 \in SegRef /\ \A i \in 1 .. Len(nxt) : nxt[i] \in SegRef
  BY EmptySeq DEF Init, ClientInit, SegRef
<1>4. timer \in [Timers -> TimerPc] /\ timerSeg \in [Timers -> SegRef]
  BY <1>3 DEF Init, ClientInit, TimerPc
<1>5. ClientTypeOK
  <2>1. /\ cstate = "NULL" /\ svrPort = "unset" /\ nextSeq = 0 /\ unAck = 0
        /\ head = 0 /\ unsent = 0 /\ tail = 0
        /\ app = "start" /\ try = 0 /\ finPort = "unset"
        /\ newhead = 0 /\ seen = 0 /\ appCnt = 0
        /\ hnd = "recv" /\ hndAck = 0 /\ hndSeg = 0 /\ hndCnt = 0
        /\ submitted = 0 /\ nSends = 0 /\ nConnects = 0
    BY DEF Init, ClientInit
  <2>2. clientDown \in BOOLEAN
    BY Zenon DEF Init, ClientInit
  <2> QED
    BY <1>3, <1>4, <2>1, <2>2
    DEF ClientTypeOK, PointersInUse, CState, AppPc, HndPc, Port
<1> QED
  BY <1>1, <1>2, <1>5 DEF TypeOK

LEMMA NextTyped == TypeOK /\ [Next]_vars => TypeOK'
<1> SUFFICES ASSUME TypeOK, [Next]_vars PROVE TypeOK'
  OBVIOUS
<1>1. CASE ClientNext /\ UNCHANGED serverVars
  <2>1. ChannelTypeOK' /\ ClientTypeOK'
    BY <1>1, AppTyped, HandlerTyped, TimerTyped DEF ClientNext, TypeOK
  <2> QED
    BY <1>1, <2>1 DEF TypeOK, ServerTypeOK, serverVars
<1>2. CASE ServerNext /\ UNCHANGED clientVars
  <2>1. ChannelTypeOK' /\ ServerTypeOK'
    BY <1>2, ServerTyped DEF TypeOK
  <2> QED
    BY <1>2, <2>1 DEF TypeOK, ClientTypeOK, PointersInUse, SegRef, clientVars,
       tcbVars, appVars, hndVars, timerVars, histVars
<1>3. CASE UNCHANGED vars
  BY <1>3 DEF TypeOK, ChannelTypeOK, ClientTypeOK, ServerTypeOK, PointersInUse,
     SegRef, vars, chanVars, clientVars, serverVars, tcbVars, appVars, hndVars,
     timerVars, histVars
<1> QED
  BY <1>1, <1>2, <1>3 DEF Next

(* Type correctness: every variable keeps the shape of its C declaration,  *)
(* and no thread follows a send buffer pointer that is NULL or points to   *)
(* no segBuf where the code does not check it (mrt_client.c).              *)
THEOREM TypeCorrect == Spec => []TypeOK
<1> QED
  BY InitTyped, NextTyped, PTL DEF Spec
=============================================================================
