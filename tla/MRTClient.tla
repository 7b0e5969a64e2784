------------------------------ MODULE MRTClient -----------------------------
(***************************************************************************)
(* lab4/client/mrt_client.c: one client socket, from mrt_client_sock to    *)
(* mrt_client_close.  Three kinds of thread share its TCB:                 *)
(*   the application thread, in connect, send, disconnect and close;       *)
(*   the seghandler thread, which takes segments from the network;         *)
(*   the sendBuf_timer threads, one for every send that found the send     *)
(*   buffer empty.                                                         *)
(* Only seghandler ever locks bufMutex, so the lock orders nothing: the    *)
(* steps below are cut at the reads and writes of the shared TCB fields.   *)
(* A local variable is set back to its initial value when it goes out of   *)
(* scope.  A segBuf of the send buffer is an index into segs (allocation order),   *)
(* nxt[i] its next pointer, 0 the NULL pointer.                            *)
(***************************************************************************)
EXTENDS MRTChannel

CONSTANTS
  GbnWindow,    \* GBN_WINDOW
  SynMaxRetry,  \* SYN_MAX_RETRY (mrt_client_disconnect uses it as well)
  SendLens,     \* lengths the application passes to mrt_client_send
  MaxSends,     \* bound: calls of mrt_client_send
  MaxConnects,  \* bound: calls of mrt_client_connect
  Disconnects,  \* does the application ever call mrt_client_disconnect?
  Reconnects,   \* does it call mrt_client_connect again after that?
  Timers,       \* sendBuf_timer threads; at least MaxSends never blocks
  Pacing        \* timing assumptions of a run: PollWaits, TimerWaits, CountWaits

ASSUME ClientAssumption ==
  /\ GbnWindow \in Nat
  /\ SynMaxRetry \in Nat
  /\ SendLens \subseteq Nat
  /\ MaxSends \in Nat
  /\ MaxConnects \in Nat
  /\ Disconnects \in BOOLEAN
  /\ Reconnects \in BOOLEAN
  /\ Pacing \subseteq {"slowpoll", "slowtimer", "atomiccount"}

VARIABLES
  \* the TCB
  cstate,     \* state, or "NULL" when the table slot is empty
  svrPort,    \* svr_portNum
  nextSeq,    \* next_seqNum
  unAck,      \* unAck_segNum (unsigned in the code: see InWindow)
  head, unsent, tail,   \* sendBufHead, sendBufunSent, sendBufTail
  segs, nxt,  \* every segBuf ever allocated and its next pointer
  \* the application thread
  app,        \* where it is
  try,        \* the retry counter of connect and disconnect
  finPort,    \* destination in the header of the FIN that disconnect built
  newhead,    \* newhead of mrt_client_send
  seen,       \* its local copy of sendBufHead
  appCnt,     \* the unAck_segNum it read
  \* the seghandler thread
  hnd, hndAck, hndSeg, hndCnt,
  \* the sendBuf_timer threads
  timer, timerSeg,
  clientDown, \* the process died on a NULL pointer
  \* history and bounds
  submitted,  \* bytes handed to mrt_client_send so far
  nSends, nConnects

tcbVars   == <<cstate, svrPort, nextSeq, unAck, head, unsent, tail, segs, nxt>>
appVars   == <<app, try, finPort, newhead, seen, appCnt>>
hndVars   == <<hnd, hndAck, hndSeg, hndCnt>>
timerVars == <<timer, timerSeg>>
histVars  == <<submitted, nSends, nConnects>>

clientVars == <<tcbVars, appVars, hndVars, timerVars, clientDown, histVars>>

CState == {"NULL", "CLOSED", "SYNSENT", "CONNECTED", "FINWAIT"}

AppPc == {"start", "ready", "syn", "connecting", "giveup",
          "readhead", "append", "sending", "count", "store",
          "fin", "disconnecting", "disconnected", "done"}

InSend == {"readhead", "append", "sending", "count", "store"}

HndPc == {"recv", "svrport", "noport", "scan", "store", "next"}

TimerPc == {"off", "top", "asleep", "test", "load", "walk"}

SegRef == 0 .. Len(segs)      \* a pointer into the send buffer, 0 is NULL

\* A thread about to follow a pointer to a segment without a check has one.
PointersInUse ==
  /\ app \in {"count", "store"} => unsent # 0
  /\ hnd \in {"store", "next"} => hndSeg # 0

ClientTypeOK ==
  /\ PointersInUse
  /\ cstate \in CState /\ svrPort \in Port
  /\ nextSeq \in Nat /\ unAck \in Int
  /\ segs \in Seq(DataSegment) /\ nxt \in Seq(Nat) /\ Len(nxt) = Len(segs)
  /\ \A i \in 1 .. Len(nxt) : nxt[i] \in SegRef
  /\ head \in SegRef /\ unsent \in SegRef /\ tail \in SegRef
  /\ newhead \in SegRef /\ seen \in SegRef /\ hndSeg \in SegRef
  /\ app \in AppPc /\ try \in Nat /\ finPort \in Port /\ appCnt \in Int
  /\ hnd \in HndPc /\ hndAck \in Nat /\ hndCnt \in Int
  /\ timer \in [Timers -> TimerPc] /\ timerSeg \in [Timers -> SegRef]
  /\ clientDown \in BOOLEAN
  /\ submitted \in Nat /\ nSends \in Nat /\ nConnects \in Nat

ClientInit ==
  /\ cstate = "NULL" /\ svrPort = "unset" /\ nextSeq = 0 /\ unAck = 0
  /\ head = 0 /\ unsent = 0 /\ tail = 0 /\ segs = <<>> /\ nxt = <<>>
  /\ app = "start" /\ try = 0 /\ finPort = "unset" /\ newhead = 0 /\ seen = 0 /\ appCnt = 0
  /\ hnd = "recv" /\ hndAck = 0 /\ hndSeg = 0 /\ hndCnt = 0
  /\ timer = [t \in Timers |-> "off"] /\ timerSeg = [t \in Timers |-> 0]
  /\ clientDown = FALSE
  /\ submitted = 0 /\ nSends = 0 /\ nConnects = 0

-----------------------------------------------------------------------------
(* Timing assumptions, each in force only when Pacing names it.            *)

\* connect polls every SYN_TIMEOUT/100 microseconds: a poll does not fall
\* between the two adjacent stores with which seghandler handles a SYNACK.
PollWaits == "slowpoll" \in Pacing => hnd # "svrport"

\* sendBuf_timer sleeps SENDBUF_POLLING_INTERVAL: it does not wake inside a
\* call of mrt_client_send.
TimerWaits == "slowtimer" \in Pacing => app \notin InSend

\* The read and the write of one += 1 or -= 1 of unAck_segNum are adjacent
\* instructions: neither thread starts its own between those of the other.
CountWaits == "atomiccount" \in Pacing => app # "store" /\ hnd # "store"

-----------------------------------------------------------------------------
(* The application thread.                                                 *)

\* mrt_client_sock: a new TCB in the first free slot, CLOSED, numbering at 0.
\* One life of one slot is modelled, so the socket is created once.
Sock ==
  /\ app = "start"
  /\ cstate' = "CLOSED" /\ nextSeq' = 0 /\ unAck' = 0
  /\ head' = 0 /\ unsent' = 0 /\ tail' = 0
  /\ app' = "ready"
  /\ UNCHANGED <<svrPort, segs, nxt, try, finPort, newhead, seen, appCnt, hndVars,
                 timerVars, clientDown, histVars, chanVars>>

\* mrt_client_connect in state CLOSED, when the application calls it.
MayConnectAnyState ==     \* mutant: the state is not looked at
  /\ nConnects < MaxConnects
  /\ app = "ready" \/ (Reconnects /\ app = "disconnected")

MayConnect ==
  /\ cstate = "CLOSED"
  /\ nConnects < MaxConnects
  /\ app = "ready" \/ (Reconnects /\ app = "disconnected")

\* The state is SYNSENT before the first SYN goes out.
Connect ==
  /\ MayConnect
  /\ cstate' = "SYNSENT" /\ app' = "syn" /\ try' = 0
  /\ nConnects' = nConnects + 1
  /\ UNCHANGED <<svrPort, nextSeq, unAck, head, unsent, tail, segs, nxt,
                 finPort, newhead, seen, appCnt, hndVars, timerVars, clientDown,
                 submitted, nSends, chanVars>>

\* A SYN to the port the caller named.
SendSyn ==
  /\ app = "syn"
  /\ SendToServer(ClientControl("SYN", "svr"))
  /\ app' = "connecting"
  /\ UNCHANGED <<tcbVars, try, finPort, newhead, seen, appCnt, hndVars,
                 timerVars, clientDown, histVars>>

\* One turn of the retry loop: return if CONNECTED, else one more SYN.
ConnectPoll ==
  /\ app = "connecting" /\ try < SynMaxRetry /\ PollWaits
  /\ \/ cstate = "CONNECTED" /\ app' = "ready" /\ try' = 0
     \/ cstate # "CONNECTED" /\ app' = "syn" /\ try' = try + 1
  /\ UNCHANGED <<tcbVars, finPort, newhead, seen, appCnt, hndVars, timerVars,
                 clientDown, histVars, chanVars>>

\* The last check, and the store of CLOSED that follows it as its own step.
ConnectLastCheck ==
  /\ app = "connecting" /\ try >= SynMaxRetry /\ PollWaits
  /\ app' = IF cstate = "CONNECTED" THEN "ready" ELSE "giveup"
  /\ try' = 0
  /\ UNCHANGED <<tcbVars, finPort, newhead, seen, appCnt, hndVars, timerVars,
                 clientDown, histVars, chanVars>>

ConnectGiveUp ==
  /\ app = "giveup"
  /\ cstate' = "CLOSED" /\ app' = "ready"
  /\ UNCHANGED <<svrPort, nextSeq, unAck, head, unsent, tail, segs, nxt,
                 try, finPort, newhead, seen, appCnt, hndVars, timerVars, clientDown,
                 histVars, chanVars>>

(***************************************************************************)
(* mrt_client_send cuts the data into length / MAX_SEG_LEN full segments   *)
(* and one that holds the remainder, which may be empty.                   *)
(***************************************************************************)
SegmentsAllFull(length) ==     \* mutant: the last one is not shorter
  LET n == (length \div MaxSegLen) + 1
  IN [i \in 1 .. n |->
        [port |-> svrPort, len |-> MaxSegLen,
         seq |-> nextSeq + (i - 1) * MaxSegLen, pos |-> submitted + (i - 1) * MaxSegLen]]

Segments(length) ==
  LET n == (length \div MaxSegLen) + 1
  IN [i \in 1 .. n |->
        [port |-> svrPort,
         seq  |-> nextSeq + (i - 1) * MaxSegLen,
         len  |-> IF i = n THEN length % MaxSegLen ELSE MaxSegLen,
         pos  |-> submitted + (i - 1) * MaxSegLen]]

\* The next pointers of n new segBufs chained one after the other.
ChainUnended(n) == [i \in 1 .. n |-> Len(segs) + i + 1]   \* mutant: no NULL at the end

Chain(n) == [i \in 1 .. n |-> IF i < n THEN Len(segs) + i + 1 ELSE 0]

\* next_seqNum after a send of length bytes.
NumberAfter(length) == nextSeq + length

\* Lines 148-191: the state check and the chain of new segments.
Send ==
  /\ app = "ready" /\ cstate = "CONNECTED" /\ nSends < MaxSends
  /\ \E length \in SendLens :
       /\ segs' = segs \o Segments(length)
       /\ nxt' = nxt \o Chain(Len(Segments(length)))
       /\ nextSeq' = NumberAfter(length)
       /\ submitted' = submitted + length
  /\ newhead' = Len(segs) + 1
  /\ unsent' = IF unsent = 0 THEN Len(segs) + 1 ELSE unsent
  /\ app' = "readhead" /\ nSends' = nSends + 1
  /\ UNCHANGED <<cstate, svrPort, unAck, head, tail, try, finPort, seen, appCnt,
                 hndVars, timerVars, clientDown, nConnects, chanVars>>

\* Line 195: head = sendBufHead.
ReadHead ==
  /\ app = "readhead"
  /\ seen' = head /\ app' = "append"
  /\ UNCHANGED <<tcbVars, try, finPort, newhead, appCnt, hndVars, timerVars,
                 clientDown, histVars, chanVars>>

\* Lines 197-210: the list becomes the buffer, and a timer thread starts, if
\* the head read before was NULL; otherwise the list is linked to the tail.
AppendList ==
  /\ app = "append"
  /\ tail' = Len(segs) /\ app' = "sending" /\ newhead' = 0 /\ seen' = 0
  /\ \/ /\ seen = 0
        /\ head' = newhead
        /\ \E t \in Timers : timer[t] = "off" /\ timer' = [timer EXCEPT ![t] = "top"]
        /\ UNCHANGED nxt
     \/ /\ seen # 0
        /\ nxt' = [nxt EXCEPT ![tail] = newhead]
        /\ UNCHANGED <<head, timer>>
  /\ UNCHANGED <<cstate, svrPort, nextSeq, unAck, unsent, segs, try, finPort, appCnt,
                 hndVars, timerSeg, clientDown, histVars, chanVars>>

\* unAck_segNum is unsigned: a count that fell below zero is a huge one.
InWindow == unAck \in 0 .. GbnWindow

\* Lines 213-217: send the first unsent segment while the window is open.
SendUnsent ==
  /\ app = "sending" /\ InWindow /\ unsent # 0
  /\ SendToServer(Data(segs[unsent]))
  /\ app' = "count"
  /\ UNCHANGED <<tcbVars, try, finPort, newhead, seen, appCnt, hndVars, timerVars,
                 clientDown, histVars>>

\* Line 218: unAck_segNum += 1 is a read and a write.
CountRead ==
  /\ app = "count" /\ CountWaits
  /\ appCnt' = unAck /\ app' = "store"
  /\ UNCHANGED <<tcbVars, try, finPort, newhead, seen, hndVars, timerVars, clientDown,
                 histVars, chanVars>>

CountStore ==
  /\ app = "store"
  /\ unAck' = appCnt + 1 /\ unsent' = nxt[unsent]
  /\ app' = "sending" /\ appCnt' = 0
  /\ UNCHANGED <<cstate, svrPort, nextSeq, head, tail, segs, nxt, try,
                 finPort, newhead, seen, hndVars, timerVars, clientDown,
                 histVars, chanVars>>

\* The call returns when nothing is unsent or the window is closed.
SendReturn ==
  /\ app = "sending" /\ ~(InWindow /\ unsent # 0)
  /\ app' = "ready"
  /\ UNCHANGED <<tcbVars, try, finPort, newhead, seen, appCnt, hndVars, timerVars,
                 clientDown, histVars, chanVars>>

\* mrt_client_disconnect: CONNECTED -> FINWAIT; the header of the FIN is
\* built once.
Disconnect ==
  /\ Disconnects
  /\ app = "ready" /\ cstate = "CONNECTED"
  /\ cstate' = "FINWAIT" /\ app' = "fin" /\ try' = 0 /\ finPort' = svrPort
  /\ UNCHANGED <<svrPort, nextSeq, unAck, head, unsent, tail, segs, nxt,
                 newhead, seen, appCnt, hndVars, timerVars, clientDown,
                 histVars, chanVars>>

SendFin ==
  /\ app = "fin"
  /\ SendToServer(ClientControl("FIN", finPort))
  /\ app' = "disconnecting"
  /\ UNCHANGED <<tcbVars, try, finPort, newhead, seen, appCnt, hndVars,
                 timerVars, clientDown, histVars>>

\* One turn of its retry loop: return if CLOSED, else one more FIN.
DisconnectPoll ==
  /\ app = "disconnecting" /\ try < SynMaxRetry
  /\ \/ /\ cstate = "CLOSED" /\ app' = "disconnected"
        /\ try' = 0 /\ finPort' = "unset"
     \/ /\ cstate # "CLOSED" /\ app' = "fin"
        /\ try' = try + 1 /\ UNCHANGED finPort
  /\ UNCHANGED <<tcbVars, newhead, seen, appCnt, hndVars, timerVars,
                 clientDown, histVars, chanVars>>

DisconnectLastCheckWaits ==     \* mutant: waits for the FINACK for good
  /\ app = "disconnecting" /\ try >= SynMaxRetry /\ cstate = "CLOSED"
  /\ app' = "disconnected" /\ try' = 0 /\ finPort' = "unset"
  /\ UNCHANGED <<tcbVars, newhead, seen, appCnt, hndVars, timerVars,
                 clientDown, histVars, chanVars>>

\* The retries are used up: the state is CLOSED whatever the answer was.
DisconnectLastCheck ==
  /\ app = "disconnecting" /\ try >= SynMaxRetry
  /\ cstate' = "CLOSED" /\ app' = "disconnected" /\ try' = 0 /\ finPort' = "unset"
  /\ UNCHANGED <<svrPort, nextSeq, unAck, head, unsent, tail, segs, nxt,
                 newhead, seen, appCnt, hndVars, timerVars, clientDown,
                 histVars, chanVars>>

\* mrt_client_close frees the TCB and empties its slot, in state CLOSED only.
Close ==
  /\ app = "disconnected" /\ cstate = "CLOSED"
  /\ cstate' = "NULL" /\ app' = "done"
  /\ UNCHANGED <<svrPort, nextSeq, unAck, head, unsent, tail, segs, nxt,
                 try, finPort, newhead, seen, appCnt, hndVars, timerVars, clientDown,
                 histVars, chanVars>>

AppCall == Sock \/ Connect \/ Send \/ Disconnect \/ Close

AppProgress ==
  \/ SendSyn \/ ConnectPoll \/ ConnectLastCheck \/ ConnectGiveUp
  \/ ReadHead \/ AppendList \/ SendUnsent \/ CountRead \/ CountStore
  \/ SendReturn \/ SendFin \/ DisconnectPoll \/ DisconnectLastCheck

-----------------------------------------------------------------------------
(* The seghandler thread.                                                  *)

\* The segment at the head of s2c has type t and is taken.
TakeAnswer(t) ==
  /\ hnd = "recv" /\ s2c # <<>>
  /\ Head(s2c).type = t
  /\ s2c' = Tail(s2c) /\ c2s' = c2s

\* The segments that mean something in the present state.
ExpectsAnySynAck(t) ==     \* mutant: a SYNACK connects in every state
  \/ cstate # "NULL" /\ t = "SYNACK"
  \/ cstate = "CONNECTED" /\ t = "DATAACK"
  \/ cstate = "FINWAIT" /\ t = "FINACK"

Expects(t) ==
  \/ cstate = "SYNSENT" /\ t = "SYNACK"
  \/ cstate = "CONNECTED" /\ t = "DATAACK"
  \/ cstate = "FINWAIT" /\ t = "FINACK"

\* SYNSENT and a SYNACK: the state is stored first, svr_portNum after it.
RecvSynAck ==
  /\ Expects("SYNACK") /\ TakeAnswer("SYNACK")
  /\ cstate' = "CONNECTED" /\ hnd' = "svrport"
  /\ UNCHANGED <<svrPort, nextSeq, unAck, head, unsent, tail, segs, nxt,
                 appVars, hndAck, hndSeg, hndCnt, timerVars, clientDown,
                 histVars>>

\* FINWAIT and a FINACK: CLOSED, then svr_portNum from a header field the
\* server never sets in a FINACK.
RecvFinAck ==
  /\ Expects("FINACK") /\ TakeAnswer("FINACK")
  /\ cstate' = "CLOSED" /\ hnd' = "noport"
  /\ UNCHANGED <<svrPort, nextSeq, unAck, head, unsent, tail, segs, nxt,
                 appVars, hndAck, hndSeg, hndCnt, timerVars, clientDown,
                 histVars>>

StorePort ==
  /\ hnd \in {"svrport", "noport"} /\ cstate # "NULL"
  /\ svrPort' = IF hnd = "svrport" THEN "svr" ELSE "unset"
  /\ hnd' = "recv"
  /\ UNCHANGED <<cstate, nextSeq, unAck, head, unsent, tail, segs, nxt,
                 appVars, hndAck, hndSeg, hndCnt, timerVars, clientDown,
                 histVars, chanVars>>

\* CONNECTED and a DATAACK: start the walk at the head of the buffer.
RecvDataAck ==
  /\ Expects("DATAACK") /\ TakeAnswer("DATAACK")
  /\ hndAck' = Head(s2c).seq /\ hndSeg' = head /\ hnd' = "scan"
  /\ UNCHANGED <<tcbVars, appVars, hndCnt, timerVars, clientDown, histVars>>

\* Any other segment is received and left without effect.
RecvOther ==
  /\ \E t \in {"SYNACK", "FINACK", "DATAACK"} : ~Expects(t) /\ TakeAnswer(t)
  /\ UNCHANGED clientVars

\* mnp_recvseg discards the segment (seglost).
ClientLoss ==
  /\ hnd = "recv" /\ s2c # <<>>
  /\ s2c' = Tail(s2c) /\ c2s' = c2s
  /\ UNCHANGED clientVars

CoversItself(ack, i) == ack >= segs[i].seq                  \* mutant
CoversLater(ack, i) == ack > segs[i].seq + segs[i].len      \* mutant

\* An ack covers a segment whose number is below it.
Covers(ack, i) == ack > segs[i].seq

\* Lines 388-395: unAck_segNum -= 1, a read and a write, then on to the next.
CountAckRead ==
  /\ hnd = "scan" /\ cstate # "NULL" /\ CountWaits
  /\ hndSeg # 0 /\ Covers(hndAck, hndSeg)
  /\ hndCnt' = unAck /\ hnd' = "store"
  /\ UNCHANGED <<tcbVars, appVars, hndAck, hndSeg, timerVars, clientDown,
                 histVars, chanVars>>

CountAckStore ==
  /\ hnd = "store" /\ cstate # "NULL"
  /\ unAck' = hndCnt - 1 /\ hnd' = "next" /\ hndCnt' = 0
  /\ UNCHANGED <<cstate, svrPort, nextSeq, head, unsent, tail, segs, nxt,
                 appVars, hndAck, hndSeg, timerVars, clientDown,
                 histVars, chanVars>>

NextSegment ==
  /\ hnd = "next"
  /\ hndSeg' = nxt[hndSeg] /\ hnd' = "scan"
  /\ UNCHANGED <<tcbVars, appVars, hndAck, hndCnt, timerVars, clientDown,
                 histVars, chanVars>>

\* Line 401: sendBufHead = head.  Nothing unsent is sent here.
StoreHead ==
  /\ hnd = "scan" /\ cstate # "NULL"
  /\ ~(hndSeg # 0 /\ Covers(hndAck, hndSeg))
  /\ head' = hndSeg /\ hnd' = "recv" /\ hndAck' = 0 /\ hndSeg' = 0
  /\ UNCHANGED <<cstate, svrPort, nextSeq, unAck, unsent, tail, segs, nxt,
                 appVars, hndCnt, timerVars, clientDown,
                 histVars, chanVars>>

\* The TCB was freed and its slot emptied while seghandler was using it.
HandlerFault ==
  /\ cstate = "NULL" /\ hnd \in {"svrport", "noport", "scan", "store"}
  /\ clientDown' = TRUE
  /\ UNCHANGED <<tcbVars, appVars, hndVars, timerVars, histVars, chanVars>>

HandlerReceive == RecvSynAck \/ RecvFinAck \/ RecvDataAck \/ RecvOther

HandlerWork ==
  \/ StorePort \/ CountAckRead \/ CountAckStore \/ NextSegment \/ StoreHead
  \/ HandlerFault

-----------------------------------------------------------------------------
(* A sendBuf_timer thread t.                                               *)

\* The loop condition: the thread ends unless the state is CONNECTED.
TimerTop(t) ==
  /\ timer[t] = "top" /\ cstate # "NULL"
  /\ timer' = [timer EXCEPT ![t] = IF cstate = "CONNECTED" THEN "asleep" ELSE "off"]
  /\ UNCHANGED <<tcbVars, appVars, hndVars, timerSeg, clientDown, histVars,
                 chanVars>>

\* Awake: the thread ends if the buffer is empty.
TimerWake(t) ==
  /\ timer[t] = "asleep" /\ cstate # "NULL" /\ TimerWaits
  /\ timer' = [timer EXCEPT ![t] = IF head # 0 THEN "test" ELSE "off"]
  /\ UNCHANGED <<tcbVars, appVars, hndVars, timerSeg, clientDown, histVars,
                 chanVars>>

\* The timeout test reads sendBufHead again.  It compares the address of a
\* local variable with a truncated address, so it always finds a timeout.
TimerTest(t) ==
  /\ timer[t] = "test" /\ cstate # "NULL" /\ head # 0
  /\ timer' = [timer EXCEPT ![t] = "load"]
  /\ UNCHANGED <<tcbVars, appVars, hndVars, timerSeg, clientDown, histVars,
                 chanVars>>

TimerLoadUnsent(t) ==     \* mutant: the walk starts at sendBufunSent
  /\ timer[t] = "load" /\ cstate # "NULL"
  /\ timerSeg' = [timerSeg EXCEPT ![t] = unsent]
  /\ timer' = [timer EXCEPT ![t] = "walk"]
  /\ UNCHANGED <<tcbVars, appVars, hndVars, clientDown, histVars, chanVars>>

\* And a third time, to start the walk.
TimerLoad(t) ==
  /\ timer[t] = "load" /\ cstate # "NULL"
  /\ timerSeg' = [timerSeg EXCEPT ![t] = head]
  /\ timer' = [timer EXCEPT ![t] = "walk"]
  /\ UNCHANGED <<tcbVars, appVars, hndVars, clientDown, histVars, chanVars>>

\* The resend loop runs while head != sendBufunSent || head != NULL: over
\* every segment from the head of the buffer to the end of the list.
Resend(t) ==
  /\ timer[t] = "walk" /\ cstate # "NULL" /\ timerSeg[t] # 0
  /\ SendToServer(Data(segs[timerSeg[t]]))
  /\ timerSeg' = [timerSeg EXCEPT ![t] = nxt[@]]
  /\ UNCHANGED <<tcbVars, appVars, hndVars, timer, clientDown, histVars>>

ResendDone(t) ==
  /\ timer[t] = "walk" /\ cstate # "NULL"
  /\ timerSeg[t] = 0 /\ unsent = 0
  /\ timer' = [timer EXCEPT ![t] = "top"]
  /\ UNCHANGED <<tcbVars, appVars, hndVars, timerSeg, clientDown, histVars,
                 chanVars>>

\* A NULL pointer is followed: the TCB is gone, the buffer was emptied
\* between two reads of its head, or the end of the list was reached while
\* sendBufunSent is not NULL.
TimerFault(t) ==
  /\ \/ timer[t] # "off" /\ cstate = "NULL"
     \/ timer[t] = "test" /\ head = 0
     \/ timer[t] = "walk" /\ timerSeg[t] = 0 /\ unsent # 0
  /\ clientDown' = TRUE
  /\ UNCHANGED <<tcbVars, appVars, hndVars, timerVars, histVars, chanVars>>

TimerStep(t) ==
  \/ TimerTop(t) \/ TimerWake(t) \/ TimerTest(t) \/ TimerLoad(t)
  \/ Resend(t) \/ ResendDone(t) \/ TimerFault(t)

-----------------------------------------------------------------------------
ClientNext ==
  /\ ~clientDown
  /\ \/ AppCall \/ AppProgress
     \/ HandlerReceive \/ HandlerWork \/ ClientLoss
     \/ \E t \in Timers : TimerStep(t)
=============================================================================
