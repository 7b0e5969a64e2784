--------------------------------- MODULE MRT --------------------------------
(***************************************************************************)
(* The MRT transport of lab4: a client socket and a server socket joined   *)
(* by the two streams of segments.                                         *)
(***************************************************************************)
EXTENDS MRTClient, MRTServer

vars == <<chanVars, clientVars, serverVars>>

Init == ChannelInit /\ ClientInit /\ ServerInit

Next ==
  \/ ClientNext /\ UNCHANGED serverVars
  \/ ServerNext /\ UNCHANGED clientVars

Spec == Init /\ [][Next]_vars

(***************************************************************************)
(* Fairness.  Every thread of the two processes keeps being scheduled, so  *)
(* each takes its next step if it stays possible.  The application threads *)
(* are fair inside a call; they need not make one.  seglost() drops each   *)
(* segment independently with probability 0.1, so a segment that reaches   *)
(* the head of a stream again and again is received in the end: strong     *)
(* fairness of the reception, and of that of the DATA segment expected.    *)
(***************************************************************************)
Client(A) == ~clientDown /\ A /\ UNCHANGED serverVars
Server(A) == ~serverDown /\ A /\ UNCHANGED clientVars

RecvExpected == c2s # <<>> /\ Head(c2s).seq = expect /\ RecvData

Fairness ==
  /\ WF_vars(Client(AppProgress))
  /\ WF_vars(Client(HandlerWork))
  /\ SF_vars(Client(HandlerReceive))
  /\ \A t \in Timers : WF_vars(Client(TimerStep(t)))
  /\ WF_vars(Server(AcceptReturn))
  /\ WF_vars(Server(ServerWork))
  /\ WF_vars(Server(ServerReceive \/ ServerLoss))
  /\ SF_vars(Server(RecvSyn \/ RecvSynAgain \/ RecvFin))
  /\ SF_vars(Server(RecvData)) /\ SF_vars(Server(RecvExpected))
  /\ WF_vars(serverDown /\ ServerLoss /\ UNCHANGED clientVars)

FairSpec == Spec /\ Fairness

-----------------------------------------------------------------------------
(***************************************************************************)
(* Safety.                                                                 *)
(***************************************************************************)

\* Every variable has the shape its C type and its use give it; in
\* particular every pointer of the send buffer points to a segBuf that
\* exists (mrt_client_send builds the list, seghandler and the timers walk it).
TypeOK == ChannelTypeOK /\ ClientTypeOK /\ ServerTypeOK

Stream == INSTANCE MRTStream WITH written <- submitted, read <- got

\* What mrt_server_recv hands out is, at every moment, the beginning of what
\* was handed to mrt_client_send, whatever seghandler on both sides, the
\* timers and the losses make of it.
ImplementsStream == Stream!StreamSpec

\* While the client is CONNECTED the server is: no SYNACK, however late,
\* connects a client to a socket that did not accept it or already saw a FIN.
HandshakeAgreement == cstate = "CONNECTED" => sstate = "CONNECTED"

\* seghandler takes a segment out of the send buffer only after the server
\* has put its bytes into the receive buffer.
AckedWereAccepted ==
  [][hnd = "scan" /\ hnd' = "store" =>
       segs[hndSeg].seq + segs[hndSeg].len <= expect]_vars

\* A server that is CONNECTED never goes back in the sequence numbers: a
\* duplicate SYN, which sets expect_seqNum to 0, never comes after data.
ExpectNeverRewinds ==
  [][sstate = "CONNECTED" /\ sstate' = "CONNECTED" => expect' >= expect]_vars

\* A segment mrt_client_send has transmitted is in front of sendBufunSent.
IsSent(i) == unsent = 0 \/ i < unsent

\* A segment on the list that starts at sendBufHead.
Buffered(i) == head # 0 /\ head <= i /\ \A j \in head .. (i - 1) : nxt[j] # 0

\* A segment that was sent, and that the server has not accepted, is in the
\* send buffer, where the timer finds it.
SentAreBuffered ==
  hnd = "recv" /\ app \notin {"readhead", "append"} =>
    \A i \in 1 .. Len(segs) :
      IsSent(i) /\ segs[i].len > 0 /\ expect <= segs[i].seq => Buffered(i)

-----------------------------------------------------------------------------
(***************************************************************************)
(* Liveness.                                                               *)
(***************************************************************************)

\* Every byte of a send reaches the receive buffer, unless the client
\* disconnects first.
EventuallyDelivered ==
  Len(buf) < submitted ~> Len(buf) = submitted \/ cstate # "CONNECTED"

\* The send buffer empties, and with that the timer thread ends.
BufferDrains == head # 0 ~> head = 0 \/ cstate # "CONNECTED"

\* mrt_client_connect and mrt_client_disconnect return, with or without an
\* answer and with both streams full of segments, unless a timer thread took
\* the process down.
CallsReturn ==
  app \in {"syn", "connecting", "giveup", "fin", "disconnecting"} ~>
    clientDown \/ app \in {"ready", "disconnected"}
=============================================================================
