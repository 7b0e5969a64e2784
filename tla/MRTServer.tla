------------------------------ MODULE MRTServer -----------------------------
(***************************************************************************)
(* lab4/server/mrt_server.c: one server socket, from mrt_server_sock to    *)
(* mrt_server_close.  The application thread is in sock, accept, recv and  *)
(* close; the seghandler thread takes segments from the network.           *)
(***************************************************************************)
EXTENDS MRTChannel

CONSTANT RecvLens       \* lengths the application passes to mrt_server_recv

ASSUME ServerAssumption == RecvLens \subseteq Nat

VARIABLES
  sstate,     \* state, or "NULL" when the table slot is empty
  expect,     \* expect_seqNum
  buf,        \* bytes written from where recvBuf first pointed, as positions
  base,       \* how far recvBuf has been moved from there
  used,       \* usedBufLen
  sapp,       \* where the application thread is
  shnd,       \* where the seghandler thread is
  serverDown, \* the process died on a NULL pointer
  got         \* history: the bytes mrt_server_recv returned, in order

serverVars == <<sstate, expect, buf, base, used, sapp, shnd, serverDown, got>>

SState == {"NULL", "CLOSED", "LISTENING", "CONNECTED", "CLOSEWAIT"}

ServerPc == {"recv", "synack", "resynack", "connected", "finack", "closewait",
             "clientport", "dataack"}

ServerTypeOK ==
  /\ sstate \in SState
  /\ expect \in Nat /\ base \in Nat /\ used \in Nat
  /\ buf \in Seq(Nat) /\ got \in Seq(Nat)
  /\ Len(buf) = base + used
  /\ sapp \in {"start", "created", "accepting", "accepted", "done"}
  /\ shnd \in ServerPc
  /\ serverDown \in BOOLEAN

ServerInit ==
  /\ sstate = "NULL" /\ expect = 0
  /\ buf = <<>> /\ base = 0 /\ used = 0
  /\ sapp = "start" /\ shnd = "recv" /\ serverDown = FALSE
  /\ got = <<>>

-----------------------------------------------------------------------------
(* The application thread.                                                 *)

\* mrt_server_sock: a CLOSED TCB with an empty receive buffer.
ServerSock ==
  /\ sapp = "start"
  /\ sstate' = "CLOSED" /\ used' = 0 /\ base' = 0 /\ buf' = <<>>
  /\ sapp' = "created"
  /\ UNCHANGED <<expect, shnd, serverDown, got, chanVars>>

\* mrt_server_accept: LISTENING, then spin until the state is CONNECTED.
Accept ==
  /\ sapp = "created"
  /\ sstate' = "LISTENING" /\ sapp' = "accepting"
  /\ UNCHANGED <<expect, buf, base, used, shnd, serverDown, got, chanVars>>

AcceptReturn ==
  /\ sapp = "accepting" /\ sstate = "CONNECTED"
  /\ sapp' = "accepted"
  /\ UNCHANGED <<sstate, expect, buf, base, used, shnd, serverDown, got, chanVars>>

\* mrt_server_recv: once length bytes are there, copy them out, under the
\* lock, and move recvBuf past them.  The state is not looked at.
Recv ==
  /\ sapp = "accepted" /\ shnd # "dataack"
  /\ \E length \in RecvLens :
       /\ used >= length
       /\ got' = got \o SubSeq(buf, base + 1, base + length)
       /\ used' = used - length
       /\ base' = base + length
  /\ UNCHANGED <<sstate, expect, buf, sapp, shnd, serverDown, chanVars>>

\* mrt_server_close frees the TCB and empties its slot, in CLOSEWAIT only.
ServerClose ==
  /\ sapp = "accepted" /\ sstate = "CLOSEWAIT"
  /\ sstate' = "NULL" /\ sapp' = "done"
  /\ UNCHANGED <<expect, buf, base, used, shnd, serverDown, got, chanVars>>

ServerApp == ServerSock \/ Accept \/ AcceptReturn \/ Recv \/ ServerClose

-----------------------------------------------------------------------------
(* The seghandler thread.  It holds bufMutex while it handles a DATA       *)
(* segment, the answer included.                                           *)

\* The segment at the head of c2s has type t and the socket's own port.
Take(t) ==
  /\ shnd = "recv" /\ c2s # <<>>
  /\ Head(c2s).type = t /\ Head(c2s).port = "svr"
  /\ c2s' = Tail(c2s) /\ s2c' = s2c

\* LISTENING and a SYN: the connection is up and numbering starts at 0.
RecvSyn ==
  /\ sstate = "LISTENING" /\ Take("SYN")
  /\ sstate' = "CONNECTED" /\ expect' = 0 /\ shnd' = "synack"
  /\ UNCHANGED <<buf, base, used, sapp, serverDown, got>>

\* CONNECTED and a SYN: answered first, the same stores follow.
RecvSynAgain ==
  /\ sstate = "CONNECTED" /\ Take("SYN")
  /\ shnd' = "resynack"
  /\ UNCHANGED <<sstate, expect, buf, base, used, sapp, serverDown, got>>

\* CONNECTED, or CLOSEWAIT again, and a FIN: answered before CLOSEWAIT is
\* stored.
RecvFin ==
  /\ sstate \in {"CONNECTED", "CLOSEWAIT"} /\ Take("FIN")
  /\ shnd' = "finack"
  /\ UNCHANGED <<sstate, expect, buf, base, used, sapp, serverDown, got>>

InSequenceOrLater(m) == m.seq >= expect     \* mutant: gaps are accepted
InSequenceOrEarlier(m) == m.seq <= expect   \* mutant: repetitions are

InSequence(m) == m.seq = expect

Payload(m) == [i \in 1 .. m.len |-> m.pos + i]

\* CONNECTED and DATA: the segment expected next is appended behind the bytes
\* not yet read, any other one is dropped; both are answered.
RecvData ==
  /\ sstate = "CONNECTED" /\ Take("DATA")
  /\ LET m == Head(c2s)
     IN \/ /\ InSequence(m)
           /\ expect' = expect + m.len
           /\ buf' = SubSeq(buf, 1, base + used) \o Payload(m)
           /\ used' = used + m.len
        \/ /\ ~InSequence(m)
           /\ UNCHANGED <<expect, buf, used>>
  /\ shnd' = "dataack"
  /\ UNCHANGED <<sstate, base, sapp, serverDown, got>>

\* Every other segment is received and left without effect: no socket has
\* its port, or the state has no case for its type.
Handles(t) ==
  \/ t = "SYN"  /\ sstate \in {"LISTENING", "CONNECTED"}
  \/ t = "FIN"  /\ sstate \in {"CONNECTED", "CLOSEWAIT"}
  \/ t = "DATA" /\ sstate = "CONNECTED"

RecvIgnored ==
  /\ shnd = "recv" /\ c2s # <<>>
  /\ Head(c2s).port = "unset" \/ ~Handles(Head(c2s).type)
  /\ c2s' = Tail(c2s) /\ s2c' = s2c
  /\ UNCHANGED serverVars

ServerReceive == RecvSyn \/ RecvSynAgain \/ RecvFin \/ RecvData \/ RecvIgnored

\* mnp_recvseg discards the segment (seglost), or the process is gone and
\* nobody is there to receive it.
ServerLoss ==
  /\ shnd = "recv" \/ serverDown
  /\ c2s # <<>>
  /\ c2s' = Tail(c2s) /\ s2c' = s2c
  /\ UNCHANGED serverVars

\* From pc, the answer t with number n goes out; next is what follows it.
Answer(pc, t, n, next) ==
  /\ shnd = pc /\ sstate # "NULL"
  /\ SendToClient(ServerReply(t, n))
  /\ shnd' = next
  /\ UNCHANGED <<sstate, expect, buf, base, used, sapp, serverDown, got>>

SendAnswer ==
  \/ Answer("synack", "SYNACK", 0, "recv")
  \/ Answer("resynack", "SYNACK", 0, "connected")
  \/ Answer("finack", "FINACK", 0, "closewait")
  \/ Answer("dataack", "DATAACK", expect, "recv")

\* The stores that follow the answer to a second SYN.
StoreConnected ==
  /\ shnd = "connected"
  /\ sstate' = "CONNECTED" /\ expect' = 0 /\ shnd' = "recv"
  /\ UNCHANGED <<buf, base, used, sapp, serverDown, got, chanVars>>

\* The stores that follow the answer to a FIN.
StoreCloseWait ==
  /\ shnd = "closewait" /\ sstate # "NULL"
  /\ sstate' = "CLOSEWAIT" /\ shnd' = "clientport"
  /\ UNCHANGED <<expect, buf, base, used, sapp, serverDown, got, chanVars>>

StoreClientPort ==
  /\ shnd = "clientport" /\ sstate # "NULL"
  /\ shnd' = "recv"
  /\ UNCHANGED <<sstate, expect, buf, base, used, sapp, serverDown, got, chanVars>>

\* The application closed the socket in between: the slot is NULL.
ServerFault ==
  /\ shnd # "recv" /\ sstate = "NULL"
  /\ serverDown' = TRUE
  /\ UNCHANGED <<sstate, expect, buf, base, used, sapp, shnd, got, chanVars>>

ServerWork ==
  SendAnswer \/ StoreConnected \/ StoreCloseWait \/ StoreClientPort \/ ServerFault

-----------------------------------------------------------------------------
ServerNext ==
  \/ ~serverDown /\ (ServerApp \/ ServerReceive \/ ServerWork)
  \/ ServerLoss
=============================================================================
