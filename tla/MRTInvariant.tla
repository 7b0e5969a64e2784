---------------------------- MODULE MRTInvariant ----------------------------
(***************************************************************************)
(* Why MRT implements a stream as long as the client connects once: the    *)
(* inductive invariant of that claim, in named parts, and those behind the *)
(* handshake, the acknowledgements and the send buffer.                    *)
(* MRTStream_proofs proves them, the runs check them on small instances.   *)
(***************************************************************************)
EXTENDS MRT

\* The sequence numbers are the positions of the bytes: mrt_client_send
\* advances next_seqNum by exactly what it was handed.
SegmentsInPlace ==
  /\ nextSeq = submitted
  /\ \A i \in 1 .. Len(segs) :
       /\ segs[i].seq = segs[i].pos
       /\ segs[i].pos + segs[i].len <= submitted

InTransit(t) == {i \in 1 .. Len(c2s) : c2s[i].type = t}

\* So they are on the network, first transmissions and repetitions alike.
TransitInPlace ==
  \A i \in InTransit("DATA") :
    /\ c2s[i].seq = c2s[i].pos
    /\ c2s[i].pos + c2s[i].len <= submitted

\* Before the connection is up, nothing was sent; a call of send is inside it.
NothingSentBefore ==
  /\ app \in {"start", "syn", "connecting", "giveup"} \/ (app = "ready" /\ cstate # "CONNECTED") =>
       segs = <<>> /\ submitted = 0
  /\ app \in InSend => cstate = "CONNECTED"

\* A repeated SYN is ahead of all data, and gone when the first data arrive.
SynsBeforeData ==
  /\ \A i \in InTransit("SYN"), j \in InTransit("DATA") : i < j
  /\ InTransit("DATA") # {} => segs # <<>>
  /\ Len(buf) > 0 => segs # <<>> /\ InTransit("SYN") = {}

\* The receive buffer holds the first bytes of the stream and the server
\* expects the one that follows.
ReceivedInPlace ==
  /\ Len(buf) <= submitted
  /\ \A k \in 1 .. Len(buf) : buf[k] = k
  /\ sstate = "CONNECTED" => expect = Len(buf)
  /\ shnd \in {"resynack", "connected"} => Len(buf) = 0
  /\ sapp = "start" => sstate = "NULL" /\ shnd = "recv" /\ Len(buf) = 0

\* What was read is what recvBuf was moved past.
ReadInPlace ==
  /\ Len(got) = base
  /\ \A k \in 1 .. Len(got) : got[k] = k

\* The invariant, for an application that does not connect again.
StreamInv ==
  /\ TypeOK
  /\ SegmentsInPlace /\ TransitInPlace
  /\ NothingSentBefore /\ SynsBeforeData
  /\ ReceivedInPlace /\ ReadInPlace

-----------------------------------------------------------------------------
(* The handshake.                                                          *)

\* The application has begun to end the connection, for good.
Ending == app \in {"fin", "disconnecting", "disconnected", "done"}

\* Until then no FIN is under way or handled, the server does not leave CONNECTED, and
\* every SYNACK, sent or to be sent, is that of a socket that is CONNECTED.
HandshakeInv ==
  /\ Ending => cstate \notin {"SYNSENT", "CONNECTED"}
  /\ ~Ending =>
       /\ InTransit("FIN") = {}
       /\ shnd \notin {"finack", "closewait", "clientport"}
       /\ sstate # "CLOSEWAIT"
       /\ sapp \in {"start", "created"} => sstate \in {"NULL", "CLOSED"}
       /\ \/ cstate = "CONNECTED"
          \/ \E i \in 1 .. Len(s2c) : s2c[i].type = "SYNACK"
          \/ shnd \in {"synack", "resynack", "connected"}
          => sstate = "CONNECTED"

-----------------------------------------------------------------------------
(* The acknowledgements.                                                   *)

\* A number at which the server may stand: where a segment ends.
AtEnd(n) == n = 0 \/ \E i \in 1 .. Len(segs) : n = segs[i].seq + segs[i].len

\* A later segment starts where an earlier one ends, or behind it.
SegmentsInOrder ==
  \A i, j \in 1 .. Len(segs) : i < j => segs[i].seq + segs[i].len <= segs[j].seq

\* What is under way is a segment of the send buffer.
TransitIsBuffered ==
  \A k \in InTransit("DATA") :
    \E i \in 1 .. Len(segs) : c2s[k].seq = segs[i].seq /\ c2s[k].len = segs[i].len

\* A number the server has sent, or that seghandler works with.
Acknowledged(n) == AtEnd(n) /\ n <= expect

AckInv ==
  /\ expect = Len(buf)
  /\ SegmentsInOrder /\ TransitIsBuffered
  /\ Acknowledged(expect)
  /\ \A k \in 1 .. Len(s2c) : Acknowledged(s2c[k].seq)
  /\ Acknowledged(hndAck)

-----------------------------------------------------------------------------
(* The send buffer, when send is called once.                              *)

\* The server has accepted all segments in front of the one h points to.
Passed(h) ==
  \A i \in 1 .. Len(segs) : h = 0 \/ i < h => segs[i].seq < expect

\* The list is the segments in their order.
ListInOrder ==
  \A i \in 1 .. Len(segs) : nxt[i] = IF i < Len(segs) THEN i + 1 ELSE 0

Appending == app \in {"readhead", "append"}
Walking == hnd \in {"scan", "store", "next"}

\* Until the segments are appended, there is nothing to acknowledge.
NothingBefore ==
  nSends = 0 \/ Appending =>
    /\ head = 0 /\ seen = 0 /\ InTransit("DATA") = {} /\ shnd # "dataack" /\ ~Walking
    /\ \A t \in Timers : timer[t] = "off"
    /\ \A k \in 1 .. Len(s2c) : s2c[k].type # "DATAACK"

BufferInv ==
  /\ nSends \in {0, 1}
  /\ nSends = 0 => segs = <<>> /\ ~Appending
  /\ Appending => newhead = 1
  /\ ListInOrder
  /\ NothingBefore
  /\ ~Appending => Passed(head)
  /\ Walking => Passed(hndSeg)
  /\ hnd \in {"store", "next"} => segs[hndSeg].seq < hndAck
=============================================================================
