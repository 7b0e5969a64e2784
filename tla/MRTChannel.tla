----------------------------- MODULE MRTChannel -----------------------------
(***************************************************************************)
(* The path between an MRT client and an MRT server (lab4): two FIFO       *)
(* streams of segments.  A segment travels over a TCP connection to the    *)
(* local MNP process, over the overlay along the route the routing tables  *)
(* hold, and over TCP again to the peer's transport; once the routes have  *)
(* converged it is neither duplicated nor reordered.  mnp_recvseg          *)
(* discards a received segment with probability PKT_LOSS_RATE (seglost),   *)
(* so every segment at the head of a stream may be received or lost.       *)
(*                                                                         *)
(* One call of mnp_sendseg is one step here: the three send() calls that   *)
(* make up its frame are the subject of the framing module.                *)
(***************************************************************************)
EXTENDS Integers, Sequences

CONSTANTS
  MaxSegLen,   \* MAX_SEG_LEN: bytes in a full DATA segment
  ChanCap      \* segments a direction holds before send() blocks its caller

ASSUME ChannelAssumption ==
  /\ MaxSegLen \in Nat \ {0}
  /\ ChanCap \in Nat \ {0}

VARIABLES
  c2s,         \* segments on their way from the client to the server
  s2c          \* segments on their way from the server to the client

chanVars == <<c2s, s2c>>

(***************************************************************************)
(* port: the destination port, "svr" for the server's own port and "unset" *)
(*       for whatever an uninitialised svr_portNum held.                   *)
(* seq:  header.seq_num.  len: header.length.                              *)
(* pos:  not in the code: where the segment's payload stands in the stream *)
(*       of bytes the application handed to mrt_client_send; it stands for *)
(*       the data itself, so that a segment with the wrong data is seen.   *)
(***************************************************************************)
Port == {"svr", "unset"}

DataSegment == [port : Port, seq : Nat, len : Nat, pos : Nat]

ClientMsg == [type : {"SYN", "FIN", "DATA"},
              port : Port, seq : Nat, len : Nat, pos : Nat]

ServerMsg == [type : {"SYNACK", "FINACK", "DATAACK"}, seq : Nat]

ClientControl(t, p) == [type |-> t, port |-> p, seq |-> 0, len |-> 0, pos |-> 0]

Data(s) == [type |-> "DATA", port |-> s.port, seq |-> s.seq, len |-> s.len, pos |-> s.pos]

ServerReply(t, n) == [type |-> t, seq |-> n]

(***************************************************************************)
(* mnp_sendseg: append a segment to a stream.  send() blocks while the     *)
(* socket's buffers are full, so the caller's step waits for room.         *)
(***************************************************************************)
SendToServer(m) ==
  /\ Len(c2s) < ChanCap
  /\ c2s' = Append(c2s, m)
  /\ s2c' = s2c

SendToClient(m) ==
  /\ Len(s2c) < ChanCap
  /\ s2c' = Append(s2c, m)
  /\ c2s' = c2s

ChannelTypeOK == c2s \in Seq(ClientMsg) /\ s2c \in Seq(ServerMsg)

ChannelInit == c2s = <<>> /\ s2c = <<>>
=============================================================================
