------------------------------ MODULE MRTStream -----------------------------
(***************************************************************************)
(* What MRT promises its two applications, whatever segments are lost: the *)
(* server reads the bytes the client wrote, in order, without gaps and     *)
(* without repetition.  A byte is its position in the client's stream.     *)
(***************************************************************************)
EXTENDS Integers, Sequences

VARIABLES
  written,    \* number of bytes the client application has written
  read        \* the bytes the server application has read, in order

StreamInit == written = 0 /\ read = <<>>

Write ==
  /\ written' \in Nat /\ written' >= written
  /\ UNCHANGED read

Read ==
  /\ \E n \in 1 .. (written - Len(read)) :
       read' = read \o [i \in 1 .. n |-> Len(read) + i]
  /\ UNCHANGED written

StreamNext == Write \/ Read

StreamSpec == StreamInit /\ [][StreamNext]_<<written, read>>
=============================================================================
