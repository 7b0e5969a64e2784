---------------------------- MODULE FrameStream ----------------------------
(* What the framing of both programs is for: a connection carries a stream *)
(* of bytes, its users want a stream of messages.  They are read in the    *)
(* order they were written, each once, and each in the end; a lossy reader *)
(* may drop what it has taken.                                             *)
EXTENDS Naturals, Sequences

VARIABLES
  lossy,      \* the reader drops messages on purpose (seglost)
  written,    \* the messages written
  taken,      \* how many of them the reader has taken
  read        \* those it has handed on

vars == <<lossy, written, taken, read>>

Init == lossy \in BOOLEAN /\ written = <<>> /\ taken = 0 /\ read = <<>>

Write ==
  /\ written' # <<>> /\ written = SubSeq(written', 1, Len(written') - 1)
  /\ UNCHANGED <<lossy, taken, read>>

Take ==
  /\ taken < Len(written)
  /\ taken' = taken + 1
  /\ read' = Append(read, written[taken + 1]) \/ (lossy /\ read' = read)
  /\ UNCHANGED <<lossy, written>>

\* What a connection never does wrong, and that it goes on.
Safe == Init /\ [][Write \/ Take]_vars

Spec == Safe /\ WF_vars(Take)
=============================================================================
