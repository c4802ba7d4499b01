----------------------------- MODULE ByteStream -----------------------------
(***************************************************************************)
(* What a TCP connection promises to its two applications, whatever the    *)
(* network does: for each direction a stream of units that is read in the  *)
(* order in which it was written, without gaps or repetitions, and whose   *)
(* end is seen only by a reader that has everything written before it.     *)
(* Nothing is promised about progress.  TCPConnection is shown to          *)
(* implement it.                                                           *)
(*                                                                         *)
(* A unit is its position in the stream, so a stream is two counters.      *)
(***************************************************************************)
EXTENDS Naturals

CONSTANT Stream     \* the directions of the connection

VARIABLES
  written,    \* per stream: units the writer has handed over
  read,       \* per stream: units the reader has been given
  closed,     \* the streams that their writers have closed
  ended       \* the streams whose readers have seen the end

vars == <<written, read, closed, ended>>

Init ==
  /\ written = [s \in Stream |-> 0]
  /\ read = [s \in Stream |-> 0]
  /\ closed = {}
  /\ ended = {}

Write(s) ==
  /\ s \notin closed
  /\ written' = [written EXCEPT ![s] = @ + 1]
  /\ UNCHANGED <<read, closed, ended>>

Close(s) ==
  /\ s \notin closed
  /\ closed' = closed \cup {s}
  /\ UNCHANGED <<written, read, ended>>

(* The reader is given some more of the stream, and perhaps its end.        *)
Read(s) ==
  /\ \E n \in read[s] .. written[s] : read' = [read EXCEPT ![s] = n]
  /\ \/ UNCHANGED ended
     \/ /\ s \in closed /\ read'[s] = written[s]
        /\ ended' = ended \cup {s}
  /\ UNCHANGED <<written, closed>>

Next == \E s \in Stream : Write(s) \/ Close(s) \/ Read(s)

Spec == Init /\ [][Next]_vars
=============================================================================
