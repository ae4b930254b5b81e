------------------------------ MODULE FramePipe ------------------------------
(***************************************************************************)
(* What the frames of the log promise, without saying what a frame is:     *)
(* bytes are written, and who reads a file gets them back, each once and   *)
(* in order.  A reader of a whole file comes to its end; a reader of a     *)
(* file of which only a part is there gets a part and is told so.          *)
(***************************************************************************)
EXTENDS Integers, Sequences

VARIABLES
  sent,            \* how many bytes were written, and then: are in the file read
  got,             \* what the reader has of them
  phase            \* writing, reading a whole or a torn file, done or failed

vars == <<sent, got, phase>>

Init == sent = 0 /\ got = <<>> /\ phase = "writing"

Write ==
  /\ phase = "writing" /\ sent' > sent
  /\ UNCHANGED <<got, phase>>

(* A file may be looked at before all that is written is in it. *)
Look ==
  /\ phase = "writing" /\ sent' \in 0 .. sent
  /\ phase' \in {"whole", "torn"}
  /\ UNCHANGED got

Deliver ==
  /\ phase \in {"whole", "torn"}
  /\ \E n \in Len(got) .. sent : got' = [i \in 1 .. n |-> i]
  /\ UNCHANGED <<sent, phase>>

(* Only a whole file ends well, and only with all of it. *)
Finish ==
  /\ phase = "whole" /\ Len(got) = sent /\ phase' = "done"
  /\ UNCHANGED <<sent, got>>

Fail ==
  /\ phase = "torn" /\ phase' = "failed"
  /\ UNCHANGED <<sent, got>>

Next == Write \/ Look \/ Deliver \/ Finish \/ Fail

Spec == Init /\ [][Next]_vars
=============================================================================
