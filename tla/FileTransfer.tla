---------------------------- MODULE FileTransfer ----------------------------
(***************************************************************************)
(* What a transfer of one file promises: the copy grows by the blocks of   *)
(* the file, each once and in order, and the sender believes that the      *)
(* transfer is over only when the copy is whole.  A transfer that somebody *)
(* else disturbs is void and promises nothing.                             *)
(***************************************************************************)
EXTENDS Naturals, Sequences

VARIABLES
  file,   \* its blocks, in order; the file does not change
  copy,   \* the blocks that have arrived
  status  \* "going", "done": the sender believes in success, "void"

vars == <<file, copy, status>>

Init == copy = <<>> /\ status \in {"going", "void"}

\* A step of a transfer that nobody disturbs; a void one may do anything.
Deliver ==
  /\ Len(copy) < Len(file)
  /\ copy' = Append(copy, file[Len(copy) + 1])
  /\ UNCHANGED status

Succeed ==
  /\ copy = file
  /\ status' = "done"
  /\ UNCHANGED copy

Next ==
  /\ UNCHANGED file
  /\ \/ status = "going" /\ (Deliver \/ Succeed)
     \/ status' = "void"

Spec == Init /\ [][Next]_vars
=============================================================================
