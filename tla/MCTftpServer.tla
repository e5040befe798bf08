---------------------------- MODULE MCTftpServer ----------------------------
(* TftpServer with a client that puts or gets a file of a few blocks, and  *)
(* another one with a short job of its own.                                *)
EXTENDS TftpServer, TLC

CONSTANTS c1, c2

Put(n) == [op |-> "put", blocks |-> n, ragged |-> TRUE]
Get(n, ragged) == [op |-> "get", blocks |-> n, ragged |-> ragged]

MCJobs == c1 :> {Put(2), Put(3), Get(2, TRUE), Get(1, FALSE)}
       @@ c2 :> {Put(1), Get(1, TRUE)}

MCEofJobs == c1 :> {Get(2, FALSE)}

MCNoRepeats == c1 :> 0

MCRepeats == c1 :> 1 @@ c2 :> 0
=============================================================================
