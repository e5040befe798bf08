---------------------------- MODULE MCCgwThread -----------------------------
(* CgwThread twice: requests of one api that follow each other, a bounded  *)
(* number of them, and tdr_stat requests that overlap, as tdr_run and      *)
(* tdr_stat itself start them.  A behaviour is one or the other.           *)
EXTENDS CgwThread, Naturals

CONSTANT MaxRequests

VARIABLES
  requests,                    \* started so far, of those that follow each other
  overlap,                     \* TRUE: the requests overlap
  statExit, statPc, statConn   \* of tdr_stat

statVars == <<statExit, statPc, statConn>>

Stat == INSTANCE CgwThread
  WITH Api <- "tdr_stat", Serial <- FALSE, exit <- statExit, pc <- statPc, conn <- statConn

MCInit == Init /\ Stat!Init /\ requests = 0 /\ overlap \in BOOLEAN

MCNext ==
  /\ UNCHANGED overlap
  /\ \/ ~overlap /\ UNCHANGED statVars /\ \E w \in Workers :
          \/ Start(w) /\ requests < MaxRequests /\ requests' = requests + 1
          \/ Thread(w) /\ UNCHANGED requests
     \/ overlap /\ UNCHANGED <<vars, requests>> /\ Stat!Next

MCFairness == IF overlap THEN Stat!Fairness ELSE Fairness

MCSpec == MCInit /\ [][MCNext]_<<vars, requests, overlap, statVars>> /\ MCFairness

\* Threads whose requests overlap and share an exit flag never all get stuck (the TODO
\* at dlc_server.c:1164 is to protect two of them from running in parallel).
StatThreadEnds == Stat!SomeThreadEnds
=============================================================================
