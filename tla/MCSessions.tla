----------------------------- MODULE MCSessions -----------------------------
(* Sessions with a DMC and an HMI that say two things each, and connections *)
(* of both that come later, or at the same time.                           *)
EXTENDS Sessions, TLC

CONSTANTS d1, d2, h1, h2

MCManifests == d1 :> {<<"VDCM", "WPC">>} @@ d2 :> {<<>>}

MCRequests == h1 :> {<<"CHECK_NEW_PACKAGE", "UPGRADE_PROGRESS">>}
           @@ h2 :> {<<"START_UPGRADE">>}

Told(ss) == \E s \in ss : sending[s] # None \/ \E c \in Conns : strays[s][c] > 0

\* At most one report is under way, to the only HMI.
OneReport ==
  /\ Len(accepted) <= 2 /\ ~\E s \in Reporters, c \in Conns : strays[s][c] > 0
  /\ \A s, r \in Reporters : sending[s] # None /\ sending[r] # None => r = s

\* A bound: one peer says something, or reports are sent to one kind of them; or an HMI
\* talks with a report under way to it. But for the answer that races with that report,
\* what comes of one of these is in variables that the others do not use.
OneTalks ==
  LET talks == <<\E d \in Dmcs : came[d] > 0, \E h \in Hmis : got[h] > 0,
                 Told({Monitor}), Told(Reporters)>> IN
  \A i, j \in DOMAIN talks : talks[i] /\ talks[j] => i = j \/ ({i, j} = {2, 4} /\ OneReport)
=============================================================================
