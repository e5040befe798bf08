---------------------------- MODULE MCDlcServer -----------------------------
(* DlcServer with threads of one kind interchangeable, and its manifests   *)
(* counted.                                                                *)
EXTENDS DlcServer, TLC

Symmetry ==
  Permutations(Workers) \cup Permutations(Downloaders) \cup Permutations(Uploaders)

\* A bound: two manifests, or two START_UPGRADEs, but not both at once.
FewMessages ==
  Cardinality({d \in Downloaders : pc[d] # "idle"}) <= 1 \/ starts = 0

VARIABLE manifests  \* received so far, up to 2

MCInit == Init /\ manifests = 0

MCNext ==
  /\ Next
  /\ manifests' =
       IF core[Main] = "out" /\ core'[Main] # "out" /\ manifests < 2 THEN manifests + 1 ELSE manifests

MCSpec == MCInit /\ [][MCNext]_<<vars, manifests>>

\* No HMI connects, nothing is uploaded or upgraded, and of the requests to the
\* orchestrator only those for the package status overlap.
StatusOnly ==
  /\ ~hmi
  /\ \A u \in Uploaders : pc[u] = "idle"
  /\ Live("tdr_run") \cup Live("tdr_stat") = {}
  /\ Cardinality(Live("pkg_new")) <= (IF Live("pkg_stat") = {} THEN 1 ELSE 0)

\* A bound: one manifest, or two for a WPC while there is nothing else to do.
OneUnlessStatusOnly ==
  manifests' <= 1 \/ (StatusOnly /\ dev_id = "WPC")'

\* Of one manifest and one START_UPGRADE the stage only advances, through all the
\* threads that store it -- except that core_state_handler(DLC_PKG_NEW) stores
\* DLC_PKG_DOWNLOADING after it has started the thread that may be past it
\* (dlc_server.c:1143).
StageForward ==
  [][manifests = 1 /\ manifests' = 1 /\ starts' <= 1 /\ core[Main] # "late"
       => Rank(g_stat') >= Rank(g_stat)]_vars

\* A reduction, for a build that does not read g_stat again: what a call of
\* core_state_handler starts is settled by its store, so it is started at once.
SwitchAtOnce ==
  LET calls == {t \in Threads : core[t] \notin {"out", "late"}} IN
  calls # {} => \E t \in calls : core'[t] # core[t]
=============================================================================
