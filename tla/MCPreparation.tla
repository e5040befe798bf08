--------------------------- MODULE MCPreparation ----------------------------
(* DlcServer with a record of what has gone wrong with the manifest received *)
(* last: what becomes of the others?                                         *)
EXTENDS DlcServer

VARIABLE mishap  \* of the manifest received last: "none", "download", "announce", "late"

Received == core[Main] = "out" /\ core'[Main] # "out"

\* popen or curl fails.
DownloadFails ==
  \E d \in Downloaders :
    pc[d] = "run" /\ (pc'[d] = "done" \/ (pc'[d] = "ran" /\ core'[d] = "out"))

\* The orchestrator cannot be connected to when it is told of the package, or closes the
\* connection without a reply.
AnnounceFails ==
  \E w \in Live("pkg_new") :
    \/ conn[w] = "connecting" /\ conn'[w] = "closing"
    \/ conn[w] = "eof" /\ conn'[w] = "closed"

\* main() stores DLC_PKG_DOWNLOADING (line 1143) over the stage of a package that is ready.
StoresLate ==
  /\ core[Main] = "late" /\ core'[Main] = "out"
  /\ g_stat \in {"ORCH_PKG_READY", "ORCH_TDR_RUN"}

PInit == Init /\ mishap = "none"

\* A bound: a manifest is received first, and again after a download has failed.
PNext ==
  /\ Next
  /\ Received => g_stat = "IDLE" \/ mishap = "download"
  /\ mishap' = CASE Received      -> "none"
                 [] DownloadFails -> "download"
                 [] AnnounceFails -> "announce"
                 [] StoresLate    -> "late"
                 [] OTHER         -> mishap

PSpec == PInit /\ [][PNext]_<<vars, mishap>> /\ Fairness

\* An upgrade that only waits for START_UPGRADE, or is the orchestrator's own.
Prepared ==
  \/ dev_id = "WPC" /\ g_stat = "ORCH_PKG_READY"
  \/ dev_id # "WPC" /\ g_stat = "ORCH_TDR_RUN"

=============================================================================
