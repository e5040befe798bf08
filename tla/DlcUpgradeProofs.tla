-------------------------- MODULE DlcUpgradeProofs --------------------------
(***************************************************************************)
(* The order of an upgrade, for any number of manifests, uploads, HTTP     *)
(* requests and START_UPGRADE messages: in the optimised build no request  *)
(* to upgrade comes before START_UPGRADE, before an upload, or before an   *)
(* HMI is there to hear of it, and each START_UPGRADE asks for one upgrade *)
(* at most.  And, in both builds, the stage of one manifest and one        *)
(* START_UPGRADE only advances: the threads that store it are then a       *)
(* chain, each started by the one before it.                               *)
(***************************************************************************)
EXTENDS DlcServerProofs, MCUpgrades

TdrActive == \E w \in Workers : api[w] \in {"tdr_run", "tdr_stat"}

PackageUploaded == \E u \in Uploaders : pc[u] \in {"ran", "done"}

\* What START_UPGRADE has seen.
Started == hmi /\ PackageUploaded /\ starts > 0

\* Calls of core_state_handler that start a request to upgrade, or a poll of it.
Asking(t) == StageOf(t) \in {"ORCH_PKG_READY", "ORCH_TDR_RUN"}

\* HmiTriggers, HmiKnown and UpgradeNeedsUpload are about requests; the reasons
\* they hold are what START_UPGRADE has seen, what its check of g_stat relies on,
\* and that a call acts on the stage it has stored, which in the optimised build it
\* does.
UpgradeInv ==
  /\ TdrActive => Started
  /\ pc[Hmi] = "checked" => Started
  /\ \A t \in Threads : Asking(t) => Started
  /\ g_stat = "ORCH_PKG_READY" => PackageUploaded
  /\ \A t \in Threads : core[t] = "reread" => Reread

Upgrading == TdrActive \/ pc[Hmi] = "checked" \/ \E t \in Threads : Asking(t)

\* What every step does but the end of an upload and START_UPGRADE.
NoNewCause ==
  /\ \A u \in Uploaders : pc[u] \in {"ran", "done"} => pc'[u] \in {"ran", "done"}
  /\ hmi => hmi'
  /\ starts > 0 => starts' > 0
  /\ pc'[Hmi] = "checked" => pc[Hmi] = "checked"
  /\ TdrActive' => Upgrading
  /\ g_stat' = "ORCH_PKG_READY" => g_stat = "ORCH_PKG_READY" \/ Upgrading
  /\ \A t \in Threads : Asking(t)' => Upgrading
  /\ \A t \in Threads : core'[t] = "reread" => core[t] = "reread" \/ Reread

\* What the step stores is not read back by a call that stored another stage, or is
\* the stage that LateStore stores, which asks for nothing.
Unread ==
  \/ g_stat' \in {g_stat, "DLC_PKG_DOWNLOADING"}
  \/ \A t \in Threads : core[t] # "reread"

\* Such a step keeps the invariant.
LEMMA NoNewCauseKeeps ==
  ASSUME UpgradeInv, NoNewCause
  PROVE  UpgradeInv'
<1>1. PackageUploaded => PackageUploaded'
  BY DEF NoNewCause, PackageUploaded
<1>2. Upgrading => Started
  BY DEF UpgradeInv, Upgrading
<1>3. Started => Started'
  BY <1>1 DEF NoNewCause, Started
<1>4. QED
  BY <1>1, <1>2, <1>3 DEF UpgradeInv, NoNewCause, Upgrading, Started

\* A store of g_stat, with or without a call of core_state_handler, moves towards an
\* upgrade only with a stage of it.
LEMMA StoreNoNewCause ==
  ASSUME StateOK, Unread, NEW t \in Threads, NEW stage,
         stage \in {"ORCH_PKG_READY", "ORCH_TDR_RUN"} => Upgrading,
         CoreState(t, stage), stage # "reread"
  PROVE  /\ g_stat' = "ORCH_PKG_READY" => Upgrading
         /\ \A v \in Threads : Asking(v)' => Upgrading
         /\ \A v \in Threads : core'[v] = "reread" => core[v] = "reread" \/ Reread
<1>1. /\ g_stat' = stage
      /\ \A v \in Threads :
           core'[v] = IF v = t THEN (IF Reread THEN "reread" ELSE stage) ELSE core[v]
  BY DEF CoreState, StateOK, DataOK
<1>2. StageOf(t)' = stage
  BY <1>1 DEF StageOf
<1>3. \A v \in Threads \ {t} : Asking(v)' => Asking(v)
  BY <1>1 DEF Asking, StageOf, Unread
<1>4. QED
  BY <1>1, <1>2, <1>3 DEF Asking, Upgrading

\* The switch of a call: the next request of an upgrade is started only by a call
\* with a stage of it.
LEMMA SwitchNoNewCause ==
  ASSUME StateOK, NEW t \in Threads, Switch(t)
  PROVE  NoNewCause
<1> USE DEF StateOK, ThreadsOK
<1>1. UNCHANGED <<g_stat, hmi, starts>>
  BY SwitchStarts DEF dataVars
<1>2. PICK c \in {"late", "out"} : core' = [core EXCEPT ![t] = c]
  BY SwitchStarts
<1>3. \A v \in Threads : core'[v] \in {core[v], "late", "out"}
  BY <1>2 DEF DataOK
<1>4. /\ \A v \in Threads : Asking(v)' => Upgrading
      /\ \A v \in Threads : core'[v] = "reread" => core[v] = "reread" \/ Reread
  BY <1>1, <1>3 DEF Asking, StageOf, Upgrading
<1>5. SUFFICES /\ \A u \in Uploaders : pc[u] \in {"ran", "done"} => pc'[u] = pc[u]
               /\ pc'[Hmi] = "checked" => pc[Hmi] = "checked"
               /\ TdrActive' => Upgrading
  BY <1>1, <1>4 DEF NoNewCause
<1>6. CASE UNCHANGED <<pc, api, conn>>
  BY <1>6 DEF TdrActive, Upgrading
<1>7. ASSUME NEW d \in Downloaders, pc' = [pc EXCEPT ![d] = "run"], UNCHANGED api
      PROVE  /\ \A u \in Uploaders : pc[u] \in {"ran", "done"} => pc'[u] = pc[u]
             /\ pc'[Hmi] = "checked" => pc[Hmi] = "checked"
             /\ TdrActive' => Upgrading
  BY <1>7, KindsApart DEF TdrActive, Upgrading
<1>8. ASSUME NEW n \in Workers,
             pc' = [pc EXCEPT ![n] = "loop"],
             api' = [api EXCEPT ![n] = RequestOf(StageOf(t))]
      PROVE  /\ \A u \in Uploaders : pc[u] \in {"ran", "done"} => pc'[u] = pc[u]
             /\ pc'[Hmi] = "checked" => pc[Hmi] = "checked"
             /\ TdrActive' => Upgrading
  <2>1. RequestOf(StageOf(t)) \in {"tdr_run", "tdr_stat"} => Asking(t)
    BY DEF RequestOf, Asking
  <2>2. TdrActive' => TdrActive \/ RequestOf(StageOf(t)) \in {"tdr_run", "tdr_stat"}
    <3> DEFINE a == RequestOf(StageOf(t))
    <3>1. api' = [api EXCEPT ![n] = a]
      BY <1>8
    <3> HIDE DEF a
    <3>2. TdrActive' => TdrActive \/ a \in {"tdr_run", "tdr_stat"}
      BY <3>1 DEF TdrActive
    <3>3. QED
      BY <3>2 DEF a
  <2>3. QED
    BY <1>8, <2>1, <2>2, KindsApart DEF Upgrading
<1>9. QED
  BY <1>6, <1>7, <1>8, SwitchStarts

\* An event of a worker's connection: a call with a stage of an upgrade is made only
\* by the handler of a request that is part of it.
LEMMA EventNoNewCause ==
  ASSUME StateOK, Unread,
         NEW w \in Workers, NEW p \in {"ran", "close"}, pc[w] # "idle",
         Event(w, p) \/ Closed(w, p) \/ RepliedAtClose(w) \/ BadReply(w)
  PROVE  NoNewCause
<1> USE DEF StateOK, ThreadsOK
<1>1. w \in Threads \ Uploaders /\ w # Hmi
  BY KindsApart
<1>2. ASSUME NEW q,
             \/ pc' = [pc EXCEPT ![w] = q]
             \/ StartCurl(Uploaders, [pc EXCEPT ![w] = q])
      PROVE  /\ \A u \in Uploaders : pc[u] \in {"ran", "done"} => pc'[u] \in {"ran", "done"}
             /\ pc'[Hmi] = "checked" => pc[Hmi] = "checked"
  <2>1. \/ pc' = [pc EXCEPT ![w] = q]
        \/ \E u \in Uploaders :
             pc[u] = "idle" /\ pc' = [[pc EXCEPT ![w] = q] EXCEPT ![u] = "run"]
    BY <1>2 DEF StartCurl, Idle
  <2>2. QED
    BY <1>1, <2>1, KindsApart
<1>3. ASSUME NEW stage \in Stages, Store(stage), stage # "ORCH_PKG_READY"
      PROVE  /\ g_stat' # "ORCH_PKG_READY"
             /\ \A t \in Threads : Asking(t)' => Upgrading
             /\ \A t \in Threads : core'[t] = "reread" => core[t] = "reread" \/ Reread
  BY <1>3 DEF Store, Asking, StageOf, Unread, Upgrading
<1>4. ASSUME NEW stage \in Stages, CoreState(w, stage), api[w] \in {"tdr_run", "tdr_stat"}
      PROVE  /\ g_stat' = "ORCH_PKG_READY" => Upgrading
             /\ \A t \in Threads : Asking(t)' => Upgrading
             /\ \A t \in Threads : core'[t] = "reread" => core[t] = "reread" \/ Reread
  <2>1. Upgrading
    BY <1>4 DEF Upgrading, TdrActive
  <2>2. stage # "reread"
    BY DEF Stages
  <2>3. QED
    BY <1>1, <1>4, <2>1, <2>2, StoreNoNewCause
<1>5. CASE Connected(w, p)
  <2>1. /\ pc' = [pc EXCEPT ![w] = p]
        /\ UNCHANGED <<hmi, starts, api>>
    BY <1>5 DEF Connected, dataVars
  <2>2. \/ \E stage \in Stages \ {"ORCH_PKG_READY"} : Store(stage)
        \/ api[w] = "tdr_run" /\ CoreState(w, "ORCH_TDR_RUN")
    BY <1>5 DEF Connected, Stages
  <2>3. "ORCH_TDR_RUN" \in Stages
    BY DEF Stages
  <2>4. /\ g_stat' = "ORCH_PKG_READY" => Upgrading
        /\ \A t \in Threads : Asking(t)' => Upgrading
        /\ \A t \in Threads : core'[t] = "reread" => core[t] = "reread" \/ Reread
    BY <1>3, <1>4, <2>2, <2>3
  <2>5. QED
    BY <1>2, <2>1, <2>4 DEF NoNewCause, TdrActive, Upgrading
<1>6. ASSUME NEW q, NEW c,
             Replied(w, q, c) \/ StillDownloading(w, q, c)
      PROVE  NoNewCause
  <2>1. UNCHANGED <<hmi, starts, api>>
    BY <1>6 DEF Replied, StillDownloading, dataVars
  <2>2. \/ pc' = [pc EXCEPT ![w] = q]
        \/ StartCurl(Uploaders, [pc EXCEPT ![w] = q])
    BY <1>6 DEF Replied, StillDownloading, PkgNewReply
  <2>3. \/ \E stage \in Stages \ {"ORCH_PKG_READY"} : Store(stage)
        \/ Store(g_stat)
        \/ \E stage \in Stages : CoreState(w, stage) /\ api[w] = "tdr_stat"
    <3>1. CASE StillDownloading(w, q, c)
      BY <3>1 DEF StillDownloading, Stages
    <3>2. CASE PkgNewReply(w, [pc EXCEPT ![w] = q])
      BY <3>2 DEF PkgNewReply, Stages
    <3>3. CASE api[w] = "tdr_stat" /\ TdrStatReply(w)
      BY <3>3 DEF TdrStatReply, Stages
    <3>4. QED
      BY <1>6, <3>1, <3>2, <3>3 DEF Replied
  <2>4. CASE Store(g_stat)
    BY <1>2, <1>6, <2>1, <2>2, <2>4 DEF NoNewCause, TdrActive, Upgrading, Store,
                                          Asking, StageOf
  <2>5. CASE ~Store(g_stat)
    <3>1. /\ g_stat' = "ORCH_PKG_READY" => Upgrading
          /\ \A t \in Threads : Asking(t)' => Upgrading
          /\ \A t \in Threads : core'[t] = "reread" => core[t] = "reread" \/ Reread
      BY <1>3, <1>4, <2>3, <2>5
    <3>2. QED
      BY <1>2, <1>6, <2>1, <2>2, <3>1 DEF NoNewCause, TdrActive, Upgrading
  <2>6. QED
    BY <2>4, <2>5
<1>7. CASE Crash
  BY <1>7 DEF Crash, NoNewCause, TdrActive, Upgrading, Asking, StageOf, dataVars, workVars
<1>8. CASE PeerCloses(w, p) \/ (Closed(w, p) /\ ~Crash)
  <2>1. /\ pc' = [pc EXCEPT ![w] = p]
        /\ UNCHANGED <<g_stat, core, hmi, starts, api>>
    BY <1>8 DEF PeerCloses, Closed, dataVars
  <2>2. QED
    BY <1>2, <2>1 DEF NoNewCause, TdrActive, Upgrading, Asking, StageOf
<1>9. CASE RepliedAtClose(w)
  BY <1>6, <1>9 DEF RepliedAtClose
<1>10. QED
  BY <1>5, <1>6, <1>7, <1>8, <1>9 DEF Event, BadReply, MayCrash

\* A step of a worker.
LEMMA WorkerNoNewCause ==
  ASSUME StateOK, Unread, NEW w \in Workers, WorkerStep(w)
  PROVE  NoNewCause
<1> USE DEF StateOK, ThreadsOK
<1>1. CASE Event(w, "ran") \/ Event(w, "close") \/ Closed(w, "close")
             \/ RepliedAtClose(w) \/ BadReply(w)
  <2>1. CASE pc[w] # "idle"
    BY <1>1, <2>1, EventNoNewCause
  <2>2. CASE pc[w] = "idle"
    BY <2>2 DEF WorkerStep, EnterPoll, LeaveLoop, Poll, Polling, Reset, LastPoll,
                FreeClose, Finish
  <2>3. QED
    BY <2>1, <2>2
<1>2. CASE EnterPoll(w) \/ LeaveLoop(w) \/ Reset(w) \/ Finish(w)
             \/ (LastPoll(w) /\ ~Event(w, "close"))
  <2>1. /\ \E p \in {"poll", "reset", "free", "close", "idle"} : pc' = [pc EXCEPT ![w] = p]
        /\ UNCHANGED <<g_stat, core, hmi, starts>>
        /\ api' = api \/ api' = [api EXCEPT ![w] = "none"]
    BY <1>2 DEF EnterPoll, LeaveLoop, Reset, Finish, LastPoll, dataVars, workVars
  <2>2. TdrActive' => TdrActive
    BY <2>1 DEF TdrActive
  <2>3. /\ \A u \in Uploaders : pc'[u] = pc[u]
        /\ pc'[Hmi] = pc[Hmi]
    BY <2>1, KindsApart
  <2>4. QED
    BY <2>1, <2>2, <2>3 DEF NoNewCause, Upgrading, Asking, StageOf
<1>3. QED
  BY <1>1, <1>2 DEF WorkerStep, Poll, LastPoll, FreeClose

\* A step of main(): a manifest moves towards its download only.
LEMMA MainNoNewCause ==
  ASSUME StateOK, Unread, MainStep
  PROVE  NoNewCause
<1>1. /\ \A u \in Uploaders : pc'[u] = pc[u]
      /\ pc'[Hmi] = pc[Hmi]
  BY KindsApart DEF MainStep, MainCheck, DmcAccept, Manifest, StateOK, ThreadsOK
<1>2. UNCHANGED <<hmi, api, starts>>
  BY DEF MainStep, MainCheck, DmcAccept, Manifest, dataVars, workVars
<1>3. TdrActive' => Upgrading
  BY <1>2 DEF TdrActive, Upgrading
<1>4. CASE UNCHANGED <<g_stat, core>>
  BY <1>1, <1>2, <1>3, <1>4 DEF NoNewCause, Upgrading, Asking, StageOf
<1>5. CASE CoreState(Main, "DLC_PKG_NEW")
  BY <1>1, <1>2, <1>3, <1>5, StoreNoNewCause, KindsApart DEF NoNewCause
<1>6. QED
  BY <1>4, <1>5 DEF MainStep, MainCheck, DmcAccept, Manifest

\* A step of a downloader, or an uploader whose popen fails.
LEMMA CurlNoNewCause ==
  ASSUME StateOK, Unread, NEW t \in Setters,
         PopenFails(t) \/ (t \in Downloaders /\ Downloaded(t))
  PROVE  NoNewCause
<1>1. t \in Threads /\ t # Hmi
  BY KindsApart DEF Setters
<1>2. UNCHANGED <<hmi, api, starts>>
  BY DEF PopenFails, Downloaded, Crash, dataVars, workVars
<1>3. TdrActive' => Upgrading
  BY <1>2 DEF TdrActive, Upgrading
<1>4. /\ pc[t] = "run"
      /\ pc' = pc \/ pc' = [pc EXCEPT ![t] = "done"] \/ pc' = [pc EXCEPT ![t] = "ran"]
  BY DEF PopenFails, Downloaded, Crash
<1>5. /\ \A u \in Uploaders : pc[u] \in {"ran", "done"} => pc'[u] \in {"ran", "done"}
      /\ pc'[Hmi] = pc[Hmi]
  BY <1>1, <1>4, KindsApart DEF StateOK, ThreadsOK
<1>6. CASE UNCHANGED <<g_stat, core>>
  BY <1>2, <1>3, <1>5, <1>6 DEF NoNewCause, Upgrading, Asking, StageOf
<1>7. CASE CoreState(t, "DLC_PKG_READY")
  BY <1>1, <1>2, <1>3, <1>5, <1>7, StoreNoNewCause DEF NoNewCause
<1>8. QED
  BY <1>6, <1>7 DEF PopenFails, Downloaded, Store, Crash

\* The end of an upload is what START_UPGRADE waits for.
LEMMA UploadedKeeps ==
  ASSUME StateOK, Unread, UpgradeInv, NEW u \in Uploaders, Uploaded(u)
  PROVE  UpgradeInv'
<1> USE DEF StateOK, ThreadsOK
<1>1. /\ pc' = [pc EXCEPT ![u] = "ran"]
      /\ g_stat' = "ORCH_PKG_READY"
      /\ UNCHANGED <<hmi, api, starts, core>>
  BY DEF Uploaded, Store, dataVars, workVars
<1>2. PackageUploaded'
  BY <1>1, KindsApart DEF PackageUploaded
<1>3. (TdrActive' <=> TdrActive) /\ pc'[Hmi] = pc[Hmi]
  BY <1>1, KindsApart DEF TdrActive
<1>4. Started => Started'
  BY <1>1, <1>2 DEF Started
<1>5. \A t \in Threads : (Asking(t)' => Asking(t)) /\ core'[t] = core[t]
  BY <1>1 DEF Asking, StageOf, Unread
<1>6. QED
  BY <1>2, <1>3, <1>4, <1>5 DEF UpgradeInv

\* START_UPGRADE is accepted where g_stat says that a package was uploaded, and what
\* it has seen lasts until the upgrade is started.
LEMMA HmiKeeps ==
  ASSUME StateOK, Unread, UpgradeInv, HmiStep
  PROVE  UpgradeInv'
<1> USE DEF StateOK, ThreadsOK
<1>1. CASE HmiConnects
  BY <1>1, NoNewCauseKeeps DEF HmiConnects, NoNewCause, TdrActive, Upgrading,
                                   Asking, StageOf, workVars
<1>2. CASE HmiStarts
  <2>1. /\ hmi /\ PackageUploaded
        /\ pc' = [pc EXCEPT ![Hmi] = "checked"]
        /\ UNCHANGED <<g_stat, core, hmi, api>>
    BY <1>2 DEF HmiStarts, UpgradeInv, workVars
  <2>2. PackageUploaded'
    BY <2>1, KindsApart DEF PackageUploaded
  <2>3. starts' > 0
    BY <1>2, DlcServerAssumption DEF HmiStarts, DataOK
  <2>4. \A t \in Threads : (Asking(t)' <=> Asking(t)) /\ core'[t] = core[t]
    BY <2>1 DEF Asking, StageOf
  <2>5. QED
    BY <2>1, <2>2, <2>3, <2>4 DEF UpgradeInv, Started
<1>3. CASE HmiUpgrades
  <2>1. /\ pc[Hmi] = "checked" /\ pc' = [pc EXCEPT ![Hmi] = "ran"]
        /\ CoreState(Hmi, "ORCH_PKG_READY")
        /\ UNCHANGED <<hmi, starts, api>>
    BY <1>3 DEF HmiUpgrades, dataVars, workVars
  <2>2. Upgrading
    BY <2>1 DEF Upgrading
  <2>3. /\ \A u \in Uploaders : pc'[u] = pc[u]
        /\ pc'[Hmi] # "checked"
    BY <2>1, KindsApart
  <2>4. \A t \in Threads : core'[t] = "reread" => core[t] = "reread" \/ Reread
    BY <2>1, <2>2, StoreNoNewCause, KindsApart
  <2>5. NoNewCause
    BY <2>1, <2>2, <2>3, <2>4 DEF NoNewCause
  <2>6. QED
    BY <2>5, NoNewCauseKeeps
<1>4. QED
  BY <1>1, <1>2, <1>3 DEF HmiStep

\* A wait, a lock or an unlock, and the last store of a call.
LEMMA LockNoNewCause ==
  ASSUME StateOK, NEW t \in Threads, LockStep(t) \/ LateStore(t)
  PROVE  NoNewCause
<1> USE DEF StateOK, ThreadsOK
<1>1. CASE LockStep(t)
  <2>1. /\ pc' = pc \/ ReleaseLock(t)
        /\ UNCHANGED <<g_stat, core, hmi, starts, api>>
    BY <1>1 DEF LockStep, Wait, TakeLock, ReleaseLock, dataVars, workVars
  <2>2. \A u \in Uploaders : pc[u] \in {"ran", "done"} => pc'[u] \in {"ran", "done"}
    BY <2>1, KindsApart DEF ReleaseLock, Setters
  <2>3. pc'[Hmi] = "checked" => pc[Hmi] = "checked"
    BY <2>1, KindsApart DEF ReleaseLock
  <2>4. QED
    BY <2>1, <2>2, <2>3 DEF NoNewCause, TdrActive, Upgrading, Asking, StageOf
<1>2. CASE LateStore(t)
  <2>1. /\ UNCHANGED <<pc, hmi, starts, api>>
        /\ g_stat' = "DLC_PKG_DOWNLOADING"
        /\ core' = [core EXCEPT ![t] = "out"]
    BY <1>2 DEF LateStore, dataVars, workVars
  <2>2. \A v \in Threads : core'[v] \in {core[v], "out"}
    BY <2>1 DEF DataOK
  <2>3. QED
    BY <2>1, <2>2 DEF NoNewCause, TdrActive, Upgrading, Asking, StageOf
<1>3. QED
  BY <1>1, <1>2

\* Every step keeps the invariant unless a call reads back what another has stored.
LEMMA UpgradeInvKept ==
  ASSUME StateOK, Unread, UpgradeInv, [Next]_vars
  PROVE  UpgradeInv'
<1>1. ASSUME NEW t \in Threads, Step(t)
      PROVE  UpgradeInv'
  <2>1. CASE MainStep
    BY <2>1, MainNoNewCause, NoNewCauseKeeps
  <2>2. CASE LockStep(t) \/ LateStore(t)
    BY <2>2, LockNoNewCause, NoNewCauseKeeps
  <2>3. CASE t \in Setters /\ CurlStep(t)
    BY <2>3, CurlNoNewCause, NoNewCauseKeeps, UploadedKeeps DEF CurlStep
  <2>4. CASE HmiStep
    BY <2>4, HmiKeeps
  <2>5. CASE t \in Workers /\ WorkerStep(t)
    BY <2>5, WorkerNoNewCause, NoNewCauseKeeps
  <2>6. CASE Switch(t)
    BY <2>6, SwitchNoNewCause, NoNewCauseKeeps
  <2>7. QED
    BY <1>1, <2>1, <2>2, <2>3, <2>4, <2>5, <2>6 DEF Step, Outside
<1>2. CASE UNCHANGED vars
  BY <1>2 DEF vars, dataVars, workVars, UpgradeInv, TdrActive, Started, PackageUploaded,
              Asking, StageOf
<1>3. QED
  BY <1>1, <1>2 DEF Next

\* UpgradeInv, of every state of the optimised build.
LEMMA UpgradeInvAlways ==
  ASSUME Reread = FALSE
  PROVE  Spec => []UpgradeInv
<1>1. Init => UpgradeInv /\ StateOK
  <2>1. Init => UpgradeInv
    BY KindsApart DEF Init, UpgradeInv, TdrActive, Asking, StageOf
  <2>2. QED
    BY <2>1, InitOK
<1>2. StateOK /\ UpgradeInv /\ [Next]_vars => StateOK' /\ UpgradeInv'
  <2>1. UpgradeInv => Unread
    BY DEF UpgradeInv, Unread
  <2>2. QED
    BY <2>1, StepOK, UpgradeInvKept
<1>3. QED
  BY <1>1, <1>2, PTL DEF Spec

\* "HMI will triger orchestrator to do upgrading" (dlc_server.c:888): in the optimised
\* build no request to upgrade is there without a START_UPGRADE, however manifests,
\* downloads, uploads and replies interleave.
THEOREM HmiTriggersUpgrades ==
  ASSUME Reread = FALSE
  PROVE  Spec => []HmiTriggers
<1>1. UpgradeInv => HmiTriggers
  BY DEF UpgradeInv, HmiTriggers, Live, TdrActive, Started
<1>2. QED
  BY <1>1, UpgradeInvAlways, PTL

\* In the optimised build the orchestrator is told to upgrade, and polled about it,
\* only after an upload has ended, however several upgrades interleave: the check of
\* g_stat in hmi_payload_parser is made before the lock, and what it relies on
\* cannot be undone.
THEOREM UpgradesAreUploaded ==
  ASSUME Reread = FALSE
  PROVE  Spec => []UpgradeNeedsUpload
<1>1. UpgradeInv => UpgradeNeedsUpload
  BY DEF UpgradeInv, UpgradeNeedsUpload, Live, TdrActive, Started, PackageUploaded
<1>2. QED
  BY <1>1, UpgradeInvAlways, PTL

\* Whenever cgw_handler_tdr_stat of the optimised build may send progress to
\* g_ctx.hmi, an HMI has connected, although nothing there looks at that.
THEOREM UpgradesHaveHmi ==
  ASSUME Reread = FALSE
  PROVE  Spec => []HmiKnown
<1>1. UpgradeInv => HmiKnown
  BY DEF UpgradeInv, HmiKnown, Live, TdrActive, Started
<1>2. QED
  BY <1>1, UpgradeInvAlways, PTL

-----------------------------------------------------------------------------
(* START_UPGRADEs and requests to upgrade, counted                         *)

\* The request for an upgrade that the last START_UPGRADE is still to make.
Owed == pc[Hmi] = "checked" \/ core[Hmi] = "ORCH_PKG_READY"

\* UpgradesAsAsked with the request that is owed, and that nobody but the HMI thread
\* calls core_state_handler(ORCH_PKG_READY).
CountInv ==
  /\ upgrades \in Nat
  /\ upgrades + (IF Owed THEN 1 ELSE 0) <= starts
  /\ core[Hmi] # "out" => pc[Hmi] # "checked"
  /\ \A t \in Threads : core[t] # "reread" /\ (core[t] = "ORCH_PKG_READY" => t = Hmi)

\* A step that has nothing to do with START_UPGRADE: a call of core_state_handler that is
\* made in it is made by another thread than the HMI's, with another stage.
UnaskedCore ==
  /\ core'[Hmi] \in {core[Hmi], "out"}
  /\ \A t \in Threads : core'[t] = core[t] \/ core'[t] \notin {"reread", "ORCH_PKG_READY"}

Unasked ==
  /\ UNCHANGED starts
  /\ UnaskedCore
  /\ pc'[Hmi] \in {pc[Hmi], "loop"}
  /\ \A w \in Workers : api'[w] \in {api[w], "none"}

LEMMA UnaskedKeeps ==
  ASSUME StateOK, CountInv, Unasked,
         upgrades' = IF UpgradeAsked THEN upgrades + 1 ELSE upgrades
  PROVE  CountInv'
<1>1. ~UpgradeAsked
  BY DEF Unasked, UpgradeAsked
<1>2. upgrades' = upgrades /\ (Owed' => Owed)
  BY <1>1 DEF Unasked, UnaskedCore, Owed
<1>3. starts \in Nat
  BY DlcServerAssumption DEF StateOK, DataOK
<1>4. upgrades' + (IF Owed' THEN 1 ELSE 0) <= starts'
  BY <1>2, <1>3 DEF CountInv, Unasked
<1>5. core'[Hmi] # "out" => pc'[Hmi] # "checked"
  BY DEF CountInv, Unasked, UnaskedCore
<1>6. \A t \in Threads : core'[t] # "reread" /\ (core'[t] = "ORCH_PKG_READY" => t = Hmi)
  BY DEF CountInv, Unasked, UnaskedCore
<1> QED
  BY <1>2, <1>4, <1>5, <1>6 DEF CountInv

\* In the optimised build a call by another thread, with a stage that is not the HMI's.
LEMMA CallUnasked ==
  ASSUME StateOK, Reread = FALSE, NEW t \in Threads \ {Hmi}, NEW stage,
         stage \notin {"reread", "ORCH_PKG_READY"}, CoreState(t, stage) \/ Store(stage)
  PROVE  UnaskedCore
BY KindsApart DEF CoreState, Store, StateOK, DataOK, UnaskedCore

\* A step of a worker.
LEMMA WorkerUnasked ==
  ASSUME StateOK, Reread = FALSE, NEW w \in Workers, WorkerStep(w)
  PROVE  Unasked
<1> USE DEF StateOK, ThreadsOK
<1>1. w \in Threads \ {Hmi}
  BY KindsApart
<1>2. ASSUME NEW q, pc' = [pc EXCEPT ![w] = q] \/ StartCurl(Uploaders, [pc EXCEPT ![w] = q])
      PROVE  pc'[Hmi] = pc[Hmi]
  <2>1. \/ pc' = [pc EXCEPT ![w] = q]
        \/ \E u \in Uploaders : pc' = [[pc EXCEPT ![w] = q] EXCEPT ![u] = "run"]
    BY <1>2 DEF StartCurl, Idle
  <2> QED
    BY <1>1, <2>1, KindsApart
<1>3. ASSUME UNCHANGED core \/ \E stage \in Stages \ {"ORCH_PKG_READY"} : CoreState(w, stage)
      PROVE  UnaskedCore
  <2>1. "reread" \notin Stages
    BY DEF Stages
  <2>2. CASE UNCHANGED core
    BY <2>2 DEF UnaskedCore
  <2> QED
    BY <1>1, <1>3, <2>1, <2>2, CallUnasked
<1>4. CASE UNCHANGED <<starts, core, api>> /\ \E q : pc' = [pc EXCEPT ![w] = q]
  BY <1>2, <1>3, <1>4 DEF Unasked
<1>5. CASE Crash
  BY <1>5 DEF Crash, Unasked, UnaskedCore, dataVars, workVars
<1>6. ASSUME NEW q, NEW c, Replied(w, q, c) \/ StillDownloading(w, q, c)
      PROVE  Unasked
  <2>1. UNCHANGED <<starts, api>>
    BY <1>6 DEF Replied, StillDownloading, dataVars
  <2>2. pc'[Hmi] = pc[Hmi]
    BY <1>2, <1>6 DEF Replied, StillDownloading, PkgNewReply
  <2>3. UNCHANGED core \/ \E stage \in Stages \ {"ORCH_PKG_READY"} : CoreState(w, stage)
    BY <1>6 DEF Replied, StillDownloading, PkgNewReply, TdrStatReply, Store, Stages
  <2> QED
    BY <1>3, <2>1, <2>2, <2>3 DEF Unasked
<1>7. ASSUME NEW q, Connected(w, q)
      PROVE  Unasked
  <2>1. UNCHANGED <<starts, api>> /\ pc' = [pc EXCEPT ![w] = q]
    BY <1>7 DEF Connected, dataVars
  <2>2. UNCHANGED core \/ \E stage \in Stages \ {"ORCH_PKG_READY"} : CoreState(w, stage)
    BY <1>7 DEF Connected, Store, Stages
  <2> QED
    BY <1>2, <1>3, <2>1, <2>2 DEF Unasked
<1>8. ASSUME NEW q, PeerCloses(w, q) \/ Closed(w, q)
      PROVE  Unasked
  BY <1>4, <1>5, <1>8 DEF PeerCloses, Closed, dataVars
<1>9. ASSUME NEW q, Event(w, q) \/ RepliedAtClose(w) \/ BadReply(w)
      PROVE  Unasked
  BY <1>5, <1>6, <1>7, <1>8, <1>9 DEF Event, RepliedAtClose, BadReply, MayCrash
<1>10. CASE Finish(w)
  <2>1. UNCHANGED <<starts, core>> /\ pc' = [pc EXCEPT ![w] = "idle"]
    BY <1>10 DEF Finish, dataVars
  <2>2. \A v \in Workers : api'[v] \in {api[v], "none"}
    BY <1>10 DEF Finish
  <2> QED
    BY <1>2, <1>3, <2>1, <2>2 DEF Unasked
<1>11. CASE EnterPoll(w) \/ LeaveLoop(w) \/ Reset(w) \/ (LastPoll(w) /\ ~Event(w, "close"))
  BY <1>4, <1>11 DEF EnterPoll, LeaveLoop, Reset, LastPoll, dataVars, workVars
<1> QED
  BY <1>8, <1>9, <1>10, <1>11 DEF WorkerStep, Poll, LastPoll, FreeClose

\* Steps of the other threads, a wait, a lock or an unlock, and the last store of a call.
LEMMA OthersUnasked ==
  ASSUME StateOK, Reread = FALSE, NEW t \in Threads,
         MainStep \/ (t \in Setters /\ CurlStep(t)) \/ LockStep(t) \/ LateStore(t)
  PROVE  Unasked
<1> USE DEF StateOK, ThreadsOK
<1>1. Main \in Threads \ {Hmi} /\ \A s \in Setters : s \in Threads \ {Hmi}
  BY KindsApart DEF Setters
<1>2. CASE MainStep
  <2>1. UNCHANGED <<starts, api>>
    BY <1>2 DEF MainStep, MainCheck, DmcAccept, Manifest, dataVars, workVars
  <2>2. UNCHANGED pc \/ pc' = [pc EXCEPT ![Main] = "ran"]
    BY <1>2 DEF MainStep, MainCheck, DmcAccept, Manifest
  <2>3. UNCHANGED core \/ CoreState(Main, "DLC_PKG_NEW")
    BY <1>2 DEF MainStep, MainCheck, DmcAccept, Manifest
  <2> QED
    <3>1. UnaskedCore
      <4>1. CASE UNCHANGED core
        BY <4>1 DEF UnaskedCore
      <4>2. CASE CoreState(Main, "DLC_PKG_NEW")
        BY <1>1, <4>2, CallUnasked
      <4> QED
        BY <2>3, <4>1, <4>2
    <3>2. pc'[Hmi] = pc[Hmi]
      <4>1. Main # Hmi /\ Hmi \in Threads
        BY <1>1, KindsApart
      <4>2. CASE UNCHANGED pc
        BY <4>2
      <4> QED
        BY <2>2, <4>1, <4>2
    <3> QED
      BY <2>1, <3>1, <3>2 DEF Unasked, UnaskedCore
<1>3. CASE t \in Setters /\ CurlStep(t)
  <2>1. UNCHANGED <<starts, api>>
    BY <1>3 DEF CurlStep, PopenFails, Downloaded, Uploaded, Crash, dataVars, workVars
  <2>2. UNCHANGED pc \/ \E q : pc' = [pc EXCEPT ![t] = q]
    BY <1>3 DEF CurlStep, PopenFails, Downloaded, Uploaded, Crash
  <2>3. UNCHANGED core \/ CoreState(t, "DLC_PKG_READY")
    BY <1>3 DEF CurlStep, PopenFails, Downloaded, Uploaded, Crash, Store
  <2> QED
    <3>1. UnaskedCore
      <4>1. CASE UNCHANGED core
        BY <4>1 DEF UnaskedCore
      <4>2. CASE CoreState(t, "DLC_PKG_READY")
        BY <1>1, <1>3, <4>2, CallUnasked
      <4> QED
        BY <2>3, <4>1, <4>2
    <3>2. pc'[Hmi] = pc[Hmi]
      <4>1. t # Hmi /\ Hmi \in Threads
        BY <1>1, <1>3, KindsApart
      <4>2. CASE UNCHANGED pc
        BY <4>2
      <4> QED
        BY <2>2, <4>1, <4>2
    <3> QED
      BY <2>1, <3>1, <3>2 DEF Unasked, UnaskedCore
<1>4. CASE LockStep(t)
  <2>1. UNCHANGED <<starts, api, core>>
    BY <1>4 DEF LockStep, Wait, TakeLock, ReleaseLock, dataVars, workVars
  <2>2. UNCHANGED pc \/ pc' = [pc EXCEPT ![t] = IF t \in Setters THEN "done" ELSE "loop"]
    BY <1>4 DEF LockStep, Wait, TakeLock, ReleaseLock
  <2>3. Hmi \notin Setters /\ Hmi \in Threads
    BY KindsApart, DlcServerAssumption DEF Waiters
  <2> QED
    BY <2>1, <2>2, <2>3 DEF Unasked, UnaskedCore
<1>5. CASE LateStore(t)
  <2>1. UNCHANGED <<starts, api, pc>> /\ core' = [core EXCEPT ![t] = "out"]
    BY <1>5 DEF LateStore, dataVars, workVars
  <2> QED
    BY <2>1, KindsApart DEF Unasked, UnaskedCore, DataOK
<1> QED
  BY <1>2, <1>3, <1>4, <1>5

\* The HMI thread, which accepts a START_UPGRADE and makes the request known.
LEMMA HmiCounts ==
  ASSUME StateOK, CountInv, Reread = FALSE, core[Hmi] = "out", HmiStep,
         upgrades' = IF UpgradeAsked THEN upgrades + 1 ELSE upgrades
  PROVE  CountInv'
<1> USE DEF StateOK, ThreadsOK
<1>1. UNCHANGED api
  BY DEF HmiStep, HmiConnects, HmiStarts, HmiUpgrades, workVars
<1>2. upgrades' = upgrades /\ upgrades \in Nat
  BY <1>1 DEF UpgradeAsked, CountInv
<1>3. starts \in Nat /\ Hmi \in Threads
  BY KindsApart, DlcServerAssumption DEF DataOK
<1>4. CASE HmiConnects
  BY <1>4, UnaskedKeeps DEF HmiConnects, Unasked, UnaskedCore, workVars
<1>5. CASE HmiStarts
  <2>1. /\ pc[Hmi] = "loop" /\ pc' = [pc EXCEPT ![Hmi] = "checked"]
        /\ starts' = starts + 1 /\ UNCHANGED core
    BY <1>5 DEF HmiStarts
  <2>2. ~Owed /\ Owed'
    BY <1>3, <2>1 DEF Owed
  <2>3. upgrades' + 1 <= starts'
    BY <1>2, <1>3, <2>1, <2>2 DEF CountInv
  <2> QED
    BY <1>2, <2>1, <2>2, <2>3 DEF CountInv
<1>6. CASE HmiUpgrades
  <2>1. /\ pc[Hmi] = "checked" /\ pc' = [pc EXCEPT ![Hmi] = "ran"] /\ UNCHANGED starts
        /\ core' = [core EXCEPT ![Hmi] = "ORCH_PKG_READY"]
    BY <1>6 DEF HmiUpgrades, CoreState, dataVars
  <2>2. /\ pc'[Hmi] = "ran" /\ core'[Hmi] = "ORCH_PKG_READY"
        /\ \A t \in Threads : t # Hmi => core'[t] = core[t]
    BY <1>3, <2>1 DEF DataOK
  <2>3. Owed /\ Owed'
    BY <2>1, <2>2 DEF Owed
  <2> QED
    BY <1>2, <2>1, <2>2, <2>3 DEF CountInv
<1> QED
  BY <1>4, <1>5, <1>6 DEF HmiStep

\* The switch of a call: a request to upgrade is started by the HMI thread only, and it
\* is the one that is owed.
LEMMA SwitchCounts ==
  ASSUME StateOK, CountInv, NEW t \in Threads, Switch(t),
         upgrades' = IF UpgradeAsked THEN upgrades + 1 ELSE upgrades
  PROVE  CountInv'
<1> USE DEF StateOK, ThreadsOK
<1>1. UNCHANGED starts /\ core[t] # "out"
  BY SwitchStarts DEF dataVars
<1>2. PICK c \in {"late", "out"} : core' = [core EXCEPT ![t] = c]
  BY SwitchStarts
<1>3. \A v \in Threads : core'[v] = IF v = t THEN c ELSE core[v]
  BY <1>2 DEF DataOK
<1>4. pc'[Hmi] = pc[Hmi]
  BY SwitchStarts, KindsApart
<1>5. UpgradeAsked => core[t] = "ORCH_PKG_READY"
  <2>1. StageOf(t) = core[t]
    BY DEF StageOf, CountInv
  <2>2. UpgradeAsked => RequestOf(StageOf(t)) = "tdr_run"
    <3>1. CASE UNCHANGED api
      BY <3>1 DEF UpgradeAsked
    <3>2. ASSUME NEW n \in Workers, api' = [api EXCEPT ![n] = RequestOf(StageOf(t))]
          PROVE  UpgradeAsked => RequestOf(StageOf(t)) = "tdr_run"
      <4> DEFINE a == RequestOf(StageOf(t))
      <4>1. api' = [api EXCEPT ![n] = a]
        BY <3>2
      <4> HIDE DEF a
      <4>2. UpgradeAsked => a = "tdr_run"
        BY <4>1 DEF UpgradeAsked
      <4> QED
        BY <4>2 DEF a
    <3> QED
      BY <3>1, <3>2, SwitchStarts
  <2>3. RequestOf(StageOf(t)) = "tdr_run" => StageOf(t) = "ORCH_PKG_READY"
    BY DEF RequestOf
  <2> QED
    BY <2>1, <2>2, <2>3
<1>6. UpgradeAsked => t = Hmi /\ Owed /\ ~Owed'
  BY <1>3, <1>4, <1>5 DEF CountInv, Owed
<1>7. Owed' => Owed
  BY <1>3, <1>4, KindsApart DEF Owed
<1>8. upgrades' \in Nat /\ upgrades' + (IF Owed' THEN 1 ELSE 0) <= starts'
  <2>1. upgrades \in Nat /\ starts \in Nat
    BY DlcServerAssumption DEF CountInv, DataOK
  <2> QED
    BY <1>1, <1>6, <1>7, <2>1 DEF CountInv
<1>9. core'[Hmi] # "out" => pc'[Hmi] # "checked"
  <2>1. core'[Hmi] # "out" => core[Hmi] # "out"
    BY <1>1, <1>3, KindsApart
  <2> QED
    BY <1>4, <2>1 DEF CountInv
<1> QED
  BY <1>3, <1>8, <1>9 DEF CountInv

\* A START_UPGRADE that finds a package ready (line 527) makes one request for an upgrade
\* at most, in the optimised build: however manifests, replies and other START_UPGRADEs
\* overlap with it, and whatever threads are to be had.
THEOREM UpgradesCounted ==
  ASSUME Reread = FALSE
  PROVE  USpec => []UpgradesAsAsked
<1>1. UInit => StateOK /\ CountInv
  <2>1. UInit => StateOK
    BY InitOK DEF UInit, MCInit
  <2>2. UInit => CountInv
    BY KindsApart DEF UInit, MCInit, Init, CountInv, Owed
  <2> QED
    BY <2>1, <2>2
<1>2. StateOK /\ CountInv /\ [UNext]_<<vars, manifests, upgrades>> => StateOK' /\ CountInv'
  <2> SUFFICES ASSUME StateOK, CountInv, [UNext]_<<vars, manifests, upgrades>>
               PROVE  StateOK' /\ CountInv'
    OBVIOUS
  <2>1. [Next]_vars
    BY DEF UNext, MCNext
  <2>2. StateOK'
    BY <2>1, StepOK
  <2>3. CASE /\ UNCHANGED vars
             /\ upgrades' \in {upgrades, IF UpgradeAsked THEN upgrades + 1 ELSE upgrades}
    <3>1. ~UpgradeAsked
      BY <2>3 DEF vars, workVars, UpgradeAsked
    <3> QED
      BY <2>2, <2>3, <3>1 DEF vars, dataVars, CountInv, Owed
  <2>4. ASSUME NEW t \in Threads, Step(t),
               upgrades' = IF UpgradeAsked THEN upgrades + 1 ELSE upgrades
        PROVE  CountInv'
    <3>1. CASE Switch(t)
      BY <2>4, <3>1, SwitchCounts
    <3>2. CASE MainStep \/ (t \in Setters /\ CurlStep(t)) \/ LockStep(t) \/ LateStore(t)
      BY <2>4, <3>2, OthersUnasked, UnaskedKeeps
    <3>3. CASE t \in Workers /\ WorkerStep(t)
      BY <2>4, <3>3, WorkerUnasked, UnaskedKeeps
    <3>4. CASE core[t] = "out" /\ t = Hmi /\ HmiStep
      BY <2>4, <3>4, HmiCounts
    <3> QED
      BY <2>4, <3>1, <3>2, <3>3, <3>4 DEF Step, Outside
  <2> QED
    BY <2>2, <2>3, <2>4 DEF UNext, MCNext, Next
<1>3. StateOK /\ CountInv => UpgradesAsAsked
  <2> SUFFICES ASSUME StateOK, CountInv PROVE UpgradesAsAsked
    OBVIOUS
  <2>1. upgrades \in Nat /\ starts \in Nat
    BY DlcServerAssumption DEF CountInv, StateOK, DataOK
  <2> QED
    BY <2>1 DEF CountInv, UpgradesAsAsked
<1> QED
  BY <1>1, <1>2, <1>3, PTL DEF USpec

-----------------------------------------------------------------------------
(* One manifest and one START_UPGRADE, in both builds                      *)

\* The requests that an upgrade waits for: their connection, or their reply.  The
\* reply to tdr_run is not looked at.
Asked(w) ==
  /\ api[w] \in {"pkg_new", "tdr_run", "tdr_stat"}
  /\ \/ conn[w] = "connecting"
     \/ conn[w] \in {"open", "eof"} /\ api[w] # "tdr_run"

Calling(t) == core[t] \notin {"out", "late"}

\* The stages that core_state_handler is called with: only the manifest's call starts
\* a download.  The one stored by LateStore is what such a call may read back.
CallFits(t) ==
  /\ StageOf(t) \in {"DLC_PKG_NEW", "DLC_PKG_DOWNLOADING", "DLC_PKG_READY",
                     "ORCH_PKG_READY", "ORCH_TDR_RUN", "ORCH_TDR_FAIL", "ORCH_TDR_SUCC"}
  /\ StageOf(t) = "DLC_PKG_NEW" => t = Main
  /\ Rank(g_stat) <= Rank(StageOf(t))

\* How far the upgrade may have come before the request gets what it waits for.
RequestFits(w) ==
  /\ api[w] = "pkg_new" => Rank(g_stat) <= (IF conn[w] = "connecting" THEN 2 ELSE 3)
  /\ api[w] = "tdr_run" => Rank(g_stat) <= 4
  /\ api[w] = "tdr_stat" => Rank(g_stat) <= 5

Kinds == {"manifest", "call", "curl", "request", "ready", "start"}

\* Nothing but k, of thread t, can take the upgrade further, and where it does, the
\* stage it stores is not behind g_stat.
Turn(k, t) ==
  /\ manifests = 0 => k = "manifest" /\ g_stat = "IDLE"
  /\ \A v \in Threads : Calling(v) => k = "call" /\ v = t /\ CallFits(v)
  /\ \A d \in Downloaders : pc[d] = "run" => k = "curl" /\ d = t /\ Rank(g_stat) <= 1
  /\ \A u \in Uploaders : pc[u] = "run" => k = "curl" /\ u = t /\ Rank(g_stat) <= 3
  /\ \A w \in Workers : Asked(w) => k = "request" /\ w = t /\ RequestFits(w)
  /\ starts = 0 /\ g_stat = "ORCH_PKG_READY" => k = "ready"
  /\ pc[Hmi] = "checked" => k = "start" /\ Rank(g_stat) <= 4 /\ starts > 0

\* One manifest and one START_UPGRADE make one chain of threads, each started by the
\* one before it; the package status is never asked for.
OneChain ==
  /\ \E k \in Kinds, t \in Threads : Turn(k, t)
  /\ \A w \in Workers : api[w] # "pkg_stat"
  /\ \A t \in Threads : core[t] = "late" => t = Main
  /\ manifests = 0 => core[Main] # "late"

ChainInv ==
  /\ manifests \in 0..2
  /\ manifests <= 1 /\ starts <= 1 => OneChain

Forward == core[Main] # "late" => Rank(g_stat') >= Rank(g_stat)

Onward == OneChain' /\ Forward /\ Unread

\* The stages, by how far the upgrade has come.
LEMMA Ranks ==
  /\ Rank("IDLE") = 0 /\ Rank("DLC_PKG_NEW") = 1 /\ Rank("DLC_PKG_DOWNLOADING") = 1
  /\ Rank("DLC_PKG_READY") = 2 /\ Rank("ORCH_PKG_DOWNLOADING") = 3
  /\ Rank("ORCH_PKG_READY") = 4 /\ Rank("ORCH_TDR_RUN") = 5
  /\ Rank("ORCH_CON_ERR") = 6 /\ Rank("ORCH_TDR_FAIL") = 6 /\ Rank("ORCH_TDR_SUCC") = 6
  /\ \A stage \in Stages : Rank(stage) \in 0..6
  BY DEF Rank

\* A step that stores no stage, starts nothing and answers nothing.
Quiet ==
  /\ UNCHANGED <<g_stat, core, manifests, starts>>
  /\ \A s \in Setters : pc'[s] = "run" => pc[s] = "run"
  /\ pc'[Hmi] = "checked" => pc[Hmi] = "checked"
  /\ \A w \in Workers :
       /\ Asked(w)' => Asked(w) /\ api'[w] = api[w]
                         /\ (conn'[w] = "connecting" <=> conn[w] = "connecting")
       /\ api'[w] = "pkg_stat" => api[w] = "pkg_stat"

\* Such a step keeps the turn.
LEMMA QuietOnward ==
  ASSUME StateOK, OneChain, Quiet
  PROVE  Onward
<1>1. PICK k \in Kinds, t \in Threads : Turn(k, t)
  BY DEF OneChain
<1>2. \A v \in Threads : Calling(v)' => Calling(v) /\ (CallFits(v) => CallFits(v)')
  BY DEF Quiet, Calling, CallFits, StageOf
<1>3. \A w \in Workers : Asked(w)' => Asked(w) /\ (RequestFits(w) => RequestFits(w)')
  BY DEF Quiet, RequestFits
<1>4. \A w \in Downloaders \cup Uploaders : pc'[w] = "run" => pc[w] = "run"
  BY DEF Quiet, Setters
<1>5. Turn(k, t)'
  BY <1>1, <1>2, <1>3, <1>4 DEF Turn, Quiet
<1>6. Forward
  BY Ranks DEF Forward, Quiet, StateOK, DataOK
<1>7. QED
  BY <1>5, <1>6 DEF Onward, OneChain, Quiet, Unread

\* A store of the stage and the call that follows it.
LEMMA CallStores ==
  ASSUME StateOK, NEW t \in Threads, NEW stage \in Stages, CoreState(t, stage)
  PROVE  /\ g_stat' = stage /\ StageOf(t)' = stage
         /\ core'[t] \notin {"out", "late"}
         /\ \A v \in Threads \ {t} : core'[v] = core[v]
<1>1. /\ g_stat' = stage
      /\ \A v \in Threads :
           core'[v] = IF v = t THEN (IF Reread THEN "reread" ELSE stage) ELSE core[v]
  BY DEF CoreState, StateOK, DataOK
<1>2. stage \notin {"out", "late", "reread"}
  BY DEF Stages
<1>3. QED
  BY <1>1, <1>2 DEF StageOf

\* The turn of a call that was just made, where nothing else is left to act.
LEMMA CallTurn ==
  ASSUME StateOK, NEW t \in Threads, NEW stage \in Stages, CoreState(t, stage),
         stage \in {"DLC_PKG_NEW", "DLC_PKG_READY", "ORCH_PKG_READY", "ORCH_TDR_RUN",
                    "ORCH_TDR_FAIL", "ORCH_TDR_SUCC"},
         stage = "DLC_PKG_NEW" => t = Main,
         \A v \in Threads \ {t} : ~Calling(v),
         \A s \in Setters : pc'[s] # "run",
         \A w \in Workers : ~Asked(w)',
         pc'[Hmi] # "checked",
         manifests' # 0,
         ~(starts' = 0 /\ stage = "ORCH_PKG_READY")
  PROVE  Turn("call", t)'
<1>1. /\ g_stat' = stage /\ StageOf(t)' = stage
      /\ \A v \in Threads \ {t} : core'[v] = core[v]
  BY CallStores
<1>2. \A v \in Threads : Calling(v)' => v = t
  BY <1>1 DEF Calling
<1>3. CallFits(t)'
  BY <1>1, Ranks DEF CallFits
<1>4. QED
  BY <1>1, <1>2, <1>3 DEF Turn, Setters

\* The first manifest: everything before it is idle.
LEMMA ManifestOnward ==
  ASSUME StateOK, OneChain, NEW dev, Manifest(dev), manifests = 0, manifests' = 1
  PROVE  Onward
<1>1. PICK k \in Kinds, t \in Threads : Turn(k, t)
  BY DEF OneChain
<1>2. k = "manifest" /\ g_stat = "IDLE"
  BY <1>1 DEF Turn
<1>3. /\ CoreState(Main, "DLC_PKG_NEW")
      /\ pc' = [pc EXCEPT ![Main] = "ran"]
      /\ UNCHANGED <<starts, api, conn>>
  BY DEF Manifest, workVars
<1>4. "DLC_PKG_NEW" \in Stages /\ Main \in Threads
  BY KindsApart DEF Stages
<1>5. /\ \A v \in Threads : ~Calling(v)
      /\ \A s \in Setters : pc[s] # "run"
      /\ \A w \in Workers : ~Asked(w)
      /\ pc[Hmi] # "checked"
  BY <1>1, <1>2 DEF Turn, Setters
<1>6. /\ \A s \in Setters : pc'[s] # "run"
      /\ pc'[Hmi] # "checked"
  BY <1>3, <1>5, KindsApart DEF StateOK, ThreadsOK
<1>7. \A w \in Workers : ~Asked(w)'
  BY <1>3, <1>5 DEF Asked
<1>8. Turn("call", Main)'
  BY <1>3, <1>4, <1>5, <1>6, <1>7, CallTurn
<1>9. /\ g_stat' = "DLC_PKG_NEW"
      /\ \A v \in Threads : core'[v] = "late" => v = Main
  BY <1>3, <1>4, CallStores DEF OneChain
<1>10. QED
  BY <1>2, <1>3, <1>4, <1>5, <1>8, <1>9, Ranks DEF Onward, OneChain, Forward, Kinds,
                                                  Unread, Calling

\* The end of a download, after which the orchestrator is told of the package.
LEMMA DownloadedOnward ==
  ASSUME StateOK, OneChain, NEW d \in Downloaders, Downloaded(d), manifests' = manifests
  PROVE  Onward
<1>1. PICK k \in Kinds, t \in Threads : Turn(k, t)
  BY DEF OneChain
<1>2. /\ pc[d] = "run" /\ pc' = [pc EXCEPT ![d] = "ran"]
      /\ UNCHANGED <<starts, api, conn>>
  BY DEF Downloaded, dataVars, workVars
<1>3. d \in Threads /\ d \in Setters /\ d \notin Workers /\ d # Hmi
  BY KindsApart DEF Setters
<1>4. /\ \A s \in Setters : pc'[s] = "run" => pc[s] = "run" /\ s # d
      /\ pc'[Hmi] = pc[Hmi]
  BY <1>2, <1>3, KindsApart DEF StateOK, ThreadsOK
<1>5. CASE Store(g_stat)
  <2>1. Quiet
    BY <1>2, <1>4, <1>5 DEF Quiet, Store, Asked
  <2>2. QED
    BY <2>1, QuietOnward
<1>6. CASE CoreState(d, "DLC_PKG_READY")
  <2>1. k = "curl" /\ d = t /\ Rank(g_stat) <= 1
    BY <1>1, <1>2 DEF Turn
  <2>2. /\ \A v \in Threads : ~Calling(v)
        /\ \A s \in Setters : pc'[s] # "run"
        /\ \A w \in Workers : ~Asked(w)
        /\ pc'[Hmi] # "checked"
        /\ manifests # 0
    BY <1>1, <1>4, <2>1 DEF Turn, Setters
  <2>3. \A w \in Workers : ~Asked(w)'
    BY <1>2, <2>2 DEF Asked
  <2>4. "DLC_PKG_READY" \in Stages
    BY DEF Stages
  <2>5. Turn("call", d)'
    BY <1>3, <1>6, <2>2, <2>3, <2>4, CallTurn
  <2>6. /\ g_stat' = "DLC_PKG_READY"
        /\ \A v \in Threads : core'[v] = "late" => core[v] = "late"
    BY <1>3, <1>6, <2>4, CallStores
  <2>7. Forward
    BY <2>1, <2>6, Ranks DEF Forward, StateOK, DataOK
  <2>8. QED
    BY <1>2, <1>3, <2>2, <2>5, <2>6, <2>7 DEF Onward, OneChain, Kinds, Unread, Calling
<1>7. QED
  BY <1>5, <1>6 DEF Downloaded

\* The end of an upload, after which it is the HMI's turn.
LEMMA UploadedOnward ==
  ASSUME StateOK, OneChain, NEW u \in Uploaders, Uploaded(u), manifests' = manifests
  PROVE  Onward
<1>1. PICK k \in Kinds, t \in Threads : Turn(k, t)
  BY DEF OneChain
<1>2. /\ pc[u] = "run" /\ pc' = [pc EXCEPT ![u] = "ran"]
      /\ g_stat' = "ORCH_PKG_READY"
      /\ UNCHANGED <<starts, api, conn, core>>
  BY DEF Uploaded, Store, dataVars, workVars
<1>3. u \in Setters /\ u # Hmi /\ Hmi \in Threads
  BY KindsApart DEF Setters
<1>4. k = "curl" /\ u = t /\ Rank(g_stat) <= 3
  BY <1>1, <1>2 DEF Turn
<1>5. /\ \A s \in Setters : pc'[s] = "run" => pc[s] = "run" /\ s # u
      /\ pc'[Hmi] = pc[Hmi]
  BY <1>2, <1>3, KindsApart DEF StateOK, ThreadsOK
<1>6. /\ \A v \in Threads : ~Calling(v)
      /\ \A s \in Setters : pc'[s] # "run"
      /\ \A w \in Workers : ~Asked(w)
      /\ pc'[Hmi] # "checked"
      /\ manifests # 0
  BY <1>1, <1>4, <1>5 DEF Turn, Setters
<1>7. /\ \A v \in Threads : ~Calling(v)'
      /\ \A w \in Workers : ~Asked(w)'
  BY <1>2, <1>6 DEF Calling, Asked
<1>8. Turn("ready", Hmi)'
  BY <1>6, <1>7 DEF Turn, Setters
<1>9. Forward
  BY <1>2, <1>4, Ranks DEF Forward, StateOK, DataOK
<1>10. QED
  BY <1>2, <1>3, <1>6, <1>8, <1>9 DEF Onward, OneChain, Kinds, Unread, Calling

\* START_UPGRADE, where a package is ready and none came before it.
LEMMA HmiStartsOnward ==
  ASSUME StateOK, OneChain, HmiStarts, starts' <= 1, manifests' = manifests
  PROVE  Onward
<1>1. PICK k \in Kinds, t \in Threads : Turn(k, t)
  BY DEF OneChain
<1>2. /\ g_stat = "ORCH_PKG_READY"
      /\ starts = 0 /\ starts' = 1
      /\ pc' = [pc EXCEPT ![Hmi] = "checked"]
      /\ UNCHANGED <<g_stat, core, api, conn>>
  BY DlcServerAssumption DEF HmiStarts, workVars, StateOK, DataOK
<1>3. k = "ready"
  BY <1>1, <1>2 DEF Turn
<1>4. \A s \in Setters : pc'[s] = pc[s]
  BY <1>2, KindsApart DEF StateOK, ThreadsOK, Setters
<1>5. /\ \A v \in Threads : ~Calling(v)
      /\ \A s \in Setters : pc'[s] # "run"
      /\ \A w \in Workers : ~Asked(w)
      /\ manifests # 0
  BY <1>1, <1>3, <1>4 DEF Turn, Setters
<1>6. /\ \A v \in Threads : ~Calling(v)'
      /\ \A w \in Workers : ~Asked(w)'
  BY <1>2, <1>5 DEF Calling, Asked
<1>7. Turn("start", Hmi)'
  BY <1>2, <1>5, <1>6, Ranks DEF Turn, Setters
<1>8. Forward
  BY <1>2, Ranks DEF Forward
<1>9. QED
  BY <1>2, <1>5, <1>7, <1>8, KindsApart DEF Onward, OneChain, Kinds, Unread

\* core_state_handler(ORCH_PKG_READY), while nothing else can have moved g_stat on.
LEMMA HmiUpgradesOnward ==
  ASSUME StateOK, OneChain, HmiUpgrades, manifests' = manifests
  PROVE  Onward
<1>1. PICK k \in Kinds, t \in Threads : Turn(k, t)
  BY DEF OneChain
<1>2. /\ pc[Hmi] = "checked" /\ pc' = [pc EXCEPT ![Hmi] = "ran"]
      /\ CoreState(Hmi, "ORCH_PKG_READY")
      /\ UNCHANGED <<starts, api, conn>>
  BY DEF HmiUpgrades, dataVars, workVars
<1>3. k = "start" /\ Rank(g_stat) <= 4 /\ starts > 0
  BY <1>1, <1>2 DEF Turn
<1>4. /\ \A s \in Setters : pc'[s] = pc[s]
      /\ pc'[Hmi] # "checked"
  BY <1>2, KindsApart DEF StateOK, ThreadsOK, Setters
<1>5. /\ \A v \in Threads : ~Calling(v)
      /\ \A s \in Setters : pc'[s] # "run"
      /\ \A w \in Workers : ~Asked(w)
      /\ manifests # 0
  BY <1>1, <1>3, <1>4 DEF Turn, Setters
<1>6. \A w \in Workers : ~Asked(w)'
  BY <1>2, <1>5 DEF Asked
<1>7. "ORCH_PKG_READY" \in Stages
  BY DEF Stages
<1>8. starts' # 0
  BY <1>2, <1>3, DlcServerAssumption DEF StateOK, DataOK
<1>9. Turn("call", Hmi)'
  BY <1>2, <1>4, <1>5, <1>6, <1>7, <1>8, CallTurn, KindsApart
<1>10. /\ g_stat' = "ORCH_PKG_READY"
       /\ \A v \in Threads : core'[v] = "late" => core[v] = "late"
  BY <1>2, <1>7, CallStores, KindsApart
<1>11. Forward
  BY <1>3, <1>10, Ranks DEF Forward, StateOK, DataOK
<1>12. QED
  BY <1>2, <1>5, <1>9, <1>10, <1>11, KindsApart DEF Onward, OneChain, Kinds, Unread, Calling

\* The switch of a call: the turn goes to the thread it starts, if there is one.
LEMMA SwitchOnward ==
  ASSUME StateOK, OneChain, NEW t \in Threads, Switch(t), manifests' = manifests
  PROVE  Onward
<1> DEFINE stage == StageOf(t)
<1>1. PICK k \in Kinds, v \in Threads : Turn(k, v)
  BY DEF OneChain
<1>2. /\ UNCHANGED <<g_stat, starts>>
      /\ Calling(t)
      /\ \/ /\ stage = "DLC_PKG_NEW"
            /\ core' = [core EXCEPT ![t] = "late"]
            /\ StartCurl(Downloaders, pc)
            /\ UNCHANGED <<api, conn>>
         \/ /\ core' = [core EXCEPT ![t] = "out"]
            /\ \/ StartRequest(RequestOf(stage)) /\ RequestOf(stage) # "none"
               \/ UNCHANGED <<pc, api, conn>>
  BY DEF Switch, StageOf, dataVars, Calling
<1>3. /\ k = "call" /\ v = t /\ CallFits(t)
      /\ \A x \in Threads : Calling(x) => x = t
      /\ \A s \in Setters : pc[s] # "run"
      /\ \A w \in Workers : ~Asked(w)
      /\ pc[Hmi] # "checked"
      /\ manifests # 0
      /\ ~(starts = 0 /\ g_stat = "ORCH_PKG_READY")
  BY <1>1, <1>2 DEF Turn, Setters
<1>4. \A x \in Threads : ~Calling(x)'
  BY <1>2, <1>3 DEF Calling, StateOK, DataOK
<1>5. \A x \in Threads : core'[x] = "late" => x = Main
  <2>1. \A x \in Threads :
          core'[x] = "late" => core[x] = "late" \/ (x = t /\ stage = "DLC_PKG_NEW")
    BY <1>2 DEF StateOK, DataOK
  <2>2. QED
    BY <1>3, <2>1 DEF OneChain, CallFits
<1>6. Forward
  BY <1>2, Ranks DEF Forward, StateOK, DataOK
<1>7. CASE UNCHANGED <<pc, api, conn>>
  <2>1. \A w \in Workers : ~Asked(w)'
    BY <1>3, <1>7 DEF Asked
  <2>2. Turn(k, v)'
    BY <1>2, <1>3, <1>4, <1>7, <2>1 DEF Turn, Setters
  <2>3. QED
    BY <1>2, <1>3, <1>5, <1>6, <1>7, <2>2 DEF Onward, OneChain, Unread
<1>8. ASSUME stage = "DLC_PKG_NEW", NEW d \in Downloaders,
             pc' = [pc EXCEPT ![d] = "run"], UNCHANGED <<api, conn>>
      PROVE  Onward
  <2>1. /\ \A s \in Setters : pc'[s] = "run" => s = d
        /\ pc'[Hmi] # "checked" /\ d \notin Uploaders /\ d \in Threads
    BY <1>3, <1>8, KindsApart DEF StateOK, ThreadsOK
  <2>2. Rank(g_stat) <= 1
    BY <1>3, <1>8, Ranks DEF CallFits
  <2>3. \A w \in Workers : ~Asked(w)'
    BY <1>3, <1>8 DEF Asked
  <2>4. Turn("curl", d)'
    BY <1>2, <1>3, <1>4, <2>1, <2>2, <2>3 DEF Turn, Setters
  <2>5. QED
    BY <1>2, <1>3, <1>5, <1>6, <1>8, <2>1, <2>4 DEF Onward, OneChain, Kinds, Unread
<1>9. ASSUME NEW n \in Workers, pc' = [pc EXCEPT ![n] = "loop"],
             conn' = [conn EXCEPT ![n] = "connecting"],
             api' = [api EXCEPT ![n] = RequestOf(stage)], RequestOf(stage) # "none"
      PROVE  Onward
  <2>1. /\ \A s \in Setters : pc'[s] = pc[s]
        /\ pc'[Hmi] = pc[Hmi] /\ n \in Threads
    BY <1>9, KindsApart DEF StateOK, ThreadsOK, Setters
  <2>2. \/ stage = "DLC_PKG_READY" /\ RequestOf(stage) = "pkg_new"
        \/ stage = "ORCH_PKG_READY" /\ RequestOf(stage) = "tdr_run"
        \/ stage = "ORCH_TDR_RUN" /\ RequestOf(stage) = "tdr_stat"
    BY <1>3, <1>9 DEF CallFits, RequestOf
  <2>3. \A w \in Workers : api'[w] = (IF w = n THEN RequestOf(stage) ELSE api[w])
                           /\ conn'[w] = (IF w = n THEN "connecting" ELSE conn[w])
    BY <1>9 DEF StateOK, ThreadsOK
  <2>4. RequestFits(n)'
    <3>1. /\ Rank(g_stat') <= Rank(stage)
          /\ api'[n] = RequestOf(stage) /\ conn'[n] = "connecting"
      BY <1>2, <1>3, <2>3 DEF CallFits
    <3>2. QED
      BY <2>2, <3>1, Ranks DEF RequestFits
  <2>5. \A w \in Workers : Asked(w)' => w = n
    BY <1>3, <2>3 DEF Asked
  <2>6. Turn("request", n)'
    BY <1>2, <1>3, <1>4, <2>1, <2>4, <2>5 DEF Turn, Setters
  <2>7. \A w \in Workers : api'[w] # "pkg_stat"
    BY <2>2, <2>3 DEF OneChain
  <2>8. QED
    BY <1>2, <1>3, <1>5, <1>6, <2>1, <2>6, <2>7 DEF Onward, OneChain, Kinds, Unread
<1>10. QED
  <2> HIDE DEF stage
  <2>1. CASE StartCurl(Downloaders, pc) /\ stage = "DLC_PKG_NEW" /\ UNCHANGED <<api, conn>>
    BY <1>7, <1>8, <2>1 DEF StartCurl, Idle
  <2>2. CASE StartRequest(RequestOf(stage)) /\ RequestOf(stage) # "none"
    BY <1>7, <1>9, <2>2 DEF StartRequest, Idle
  <2>3. QED
    BY <1>2, <1>7, <2>1, <2>2

\* The last store of the manifest's call, however far the chain has come meanwhile:
\* what the others know of g_stat is an upper bound.
LEMMA LateOnward ==
  ASSUME StateOK, OneChain, NEW t \in Threads, LateStore(t), manifests' = manifests
  PROVE  Onward
<1>1. PICK k \in Kinds, v \in Threads : Turn(k, v)
  BY DEF OneChain
<1>2. /\ core[t] = "late" /\ core' = [core EXCEPT ![t] = "out"]
      /\ g_stat' = "DLC_PKG_DOWNLOADING"
      /\ UNCHANGED <<starts, pc, api, conn>>
  BY DEF LateStore, dataVars, workVars
<1>3. t = Main /\ manifests # 0
  BY <1>2 DEF OneChain
<1>4. \A x \in Threads : core'[x] = IF x = t THEN "out" ELSE core[x]
  BY <1>2 DEF StateOK, DataOK
<1>5. Rank(g_stat') = 1
  BY <1>2, Ranks
<1>6. ASSUME NEW x \in Threads, Calling(x)'
      PROVE  Calling(x) /\ (CallFits(x) => CallFits(x)')
  <2>1. core'[x] = core[x] /\ Calling(x)
    BY <1>4, <1>6 DEF Calling
  <2>2. CASE core[x] = "reread"
    BY <1>2, <1>5, <2>1, <2>2 DEF CallFits, StageOf
  <2>3. CASE core[x] # "reread"
    BY <1>5, <2>1, <2>3, Ranks DEF CallFits, StageOf
  <2>4. QED
    BY <2>1, <2>2, <2>3
<1>7. \A w \in Workers : (Asked(w)' => Asked(w)) /\ RequestFits(w)'
  BY <1>2, <1>5 DEF Asked, RequestFits
<1>8. Turn(k, v)'
  BY <1>1, <1>2, <1>3, <1>5, <1>6, <1>7 DEF Turn
<1>9. QED
  BY <1>2, <1>3, <1>4, <1>8 DEF Onward, OneChain, Forward, Unread

\* What is known of a worker that waits for the orchestrator.
LEMMA AskedAlone ==
  ASSUME OneChain, NEW w \in Workers, Asked(w)
  PROVE  /\ \A v \in Threads : ~Calling(v)
         /\ \A s \in Setters : pc[s] # "run"
         /\ \A n \in Workers \ {w} : ~Asked(n)
         /\ pc[Hmi] # "checked"
         /\ manifests # 0
         /\ RequestFits(w)
<1>1. PICK k \in Kinds, t \in Threads : Turn(k, t)
  BY DEF OneChain
<1>2. QED
  BY <1>1 DEF Turn, Setters

\* MG_EV_CONNECT: the request goes on, or that to upgrade is followed by the first
\* poll of its progress.
LEMMA ConnectedOnward ==
  ASSUME StateOK, OneChain, NEW w \in Workers, NEW p, Connected(w, p),
         manifests' = manifests
  PROVE  Onward
<1>1. /\ conn[w] = "connecting"
      /\ api[w] \in {"pkg_new", "tdr_run", "tdr_stat"}
      /\ pc' = [pc EXCEPT ![w] = p]
      /\ UNCHANGED <<starts, api>>
  BY DEF Connected, dataVars, OneChain
<1>2. Asked(w)
  BY <1>1 DEF Asked
<1>3. PICK ok \in BOOLEAN :
        /\ conn' = [conn EXCEPT ![w] = IF ok THEN "open" ELSE "closing"]
        /\ \/ api[w] = "pkg_new" /\ Store("ORCH_PKG_DOWNLOADING")
           \/ api[w] = "tdr_run" /\ CoreState(w, "ORCH_TDR_RUN")
           \/ /\ api[w] = "tdr_stat"
              /\ Store(IF ok THEN "ORCH_TDR_RUN" ELSE "ORCH_CON_ERR")
  BY <1>1 DEF Connected
<1>4. w \in Threads /\ w \notin Setters /\ w # Hmi /\ Hmi \in Threads
  BY KindsApart
<1>5. /\ \A s \in Setters : pc'[s] # "run"
      /\ pc'[Hmi] # "checked"
  BY <1>1, <1>2, <1>4, AskedAlone, KindsApart DEF StateOK, ThreadsOK
<1>6. \A n \in Workers :
        conn'[n] = IF n = w THEN (IF ok THEN "open" ELSE "closing") ELSE conn[n]
  BY <1>3 DEF StateOK, ThreadsOK
<1>7. \A n \in Workers \ {w} : ~Asked(n)'
  BY <1>1, <1>2, <1>6, AskedAlone DEF Asked
<1>8. CASE api[w] = "tdr_run" /\ CoreState(w, "ORCH_TDR_RUN")
  <2>1. "ORCH_TDR_RUN" \in Stages
    BY DEF Stages
  <2>2. ~Asked(w)'
    BY <1>1, <1>6, <1>8 DEF Asked
  <2>3. \A n \in Workers : ~Asked(n)'
    BY <1>7, <2>2
  <2>4. Turn("call", w)'
    BY <1>2, <1>4, <1>5, <1>8, <2>1, <2>3, AskedAlone, CallTurn
  <2>5. /\ g_stat' = "ORCH_TDR_RUN"
        /\ \A v \in Threads : core'[v] = "late" => core[v] = "late"
    BY <1>4, <1>8, <2>1, CallStores
  <2>6. Rank(g_stat) <= 4
    BY <1>2, <1>8, AskedAlone DEF RequestFits
  <2>7. Forward
    BY <2>5, <2>6, Ranks DEF Forward, StateOK, DataOK
  <2>8. QED
    BY <1>1, <1>2, <1>4, <2>4, <2>5, <2>7, AskedAlone DEF Onward, OneChain, Kinds,
                                                       Unread, Calling
<1>9. CASE api[w] # "tdr_run"
  <2>1. /\ core' = core
        /\ \/ api[w] = "pkg_new" /\ g_stat' = "ORCH_PKG_DOWNLOADING"
           \/ /\ api[w] = "tdr_stat"
              /\ g_stat' = IF ok THEN "ORCH_TDR_RUN" ELSE "ORCH_CON_ERR"
    BY <1>3, <1>9 DEF Store
  <2>2. \A v \in Threads : ~Calling(v)'
    BY <1>2, <2>1, AskedAlone DEF Calling
  <2>3. Asked(w)' => ok
    BY <1>6 DEF Asked
  <2>4. ok => RequestFits(w)'
    BY <1>1, <1>6, <2>1, Ranks DEF RequestFits
  <2>5. Turn("request", w)'
    BY <1>2, <1>5, <1>7, <2>1, <2>2, <2>3, <2>4, AskedAlone DEF Turn, Setters
  <2>6. Forward
    <3>1. \/ api[w] = "pkg_new" /\ Rank(g_stat) <= 2
          \/ api[w] = "tdr_stat" /\ Rank(g_stat) <= 5
      BY <1>1, <1>2, <1>9, AskedAlone DEF RequestFits
    <3>2. QED
      BY <2>1, <3>1, Ranks DEF Forward, StateOK, DataOK
  <2>7. QED
    BY <1>1, <1>2, <1>4, <2>1, <2>5, <2>6, AskedAlone DEF Onward, OneChain, Kinds,
                                                       Unread, Calling
<1>10. QED
  BY <1>3, <1>8, <1>9

\* A reply: that to pkg_new ends a VDCM's upgrade or leads to the upload, that to a poll
\* leads to the next poll, or ends the upgrade.
LEMMA RepliedOnward ==
  ASSUME StateOK, OneChain, NEW w \in Workers, conn[w] \in {"open", "eof"},
         NEW p, NEW c \in {"closing", "replied"}, Replied(w, p, c), manifests' = manifests
  PROVE  Onward
<1> DEFINE pcs == [pc EXCEPT ![w] = p]
<1>1. /\ \/ api[w] = "pkg_new" /\ PkgNewReply(w, pcs)
         \/ api[w] = "tdr_stat" /\ TdrStatReply(w) /\ pc' = pcs
      /\ conn' = [conn EXCEPT ![w] = c]
      /\ UNCHANGED <<starts, api>>
  BY DEF Replied, OneChain
<1>2. Asked(w)
  BY <1>1 DEF Asked
<1>3. w \in Threads /\ w \notin Setters /\ w # Hmi /\ Hmi \in Threads /\ Hmi \notin Uploaders
  BY KindsApart
<1>4. /\ \A s \in Setters : pcs[s] # "run"
      /\ pcs[Hmi] # "checked"
  BY <1>2, <1>3, AskedAlone, KindsApart DEF StateOK, ThreadsOK
<1>5. \A n \in Workers : conn'[n] = IF n = w THEN c ELSE conn[n]
  BY <1>1 DEF StateOK, ThreadsOK
<1>6. \A n \in Workers : ~Asked(n)'
  <2>1. ~Asked(w)'
    BY <1>5 DEF Asked
  <2>2. \A n \in Workers \ {w} : ~Asked(n)'
    BY <1>1, <1>2, <1>5, AskedAlone DEF Asked
  <2>3. QED
    BY <2>1, <2>2
<1>7. CASE api[w] = "tdr_stat"
  <2>1. /\ pc' = pcs
        /\ \E stage \in {"ORCH_TDR_RUN", "ORCH_TDR_FAIL", "ORCH_TDR_SUCC"} :
             CoreState(w, stage)
    BY <1>1, <1>7 DEF TdrStatReply
  <2>2. PICK stage \in {"ORCH_TDR_RUN", "ORCH_TDR_FAIL", "ORCH_TDR_SUCC"} :
          CoreState(w, stage)
    BY <2>1
  <2>3. stage \in Stages
    BY DEF Stages
  <2>4. Turn("call", w)'
    BY <1>2, <1>3, <1>4, <1>6, <2>1, <2>2, <2>3, AskedAlone, CallTurn
  <2>5. /\ g_stat' = stage
        /\ \A v \in Threads : core'[v] = "late" => core[v] = "late"
    BY <1>3, <2>2, <2>3, CallStores
  <2>6. Rank(g_stat) <= 5
    BY <1>2, <1>7, AskedAlone DEF RequestFits
  <2>7. Forward
    BY <2>2, <2>5, <2>6, Ranks DEF Forward, StateOK, DataOK
  <2>8. QED
    BY <1>1, <1>2, <1>3, <2>4, <2>5, <2>7, AskedAlone DEF Onward, OneChain, Kinds,
                                                       Unread, Calling
<1>8. CASE api[w] = "pkg_new"
  <2>1. /\ core' = core
        /\ \/ g_stat' = "ORCH_TDR_RUN" /\ pc' = pcs
           \/ g_stat' = "ORCH_PKG_DOWNLOADING" /\ StartCurl(Uploaders, pcs)
    BY <1>1, <1>8 DEF PkgNewReply, Store
  <2>2. \A v \in Threads : ~Calling(v)'
    BY <1>2, <2>1, AskedAlone DEF Calling
  <2>3. Forward
    <3>1. Rank(g_stat) <= 3
      BY <1>2, <1>8, AskedAlone DEF RequestFits, StateOK, DataOK, Asked
    <3>2. Rank(g_stat') \in {3, 5}
      BY <2>1, Ranks
    <3>3. QED
      BY <3>1, <3>2, Ranks DEF Forward, StateOK, DataOK
  <2>4. \E t \in Threads : Turn("curl", t)'
    <3>1. CASE pc' = pcs
      BY <1>2, <1>3, <1>4, <1>6, <2>1, <2>2, <3>1, AskedAlone DEF Turn, Setters
    <3>2. ASSUME NEW u \in Uploaders, g_stat' = "ORCH_PKG_DOWNLOADING",
                 pc' = [pcs EXCEPT ![u] = "run"]
          PROVE  Turn("curl", u)'
      <4>1. /\ \A s \in Setters : pc'[s] = "run" => s = u
            /\ pc'[Hmi] # "checked"
        <5>1. \A x \in Threads : x # u => pc'[x] = pcs[x]
          BY <3>2 DEF StateOK, ThreadsOK
        <5>2. QED
          BY <1>3, <1>4, <3>2, <5>1, KindsApart
      <4>2. u \notin Downloaders
        BY DlcServerAssumption
      <4>3. /\ Rank(g_stat') = 3 /\ g_stat' # "ORCH_PKG_READY"
            /\ manifests' # 0
        BY <1>2, <3>2, Ranks, AskedAlone
      <4>4. QED
        BY <1>6, <2>2, <4>1, <4>2, <4>3 DEF Turn, Setters
    <3>3. QED
      BY <1>3, <2>1, <3>1, <3>2, KindsApart DEF StartCurl, Idle
  <2>5. QED
    BY <1>1, <1>2, <2>1, <2>3, <2>4, AskedAlone DEF Onward, OneChain, Kinds,
                                                       Unread, Calling
<1>9. QED
  BY <1>1, <1>7, <1>8

\* What a worker does without the handlers' stores.
LEMMA MoveQuiet ==
  ASSUME StateOK, NEW w \in Workers,
         NEW p \in {"ran", "poll", "reset", "free", "close", "idle"},
         pc' = pc \/ pc' = [pc EXCEPT ![w] = p],
         conn' = conn \/ \E c \in {"eof", "closed", "none"} : conn' = [conn EXCEPT ![w] = c],
         conn'[w] = "eof" => conn[w] \in {"open", "eof"},
         api' = api \/ api' = [api EXCEPT ![w] = "none"],
         UNCHANGED <<g_stat, core, manifests, starts>>
  PROVE  Quiet
<1>1. /\ \A s \in Setters : pc'[s] = pc[s]
      /\ pc'[Hmi] = pc[Hmi]
  BY KindsApart DEF StateOK, ThreadsOK
<1>2. \A n \in Workers \ {w} : api'[n] = api[n] /\ conn'[n] = conn[n]
  BY DEF StateOK, ThreadsOK
<1>3. /\ api'[w] \in {api[w], "none"}
      /\ conn'[w] \in {conn[w], "eof", "closed", "none"}
  BY DEF StateOK, ThreadsOK
<1>4. \A n \in Workers \ {w} :
        Asked(n)' => Asked(n) /\ api'[n] = api[n]
                       /\ (conn'[n] = "connecting" <=> conn[n] = "connecting")
  BY <1>2 DEF Asked
<1>5. Asked(w)' => Asked(w) /\ api'[w] = api[w]
                     /\ (conn'[w] = "connecting" <=> conn[w] = "connecting")
  BY <1>3 DEF Asked
<1>6. \A n \in Workers : api'[n] = "pkg_stat" => api[n] = "pkg_stat"
  BY <1>2, <1>3
<1>7. QED
  BY <1>1, <1>4, <1>5, <1>6 DEF Quiet

\* An event of a worker's connection.
LEMMA EventOnward ==
  ASSUME StateOK, OneChain, NEW w \in Workers, NEW p \in {"ran", "close"},
         \/ Event(w, p) \/ Closed(w, p) \/ BadReply(w)
         \/ conn[w] \in {"open", "eof"} /\ RepliedAtClose(w),
         manifests' = manifests
  PROVE  Onward
<1>1. ASSUME NEW q, NEW c, StillDownloading(w, q, c)
      PROVE  FALSE
  BY <1>1 DEF StillDownloading, OneChain
<1>2. CASE Crash
  <2>1. Quiet
    BY <1>2 DEF Crash, Quiet, Asked, dataVars, workVars
  <2>2. QED
    BY <2>1, QuietOnward
<1>3. CASE PeerCloses(w, p)
  <2>1. Quiet
    <3>1. /\ conn[w] = "open"
          /\ pc' = [pc EXCEPT ![w] = p] /\ conn' = [conn EXCEPT ![w] = "eof"]
          /\ UNCHANGED <<g_stat, core, starts, api>>
      BY <1>3 DEF PeerCloses, dataVars
    <3>2. QED
      BY <3>1, MoveQuiet
  <2>2. QED
    BY <2>1, QuietOnward
<1>4. CASE Closed(w, p) /\ ~Crash
  <2>1. Quiet
    <3>1. /\ pc' = [pc EXCEPT ![w] = p] /\ conn' = [conn EXCEPT ![w] = "closed"]
          /\ UNCHANGED <<g_stat, core, starts, api>>
      BY <1>4 DEF Closed, dataVars
    <3>2. conn'[w] = "closed"
      BY <3>1 DEF StateOK, ThreadsOK
    <3>3. QED
      BY <3>1, <3>2, MoveQuiet
  <2>2. QED
    BY <2>1, QuietOnward
<1>5. CASE RepliedAtClose(w) /\ conn[w] \in {"open", "eof"}
  BY <1>1, <1>5, RepliedOnward DEF RepliedAtClose
<1>6. CASE conn[w] = "open" /\ (Replied(w, p, "closing") \/ StillDownloading(w, p, "open"))
  BY <1>1, <1>6, RepliedOnward
<1>7. CASE Connected(w, p)
  BY <1>7, ConnectedOnward
<1>8. QED
  BY <1>2, <1>3, <1>4, <1>5, <1>6, <1>7 DEF Event, BadReply, MayCrash

\* A step of a worker.
LEMMA WorkerOnward ==
  ASSUME StateOK, OneChain, NEW w \in Workers, WorkerStep(w), manifests' = manifests
  PROVE  Onward
<1>1. CASE \/ Event(w, "ran") \/ Event(w, "close") \/ Closed(w, "close") \/ BadReply(w)
           \/ conn[w] \in {"open", "eof"} /\ RepliedAtClose(w)
  BY <1>1, EventOnward
<1>2. CASE EnterPoll(w) \/ LeaveLoop(w) \/ Reset(w) \/ Finish(w)
             \/ (LastPoll(w) /\ ~Event(w, "close"))
  <2>1. /\ \E p \in {"poll", "reset", "free", "close", "idle"} : pc' = [pc EXCEPT ![w] = p]
        /\ conn' = conn \/ conn' = [conn EXCEPT ![w] = "none"]
        /\ UNCHANGED <<g_stat, core, starts>>
        /\ api' = api \/ api' = [api EXCEPT ![w] = "none"]
    BY <1>2 DEF EnterPoll, LeaveLoop, Reset, Finish, LastPoll, dataVars, workVars
  <2>2. conn'[w] \in {conn[w], "none"}
    BY <2>1 DEF StateOK, ThreadsOK
  <2>3. Quiet
    BY <2>1, <2>2, MoveQuiet
  <2>4. QED
    BY <2>3, QuietOnward
<1>3. QED
  BY <1>1, <1>2 DEF WorkerStep, Poll, LastPoll, FreeClose

\* What t does but for taking a manifest.
NoManifest(t) ==
  \/ LockStep(t) \/ MainCheck \/ DmcAccept \/ HmiStep
  \/ t \in Setters /\ CurlStep(t)
  \/ t \in Workers /\ WorkerStep(t)
  \/ Switch(t) \/ LateStore(t)

\* Everything but a manifest, while there is one manifest and one START_UPGRADE.
LEMMA StepOnward ==
  ASSUME StateOK, OneChain, NEW t \in Threads, NoManifest(t), starts' <= 1,
         manifests' = manifests
  PROVE  Onward
<1>1. CASE MainCheck \/ DmcAccept
  <2>1. Quiet
    <3>1. /\ pc' = pc \/ pc' = [pc EXCEPT ![Main] = "ran"]
          /\ UNCHANGED <<g_stat, core, starts, api, conn>>
      BY <1>1 DEF MainCheck, DmcAccept, dataVars, workVars
    <3>2. \A v \in Setters \cup {Hmi} : pc'[v] \in {pc[v], "ran"}
      BY <3>1, KindsApart DEF StateOK, ThreadsOK
    <3>3. QED
      BY <3>1, <3>2 DEF Quiet, Asked
  <2>2. QED
    BY <2>1, QuietOnward
<1>2. CASE LockStep(t)
  <2>1. Quiet
    <3>1. /\ pc' = pc \/ pc' = [pc EXCEPT ![t] = "done"] \/ pc' = [pc EXCEPT ![t] = "loop"]
          /\ UNCHANGED <<g_stat, core, starts, api, conn>>
      BY <1>2 DEF LockStep, Wait, TakeLock, ReleaseLock, dataVars, workVars
    <3>2. \A v \in Setters \cup {Hmi} : pc'[v] \in {pc[v], "done", "loop"}
      BY <3>1, KindsApart DEF StateOK, ThreadsOK
    <3>3. QED
      BY <3>1, <3>2 DEF Quiet, Asked
  <2>2. QED
    BY <2>1, QuietOnward
<1>3. CASE t \in Setters /\ PopenFails(t)
  <2>1. Quiet
    <3>1. /\ pc' = pc \/ pc' = [pc EXCEPT ![t] = "done"]
          /\ UNCHANGED <<g_stat, core, starts, api, conn>>
      BY <1>3 DEF PopenFails, Crash, dataVars, workVars
    <3>2. \A v \in Setters \cup {Hmi} : pc'[v] \in {pc[v], "done"}
      BY <3>1, KindsApart DEF StateOK, ThreadsOK
    <3>3. QED
      BY <3>1, <3>2 DEF Quiet, Asked
  <2>2. QED
    BY <2>1, QuietOnward
<1>4. CASE HmiConnects
  <2>1. Quiet
    BY <1>4 DEF HmiConnects, Quiet, Asked, workVars
  <2>2. QED
    BY <2>1, QuietOnward
<1>5. CASE \/ t \in Downloaders /\ Downloaded(t)
           \/ t \in Uploaders /\ Uploaded(t)
           \/ HmiStarts \/ HmiUpgrades
           \/ t \in Workers /\ WorkerStep(t)
           \/ Switch(t) \/ LateStore(t)
  BY <1>5, DownloadedOnward, UploadedOnward, HmiStartsOnward, HmiUpgradesOnward,
     WorkerOnward, SwitchOnward, LateOnward
<1>6. QED
  BY <1>1, <1>2, <1>3, <1>4, <1>5 DEF NoManifest, HmiStep, CurlStep

\* Only a manifest begins a call of main().
LEMMA OnlyManifestsBegin ==
  ASSUME StateOK, NEW t \in Threads, NoManifest(t)
  PROVE  /\ core[Main] = "out" => core'[Main] = "out"
         /\ starts <= starts'
<1> USE DEF StateOK, DataOK
<1> DEFINE Goal == (core[Main] = "out" => core'[Main] = "out") /\ starts <= starts'
<1>1. ASSUME NEW v \in Threads \ {Main}, NEW stage, CoreState(v, stage) \/ Store(stage)
      PROVE  core'[Main] = core[Main]
  BY <1>1, KindsApart DEF CoreState, Store
<1>2. starts' = starts => starts <= starts'
  BY DlcServerAssumption
<1>3. CASE Switch(t) \/ LateStore(t)
  <2>1. /\ core[t] # "out"
        /\ \E c \in {"late", "out"} : core' = [core EXCEPT ![t] = c]
        /\ starts' = starts
    BY <1>3, SwitchStarts DEF LateStore, dataVars
  <2>2. QED
    BY <1>2, <2>1, KindsApart
<1>4. CASE LockStep(t) \/ MainCheck \/ DmcAccept
  BY <1>2, <1>4 DEF LockStep, Wait, TakeLock, ReleaseLock, MainCheck, DmcAccept, dataVars
<1>5. CASE t \in Setters /\ CurlStep(t)
  <2>1. t # Main
    BY <1>5, DlcServerAssumption
  <2>2. starts' = starts
    BY <1>5 DEF CurlStep, PopenFails, Crash, Downloaded, Uploaded, dataVars
  <2>3. core' = core \/ \E stage : CoreState(t, stage) \/ Store(stage)
    BY <1>5 DEF CurlStep, PopenFails, Crash, Downloaded, Uploaded
  <2>4. QED
    BY <1>1, <1>2, <2>1, <2>2, <2>3
<1>6. CASE HmiStep
  <2>1. CASE HmiConnects
    BY <1>2, <2>1 DEF HmiConnects
  <2>2. CASE HmiStarts
    BY <2>2, DlcServerAssumption DEF HmiStarts
  <2>3. CASE HmiUpgrades
    BY <1>1, <1>2, <2>3, KindsApart DEF HmiUpgrades, dataVars
  <2>4. QED
    BY <1>6, <2>1, <2>2, <2>3 DEF HmiStep
<1>7. CASE t \in Workers /\ WorkerStep(t)
  <2> DEFINE Stores == \E stage : CoreState(t, stage) \/ Store(stage)
  <2>1. t # Main
    BY <1>7, KindsApart
  <2>2. ASSUME NEW p, NEW c,
               \/ Connected(t, p) \/ Replied(t, p, c) \/ StillDownloading(t, p, c)
               \/ BadReply(t) \/ PeerCloses(t, p) \/ Closed(t, p) \/ MayCrash(t)
        PROVE  (core' = core \/ Stores) /\ starts' = starts
    BY <2>2 DEF Connected, Replied, PkgNewReply, TdrStatReply, StillDownloading, BadReply,
                PeerCloses, Closed, MayCrash, Crash, Store, dataVars
  <2> HIDE DEF Stores
  <2>3. ASSUME NEW p, Event(t, p) \/ RepliedAtClose(t) \/ BadReply(t) \/ Closed(t, p)
        PROVE  (core' = core \/ Stores) /\ starts' = starts
    BY <2>2, <2>3 DEF Event, RepliedAtClose
  <2>4. (core' = core \/ Stores) /\ starts' = starts
    BY <1>7, <2>3 DEF WorkerStep, EnterPoll, LeaveLoop, Poll, Reset, LastPoll, FreeClose,
                      Finish, dataVars
  <2>5. QED
    BY <1>1, <1>2, <2>1, <2>4 DEF Stores
<1>8. QED
  BY <1>3, <1>4, <1>5, <1>6, <1>7 DEF NoManifest

\* One manifest and one START_UPGRADE: the chain goes on, and the stage with it.
LEMMA ChainStep ==
  ASSUME StateOK, StateOK', ChainInv, [MCNext]_<<vars, manifests>>
  PROVE  /\ ChainInv'
         /\ manifests' <= 1 /\ starts' <= 1 =>
              manifests <= 1 /\ starts <= 1 /\ Onward
<1>1. CASE UNCHANGED <<vars, manifests>>
  <2>1. UNCHANGED <<g_stat, core, pc, starts, api, conn, manifests>>
    BY <1>1 DEF vars, dataVars, workVars
  <2>2. manifests <= 1 /\ starts <= 1 => Quiet
    BY <2>1 DEF Quiet, Asked
  <2>3. QED
    BY <2>1, <2>2, QuietOnward DEF ChainInv, Onward, StateOK, DataOK
<1>2. ASSUME MCNext, NEW t \in Threads, Step(t)
      PROVE  /\ ChainInv'
             /\ manifests' <= 1 /\ starts' <= 1 =>
                  manifests <= 1 /\ starts <= 1 /\ Onward
  <2>1. \/ NoManifest(t)
        \/ core[Main] = "out" /\ \E dev \in Devices : Manifest(dev)
    BY <1>2 DEF Step, Outside, MainStep, NoManifest
  <2>2. CASE NoManifest(t)
    <3>1. manifests' = manifests /\ starts <= starts'
      BY <1>2, <2>2, OnlyManifestsBegin DEF MCNext
    <3>2. ASSUME manifests <= 1, starts' <= 1
          PROVE  starts <= 1 /\ Onward
      <4>1. starts <= 1
        BY <3>1, <3>2, DlcServerAssumption DEF StateOK, DataOK
      <4>2. QED
        BY <2>2, <3>1, <3>2, <4>1, StepOnward DEF ChainInv
    <3>3. QED
      BY <3>1, <3>2 DEF ChainInv, Onward
  <2>3. ASSUME core[Main] = "out", NEW dev \in Devices, Manifest(dev)
        PROVE  /\ ChainInv'
               /\ manifests' <= 1 /\ starts' <= 1 =>
                    manifests <= 1 /\ starts <= 1 /\ Onward
    <3>1. core'[Main] # "out" /\ starts' = starts
      <4>1. "DLC_PKG_NEW" \in Stages /\ Main \in Threads
        BY KindsApart DEF Stages
      <4>2. QED
        BY <2>3, <4>1, CallStores DEF Manifest
    <3>2. manifests' = IF manifests < 2 THEN manifests + 1 ELSE manifests
      BY <1>2, <2>3, <3>1 DEF MCNext
    <3>3. CASE manifests = 0 /\ starts <= 1
      <4>1. OneChain /\ manifests' = 1
        BY <3>2, <3>3 DEF ChainInv
      <4>2. QED
        BY <2>3, <3>1, <3>3, <4>1, ManifestOnward DEF ChainInv, Onward
    <3>4. CASE manifests \in 1..2 \/ ~(starts <= 1)
      BY <3>1, <3>2, <3>4 DEF ChainInv
    <3>5. QED
      BY <3>3, <3>4 DEF ChainInv
  <2>4. QED
    BY <2>1, <2>2, <2>3
<1>3. CASE MCNext /\ UNCHANGED vars
  <2>1. manifests' = manifests
    BY <1>3 DEF MCNext, vars
  <2>2. QED
    BY <1>1, <1>3, <2>1
<1>4. QED
  BY <1>1, <1>2, <1>3 DEF MCNext, Next

\* ChainInv, of every state in which the manifests are counted.
LEMMA ChainAlways == MCSpec => []StateOK /\ []ChainInv
<1>1. MCInit => StateOK /\ ChainInv
  <2>1. MCInit => ChainInv
    <3>1. "manifest" \in Kinds /\ Main \in Threads
      BY KindsApart DEF Kinds
    <3>2. MCInit => Turn("manifest", Main)
      BY KindsApart DEF MCInit, Init, Turn, Calling, Asked, Setters, Threads
    <3>3. QED
      BY <3>1, <3>2 DEF MCInit, Init, ChainInv, OneChain
  <2>2. QED
    BY <2>1, InitOK DEF MCInit
<1>2. StateOK /\ ChainInv /\ [MCNext]_<<vars, manifests>> => StateOK' /\ ChainInv'
  BY StepOK, ChainStep DEF MCNext
<1>3. QED
  BY <1>1, <1>2, PTL DEF MCSpec

\* The stage of one manifest and one START_UPGRADE only advances, although every
\* thread stores it without looking at what the others have stored: in both builds,
\* for any number of threads, and whatever the orchestrator replies.
THEOREM StageOnlyAdvances == MCSpec => StageForward
<1>1. StateOK /\ StateOK' /\ ChainInv /\ [MCNext]_<<vars, manifests>>
        => [manifests = 1 /\ manifests' = 1 /\ starts' <= 1 /\ core[Main] # "late"
              => Rank(g_stat') >= Rank(g_stat)]_vars
  BY ChainStep DEF Forward, Onward
<1>2. QED
  BY <1>1, ChainAlways, PTL DEF MCSpec, StageForward

\* In the build that reads g_stat back, too, the upgrade of one manifest and one
\* START_UPGRADE is in order: no request to upgrade comes before START_UPGRADE, before
\* the upload or before an HMI.  With a second manifest it may (the run dlc_race).
THEOREM OneUpgradeInOrder ==
  MCSpec =>
    [](manifests <= 1 /\ starts <= 1 => HmiTriggers /\ UpgradeNeedsUpload /\ HmiKnown)
<1> DEFINE Ordered == manifests <= 1 /\ starts <= 1 => UpgradeInv
<1>1. MCInit => Ordered
  BY KindsApart DEF MCInit, Init, UpgradeInv, TdrActive, Asking, StageOf
<1>2. StateOK /\ StateOK' /\ ChainInv /\ Ordered /\ [MCNext]_<<vars, manifests>> => Ordered'
  <2> SUFFICES ASSUME StateOK, StateOK', ChainInv, Ordered, [MCNext]_<<vars, manifests>>,
                      manifests' <= 1, starts' <= 1
               PROVE  UpgradeInv'
    OBVIOUS
  <2>1. UpgradeInv /\ Unread
    BY ChainStep DEF Onward
  <2>2. [Next]_vars
    BY DEF MCNext
  <2>3. QED
    BY <2>1, <2>2, UpgradeInvKept
<1>3. Ordered =>
        (manifests <= 1 /\ starts <= 1 => HmiTriggers /\ UpgradeNeedsUpload /\ HmiKnown)
  BY DEF UpgradeInv, HmiTriggers, UpgradeNeedsUpload, HmiKnown, Live, TdrActive, Started,
         PackageUploaded
<1> HIDE DEF Ordered
<1>4. QED
  BY <1>1, <1>2, <1>3, ChainAlways, PTL DEF MCSpec

=============================================================================
