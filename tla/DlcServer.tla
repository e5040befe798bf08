----------------------------- MODULE DlcServer ------------------------------
(***************************************************************************)
(* The upgrade state machine of dlc_server.c (g_stat) and the threads that *)
(* move it:                                                                *)
(*  - Main, main()'s loop over the DMC connection, where manifests arrive; *)
(*  - Hmi, the thread of the HMI connection, where START_UPGRADE arrives;  *)
(*  - Downloaders and Uploaders, threads around curl processes;            *)
(*  - Workers, threads of cgw_msg_thread, each with one HTTP request to    *)
(*    the orchestrator (CGW): pkg_new, pkg_stat, tdr_run or tdr_stat.      *)
(*                                                                         *)
(* The threads synchronise by g_stat_lock (module StatLock) and by the     *)
(* exit flag of each api (module CgwThread), and by nothing else.  An      *)
(* event handler is one step up to its call of core_state_handler, which   *)
(* stores g_stat in that step and starts threads in a later one.           *)
(***************************************************************************)
EXTENDS Naturals, FiniteSets

CONSTANTS
  Main, Hmi,             \* threads
  Workers,               \* slots for threads of cgw_msg_thread
  Downloaders,           \* threads of dmc_downloader_thread
  Uploaders,             \* threads of cgw_pkg_upload_thread
  Samples,               \* see StatLock
  MaxStarts,             \* START_UPGRADE messages that find a package ready
  Devices,               \* what manifests are for: a subset of {"WPC", "VDCM"}
  LogInfo,               \* the build prints IDCM_LOG_LEVEL_INFO (the default)
  Reread                 \* the build is not optimised: the switch (g_stat) of
                         \* core_state_handler reads back what may have changed
                         \* since the store (Makefile; not with the NDK's -O2)

Setters == Downloaders \cup Uploaders
Waiters == Workers \cup {Hmi}
Threads == {Main} \cup Waiters \cup Setters

ASSUME DlcServerAssumption ==
  /\ Main \notin Waiters \cup Setters
  /\ Hmi \notin Workers
  /\ Waiters \cap Setters = {}
  /\ Downloaders \cap Uploaders = {}
  /\ Samples \in Nat /\ MaxStarts \in Nat
  /\ Devices \subseteq {"WPC", "VDCM"}
  /\ LogInfo \in BOOLEAN /\ Reread \in BOOLEAN

VARIABLES
  proc,                     \* the process: "up" or "crashed"
  g_stat,                   \* stage of the upgrade
  g_stat_lock, at, waited,  \* see StatLock
  pc,                       \* where each thread is, calls of core_state_handler aside
  core,                     \* where it is in such a call
  dmc, hmi,                 \* is g_ctx.dmc, g_ctx.hmi set?
  dev_id,                   \* g_ctx.cur_manifest.dev_id
  progress,                 \* hmi_upgrade_stat->progress_percent: below 100 or not
  starts,                   \* START_UPGRADE messages accepted
  api, conn,                \* of each worker: its request and connection
  exit,                     \* cgw_thread_exit of each api
  stat_nc                   \* is cgw_api_pkg_stat.nc set?

lockVars == <<g_stat_lock, at, waited>>
workVars == <<api, conn, exit, stat_nc>>
dataVars == <<dmc, hmi, dev_id, progress, starts>>
vars == <<proc, g_stat, lockVars, pc, core, dataVars, workVars>>

Lock == INSTANCE StatLock

Apis == {"pkg_new", "pkg_stat", "tdr_run", "tdr_stat"}

Stages ==
  { "IDLE", "DLC_PKG_NEW", "DLC_PKG_DOWNLOADING", "DLC_PKG_READY",
    "ORCH_CON_ERR", "ORCH_PKG_DOWNLOADING", "ORCH_PKG_READY", "ORCH_PKG_BAD",
    "ORCH_TDR_RUN", "ORCH_TDR_FAIL", "ORCH_TDR_SUCC" }

Init ==
  /\ proc = "up"
  /\ g_stat = "IDLE"
  /\ Lock!Init
  /\ pc = [t \in Threads |-> IF t \in {Main, Hmi} THEN "loop" ELSE "idle"]
  /\ core = [t \in Threads |-> "out"]
  /\ dmc = FALSE /\ hmi = FALSE
  /\ dev_id = "none"
  /\ progress = "below100"
  /\ starts = 0
  /\ api = [w \in Workers |-> "none"]
  /\ conn = [w \in Workers |-> "none"]
  /\ exit = [a \in Apis |-> 0]
  /\ stat_nc = FALSE

Crash ==
  /\ proc' = "crashed"
  /\ UNCHANGED <<g_stat, lockVars, pc, core, dataVars, workVars>>

-----------------------------------------------------------------------------
(* core_state_handler: core[t] is what its switch will look at, a stage or,*)
(* if it reads g_stat again, "reread"; "late" is before its last store.    *)

Store(stage) == g_stat' = stage /\ UNCHANGED core

\* The call by t, up to the store.
CoreState(t, stage) ==
  /\ g_stat' = stage
  /\ core' = [core EXCEPT ![t] = IF Reread THEN "reread" ELSE stage]

\* Mutant: the connected request for an upgrade makes another one.
RequestOfAgain(stage) ==
  CASE stage = "DLC_PKG_READY"  -> "pkg_new"
    [] stage = "ORCH_PKG_DOWNLOADING" /\ ~stat_nc -> "pkg_stat"
    [] stage \in {"ORCH_PKG_READY", "ORCH_TDR_RUN"} -> "tdr_run"
    [] OTHER                    -> "none"

RequestOf(stage) ==
  CASE stage = "DLC_PKG_READY"  -> "pkg_new"
    [] stage = "ORCH_PKG_DOWNLOADING" /\ ~stat_nc -> "pkg_stat"
    [] stage = "ORCH_PKG_READY" -> "tdr_run"
    [] stage = "ORCH_TDR_RUN"   -> "tdr_stat"
    [] OTHER                    -> "none"

\* mg_start_thread does not look whether pthread_create has succeeded: where no
\* thread is left, none is started.
Idle(S) == {t \in S : pc[t] = "idle"}

\* mg_start_thread(cgw_msg_thread, ...), up to mg_connect_http.
StartRequest(a) ==
  \/ \E n \in Idle(Workers) :
       /\ pc' = [pc EXCEPT ![n] = "loop"]
       /\ conn' = [conn EXCEPT ![n] = "connecting"]
       /\ api' = [api EXCEPT ![n] = a]
  \/ Idle(Workers) = {} /\ UNCHANGED <<pc, api, conn>>

\* mg_start_thread of a downloader or an uploader, by a thread that leaves pc as pcs.
StartCurl(S, pcs) ==
  \/ \E t \in Idle(S) : pc' = [pcs EXCEPT ![t] = "run"]
  \/ Idle(S) = {} /\ pc' = pcs

\* switch (g_stat): the downloader or the request of the stage is started.
Switch(t) ==
  LET stage == IF core[t] = "reread" THEN g_stat ELSE core[t] IN
  /\ core[t] \notin {"out", "late"}
  /\ \/ /\ stage = "DLC_PKG_NEW"
        /\ core' = [core EXCEPT ![t] = "late"]
        /\ StartCurl(Downloaders, pc)
        /\ UNCHANGED <<api, conn>>
     \/ /\ stage # "DLC_PKG_NEW"
        /\ core' = [core EXCEPT ![t] = "out"]
        /\ \/ StartRequest(RequestOf(stage)) /\ RequestOf(stage) # "none"
           \/ RequestOf(stage) = "none" /\ UNCHANGED <<pc, api, conn>>
  /\ UNCHANGED <<proc, g_stat, lockVars, dataVars, exit, stat_nc>>

\* case DLC_PKG_NEW stores the stage it leaves when the downloader runs already.
LateStore(t) ==
  /\ core[t] = "late"
  /\ g_stat' = "DLC_PKG_DOWNLOADING"
  /\ core' = [core EXCEPT ![t] = "out"]
  /\ UNCHANGED <<proc, lockVars, pc, dataVars, workVars>>

-----------------------------------------------------------------------------
(* The lock *)

\* Mutant: wait_stat_unlocked has no timeout.
WaitNoTimeout(t) ==
  /\ Lock!WaitSample(t) \/ (Lock!WaitDone(t) /\ g_stat_lock = 0)
  /\ UNCHANGED <<proc, g_stat, pc, core, dataVars, workVars>>

\* A sleep, or the end of the wait, in wait_stat_unlocked.
Wait(t) ==
  /\ Lock!WaitSample(t) \/ Lock!WaitDone(t)
  /\ UNCHANGED <<proc, g_stat, pc, core, dataVars, workVars>>

\* g_stat_lock = 1; a downloader or uploader gets there when its curl is done.
TakeLock(t) ==
  /\ t \in Setters => pc[t] = "run"
  /\ Lock!Take(t)
  /\ UNCHANGED <<proc, g_stat, pc, core, dataVars, workVars>>

\* g_stat_lock = 0, after the work, or after a poll that delivered nothing.
ReleaseLock(t) ==
  /\ \/ pc[t] = "ran"
     \/ t = Main /\ pc[t] = "loop"
     \/ t \in Workers /\ pc[t] = "poll" /\ conn[t] # "replied"
  /\ Lock!Release(t)
  /\ pc' = [pc EXCEPT ![t] = IF t \in Setters THEN "done" ELSE "loop"]
  /\ UNCHANGED <<proc, g_stat, core, dataVars, workVars>>

-----------------------------------------------------------------------------
(* main(): the DMC connection *)

MainCheck ==
  /\ Lock!MainCheck
  /\ UNCHANGED <<proc, g_stat, pc, core, dataVars, workVars>>

MainPolls == pc[Main] = "loop" /\ at[Main] = "in"

\* MG_EV_ACCEPT: the connection is stored and the HMI thread started.
DmcAccept ==
  /\ MainPolls
  /\ ~dmc
  /\ dmc' = TRUE
  /\ pc' = [pc EXCEPT ![Main] = "ran"]
  /\ UNCHANGED <<proc, g_stat, lockVars, core, hmi, dev_id, progress, starts, workVars>>

\* A manifest is kept as far as core_state_handler needs it; the next replaces it.
DmcMsgParse(dev) == dev_id' = dev

\* MG_EV_RECV of a manifest, while there are threads for it in the model.
Manifest(dev) ==
  /\ MainPolls
  /\ dmc
  /\ Idle(Downloaders) # {}
  /\ DmcMsgParse(dev)
  /\ CoreState(Main, "DLC_PKG_NEW")
  /\ pc' = [pc EXCEPT ![Main] = "ran"]
  /\ UNCHANGED <<proc, lockVars, dmc, hmi, progress, starts, workVars>>

-----------------------------------------------------------------------------
(* Downloader and uploader threads *)

\* popen fails: a downloader just ends, an uploader reads from a NULL FILE.
PopenFails(t) ==
  /\ pc[t] = "run" /\ at[t] = "out"
  /\ \/ /\ t \in Downloaders
        /\ pc' = [pc EXCEPT ![t] = "done"]
        /\ UNCHANGED <<proc, g_stat, lockVars, core, dataVars, workVars>>
     \/ t \in Uploaders /\ Crash

\* pclose reports curl's exit status, and only success is passed on.
Downloaded(d) ==
  /\ pc[d] = "run" /\ at[d] = "in"
  /\ pc' = [pc EXCEPT ![d] = "ran"]
  /\ CoreState(d, "DLC_PKG_READY") \/ Store(g_stat)
  /\ UNCHANGED <<proc, lockVars, dataVars, workVars>>

\* Mutant: the wrong one of the two READY stages.
UploadedDlc(u) ==
  /\ pc[u] = "run" /\ at[u] = "in"
  /\ pc' = [pc EXCEPT ![u] = "ran"]
  /\ Store("DLC_PKG_READY")
  /\ UNCHANGED <<proc, lockVars, dataVars, workVars>>

\* Mutant: the uploader starts the upgrade, as the downloader starts what follows it.
UploadedFollows(u) ==
  /\ pc[u] = "run" /\ at[u] = "in"
  /\ pc' = [pc EXCEPT ![u] = "ran"]
  /\ CoreState(u, "ORCH_PKG_READY")
  /\ UNCHANGED <<proc, lockVars, dataVars, workVars>>

\* curl's outcome is not looked at.
Uploaded(u) ==
  /\ pc[u] = "run" /\ at[u] = "in"
  /\ pc' = [pc EXCEPT ![u] = "ran"]
  /\ Store("ORCH_PKG_READY")
  /\ UNCHANGED <<proc, lockVars, dataVars, workVars>>

-----------------------------------------------------------------------------
(* The HMI thread polls without the lock *)

HmiConnects ==
  /\ dmc /\ ~hmi
  /\ hmi' = TRUE
  /\ UNCHANGED <<proc, g_stat, lockVars, pc, core, dmc, dev_id, progress, starts, workVars>>

\* Mutant: START_UPGRADE is accepted at any stage.
HmiStartsAnyStage ==
  /\ pc[Hmi] = "loop" /\ hmi
  /\ starts < MaxStarts
  /\ Lock!BeginWait(Hmi)
  /\ pc' = [pc EXCEPT ![Hmi] = "checked"]
  /\ starts' = starts + 1
  /\ UNCHANGED <<proc, g_stat, core, dmc, hmi, dev_id, progress, workVars>>

\* Mutant: the HMI thread goes on without wait_stat_unlocked and lock().
HmiStartsUnlocked ==
  /\ pc[Hmi] = "loop" /\ hmi
  /\ starts < MaxStarts
  /\ g_stat = "ORCH_PKG_READY"
  /\ at' = [at EXCEPT ![Hmi] = "in"]
  /\ pc' = [pc EXCEPT ![Hmi] = "checked"]
  /\ starts' = starts + 1
  /\ UNCHANGED <<proc, g_stat, g_stat_lock, waited, core, dmc, hmi, dev_id, progress,
                 workVars>>

\* START_UPGRADE with a package ready; otherwise it is ignored.
HmiStarts ==
  /\ pc[Hmi] = "loop" /\ hmi
  /\ starts < MaxStarts
  /\ g_stat = "ORCH_PKG_READY"
  /\ Lock!BeginWait(Hmi)
  /\ pc' = [pc EXCEPT ![Hmi] = "checked"]
  /\ starts' = starts + 1
  /\ UNCHANGED <<proc, g_stat, core, dmc, hmi, dev_id, progress, workVars>>

\* core_state_handler(ORCH_PKG_READY), whatever g_stat has become. The reply
\* that follows the unlock leaves nothing behind.
HmiUpgrades ==
  /\ pc[Hmi] = "checked" /\ at[Hmi] = "in"
  /\ pc' = [pc EXCEPT ![Hmi] = "ran"]
  /\ CoreState(Hmi, "ORCH_PKG_READY")
  /\ UNCHANGED <<proc, lockVars, dataVars, workVars>>

-----------------------------------------------------------------------------
(* Events of a worker's connection, delivered in one poll; p is where it    *)
(* leaves the thread.                                                      *)

\* The log line at the top of cgw_handler_tdr_stat reads ev_data as a reply,
\* whatever the event: what it finds in the poll and connect events is
\* undefined, and ev_data of a close is NULL.
LogReadsEvData(w) == LogInfo /\ api[w] = "tdr_stat"

MayCrash(w) == LogReadsEvData(w) /\ conn[w] # "closed" /\ Crash

\* MG_EV_CONNECT. A connection that failed is closed by mongoose afterwards; the
\* handlers of pkg_new and tdr_run do not look at the error.
Connected(w, p) ==
  /\ conn[w] = "connecting"
  /\ pc' = [pc EXCEPT ![w] = p]
  /\ \E ok \in BOOLEAN :
       /\ conn' = [conn EXCEPT ![w] = IF ok THEN "open" ELSE "closing"]
       /\ exit' = IF ok \/ api[w] \in {"pkg_new", "tdr_run"}
                    THEN exit ELSE [exit EXCEPT ![api[w]] = 1]
       /\ stat_nc' = (stat_nc \/ (ok /\ api[w] = "pkg_stat"))
       /\ \/ api[w] = "pkg_new" /\ Store("ORCH_PKG_DOWNLOADING")
          \/ /\ api[w] = "pkg_stat"
             /\ Store(IF ok THEN "ORCH_PKG_DOWNLOADING" ELSE "ORCH_PKG_BAD")
          \/ api[w] = "tdr_run" /\ CoreState(w, "ORCH_TDR_RUN")
          \/ /\ api[w] = "tdr_stat"
             /\ Store(IF ok THEN "ORCH_TDR_RUN" ELSE "ORCH_CON_ERR")
  /\ UNCHANGED <<proc, lockVars, dataVars, api>>

\* hmi_resp_upgrade_stat_update, by the stage its return value (0, -1, 1) is for: a
\* report without entries, one that begins with an error, one whose entries lead
\* to a progress of 100 (the stored one counts, until an entry is below), and one
\* whose entries stay below, up to its end or to an error.
UpgradeStatUpdate(stage) ==
  \/ stage = "ORCH_TDR_RUN" /\ UNCHANGED progress
  \/ stage = "ORCH_TDR_FAIL" /\ UNCHANGED progress
  \/ stage = "ORCH_TDR_SUCC" /\ progress' = "full"
  \/ stage \in {"ORCH_TDR_RUN", "ORCH_TDR_FAIL"} /\ progress' = "below100"

\* A report that the upgrade runs is passed on to g_ctx.hmi first.
TdrStatReply(w) ==
  \E stage \in {"ORCH_TDR_RUN", "ORCH_TDR_FAIL", "ORCH_TDR_SUCC"} :
    UpgradeStatUpdate(stage) /\ CoreState(w, stage)

\* Mutant: a VDCM's upgrade is followed by core_state_handler(ORCH_TDR_RUN).
PkgNewReplyFollows(w, pcs) ==
  /\ \/ dev_id # "WPC" /\ CoreState(w, "ORCH_TDR_RUN") /\ pc' = pcs
     \/ /\ dev_id = "WPC"
        /\ Store("ORCH_PKG_DOWNLOADING")
        /\ StartCurl(Uploaders, pcs)
  /\ UNCHANGED progress

\* A VDCM's package is the orchestrator's to install; a WPC's is uploaded.
PkgNewReply(w, pcs) ==
  /\ \/ dev_id # "WPC" /\ Store("ORCH_TDR_RUN") /\ pc' = pcs
     \/ /\ dev_id = "WPC"
        /\ Store("ORCH_PKG_DOWNLOADING")
        /\ StartCurl(Uploaders, pcs)
  /\ UNCHANGED progress

\* Mutant: the thread is not told that its request is answered.
RepliedKeepsFlag(w, p, c) ==
  LET pcs == [pc EXCEPT ![w] = p] IN
  /\ \/ api[w] = "pkg_new" /\ PkgNewReply(w, pcs)
     \/ api[w] = "pkg_stat" /\ Store(g_stat) /\ pc' = pcs /\ UNCHANGED progress
     \/ api[w] = "tdr_stat" /\ TdrStatReply(w) /\ pc' = pcs
  /\ conn' = [conn EXCEPT ![w] = c]
  /\ UNCHANGED <<proc, lockVars, dmc, hmi, dev_id, starts, api, exit, stat_nc>>

\* MG_EV_HTTP_REPLY that ends the request: exit is set, the connection marked.
Replied(w, p, c) ==
  LET pcs == [pc EXCEPT ![w] = p] IN
  /\ \/ api[w] = "pkg_new" /\ PkgNewReply(w, pcs)
     \/ api[w] = "pkg_stat" /\ Store(g_stat) /\ pc' = pcs /\ UNCHANGED progress
     \/ api[w] = "tdr_stat" /\ TdrStatReply(w) /\ pc' = pcs
  /\ conn' = [conn EXCEPT ![w] = c]
  /\ exit' = [exit EXCEPT ![api[w]] = 1]
  /\ UNCHANGED <<proc, lockVars, dmc, hmi, dev_id, starts, api, stat_nc>>

\* A pkg_stat reply without "succ": the request goes on.
StillDownloading(w, p, c) ==
  /\ api[w] = "pkg_stat"
  /\ Store("ORCH_PKG_DOWNLOADING")
  /\ pc' = [pc EXCEPT ![w] = p]
  /\ conn' = [conn EXCEPT ![w] = c]
  /\ UNCHANGED <<proc, lockVars, dataVars, api, exit, stat_nc>>

\* A reply that HTTP ends by closing; the close follows in the same poll.
RepliedAtClose(w) ==
  Replied(w, pc[w], "replied") \/ StillDownloading(w, pc[w], "replied")

\* The handlers of tdr_run and tdr_stat walk what they have got without looking
\* whether it parsed, or whether its entries have the names and values expected.
BadReply(w) ==
  /\ api[w] \in {"tdr_run", "tdr_stat"}
  /\ conn[w] \in {"open", "eof"}
  /\ Crash

\* The peer closes; mongoose closes too, in a later poll.
PeerCloses(w, p) ==
  /\ conn[w] = "open"
  /\ pc' = [pc EXCEPT ![w] = p]
  /\ conn' = [conn EXCEPT ![w] = "eof"]
  /\ UNCHANGED <<proc, g_stat, lockVars, core, dataVars, api, exit, stat_nc>>

\* Mutant: MG_EV_CLOSE does not reset handler->nc.
ClosedKeepsNc(w, p) ==
  \/ LogReadsEvData(w) /\ Crash
  \/ /\ ~LogReadsEvData(w)
     /\ pc' = [pc EXCEPT ![w] = p]
     /\ conn' = [conn EXCEPT ![w] = "closed"]
     /\ exit' = [exit EXCEPT ![api[w]] = 1]
     /\ UNCHANGED <<proc, g_stat, lockVars, core, dataVars, api, stat_nc>>

\* MG_EV_CLOSE.
Closed(w, p) ==
  \/ LogReadsEvData(w) /\ Crash
  \/ /\ ~LogReadsEvData(w)
     /\ pc' = [pc EXCEPT ![w] = p]
     /\ conn' = [conn EXCEPT ![w] = "closed"]
     /\ exit' = [exit EXCEPT ![api[w]] = 1]
     /\ stat_nc' = (stat_nc /\ api[w] # "pkg_stat")
     /\ UNCHANGED <<proc, g_stat, lockVars, core, dataVars, api>>

Event(w, p) ==
  \/ Connected(w, p)
  \/ conn[w] = "open" /\ (Replied(w, p, "closing") \/ StillDownloading(w, p, "open"))
  \/ BadReply(w)
  \/ PeerCloses(w, p)
  \/ conn[w] = "eof" /\ RepliedAtClose(w)
  \/ conn[w] \in {"eof", "closing", "replied"} /\ Closed(w, p)
  \/ MayCrash(w)

-----------------------------------------------------------------------------
(* cgw_msg_thread *)

\* while (handler->cgw_thread_exit == 0) wait_stat_unlocked(1000) ...
EnterPoll(w) ==
  /\ pc[w] = "loop" /\ exit[api[w]] = 0
  /\ Lock!BeginWait(w)
  /\ pc' = [pc EXCEPT ![w] = "poll"]
  /\ UNCHANGED <<proc, g_stat, core, dataVars, workVars>>

LeaveLoop(w) ==
  /\ pc[w] = "loop" /\ exit[api[w]] # 0
  /\ pc' = [pc EXCEPT ![w] = "reset"]
  /\ UNCHANGED <<proc, g_stat, lockVars, core, dataVars, workVars>>

Polling(w) == pc[w] = "poll" /\ at[w] = "in"

Poll(w) == Polling(w) /\ Event(w, "ran")

Reset(w) ==
  /\ pc[w] = "reset"
  /\ pc' = [pc EXCEPT ![w] = "free"]
  /\ exit' = [exit EXCEPT ![api[w]] = 0]
  /\ UNCHANGED <<proc, g_stat, lockVars, core, dataVars, api, conn, stat_nc>>

\* mg_mgr_free: a last poll, without the lock; what is connected still is closed.
LastPoll(w) ==
  /\ pc[w] = "free"
  /\ \/ Event(w, "close")
     \/ /\ conn[w] # "replied"
        /\ pc' = [pc EXCEPT ![w] = "close"]
        /\ UNCHANGED <<proc, g_stat, lockVars, core, dataVars, workVars>>

FreeClose(w) ==
  /\ pc[w] = "close" /\ conn[w] # "closed"
  /\ \/ conn[w] \in {"open", "eof"} /\ (RepliedAtClose(w) \/ BadReply(w))
     \/ Closed(w, "close")

\* Mutant: the handler is not released with the thread.
FinishKeepsApi(w) ==
  /\ pc[w] = "close" /\ conn[w] = "closed"
  /\ pc' = [pc EXCEPT ![w] = "idle"]
  /\ conn' = [conn EXCEPT ![w] = "none"]
  /\ UNCHANGED <<proc, g_stat, lockVars, core, dataVars, api, exit, stat_nc>>

\* The thread returns; its slot is free.
Finish(w) ==
  /\ pc[w] = "close" /\ conn[w] = "closed"
  /\ pc' = [pc EXCEPT ![w] = "idle"]
  /\ conn' = [conn EXCEPT ![w] = "none"]
  /\ api' = [api EXCEPT ![w] = "none"]
  /\ UNCHANGED <<proc, g_stat, lockVars, core, dataVars, exit, stat_nc>>

-----------------------------------------------------------------------------
(* The whole server *)

WorkerStep(w) ==
  \/ EnterPoll(w) \/ LeaveLoop(w) \/ Poll(w)
  \/ Reset(w) \/ LastPoll(w) \/ FreeClose(w) \/ Finish(w)

MainStep == MainCheck \/ DmcAccept \/ \E dev \in Devices : Manifest(dev)

LockStep(t) == Wait(t) \/ TakeLock(t) \/ ReleaseLock(t)

CurlStep(t) ==
  \/ PopenFails(t)
  \/ t \in Downloaders /\ Downloaded(t)
  \/ t \in Uploaders /\ Uploaded(t)

HmiStep == HmiConnects \/ HmiStarts \/ HmiUpgrades

\* What t does outside of core_state_handler.
Outside(t) ==
  \/ LockStep(t)
  \/ t = Main /\ MainStep
  \/ t = Hmi /\ HmiStep
  \/ t \in Setters /\ CurlStep(t)
  \/ t \in Workers /\ WorkerStep(t)

Step(t) ==
  \/ core[t] = "out" /\ Outside(t)
  \/ Switch(t)
  \/ LateStore(t)

Next ==
  \/ proc = "up" /\ \E t \in Threads : Step(t)
  \/ proc = "crashed" /\ UNCHANGED vars

Spec == Init /\ [][Next]_vars

\* Threads that have something to do are scheduled; curl ends; connects,
\* closes by the peer and the closes mongoose owes come in the end.
\* Nothing is assumed of the DMC, of the HMI, or of the orchestrator's replies.
Runs(t, A) == proc = "up" /\ core[t] = "out" /\ A

Fairness ==
  /\ WF_vars(Runs(Main, MainCheck)) /\ WF_vars(Runs(Hmi, HmiUpgrades))
  /\ \A t \in Threads :
       /\ WF_vars(Runs(t, LockStep(t)))
       /\ WF_vars(proc = "up" /\ (Switch(t) \/ LateStore(t)))
  /\ \A d \in Downloaders : WF_vars(Runs(d, Downloaded(d)))
  /\ \A u \in Uploaders : WF_vars(Runs(u, Uploaded(u)))
  /\ \A w \in Workers :
       /\ WF_vars(Runs(w, EnterPoll(w) \/ LeaveLoop(w) \/ Reset(w) \/ LastPoll(w)
                          \/ FreeClose(w) \/ Finish(w)))
       /\ SF_vars(Runs(w, Polling(w) /\ Connected(w, "ran")))
       /\ SF_vars(Runs(w, Polling(w) /\ PeerCloses(w, "ran")))
       /\ SF_vars(Runs(w, Polling(w) /\ conn[w] \in {"eof", "closing", "replied"}
                          /\ Closed(w, "ran")))

FairSpec == Spec /\ Fairness

-----------------------------------------------------------------------------
(* Properties *)

PCs == {"idle", "loop", "ran", "run", "done", "checked",
        "poll", "reset", "free", "close"}

Cores == {"out", "reread", "late"} \cup Stages

\* Every variable keeps its type; only StatLock's threads use the lock as it
\* lets them, and a worker slot has a request exactly while it has a thread.
TypeOK ==
  /\ proc \in {"up", "crashed"}
  /\ g_stat \in Stages
  /\ Lock!TypeOK
  /\ pc \in [Threads -> PCs]
  /\ core \in [Threads -> Cores]
  /\ dmc \in BOOLEAN /\ hmi \in BOOLEAN
  /\ dev_id \in Devices \cup {"none"}
  /\ progress \in {"below100", "full"}
  /\ starts \in 0..MaxStarts
  /\ api \in [Workers -> Apis \cup {"none"}]
  /\ conn \in [Workers -> {"none", "connecting", "open", "eof", "closing", "replied",
                         "closed"}]
  /\ exit \in [Apis -> {0, 1}]
  /\ stat_nc \in BOOLEAN
  /\ \A w \in Workers : pc[w] = "idle" <=> api[w] = "none"

\* Every thread of the server uses g_stat_lock as StatLock says, so what holds
\* there holds here; in particular the lock is never left set.
LockProtocol == Lock!Spec

\* The threads of each api and its exit flag behave as CgwThread says, the
\* requests that the handlers start included.
CgwPc(a) ==
  [w \in Workers |->
     IF api[w] = a THEN (IF pc[w] = "ran" THEN "loop" ELSE pc[w]) ELSE "idle"]
CgwConn(a) == [w \in Workers |-> IF api[w] = a THEN conn[w] ELSE "none"]

PkgNew == INSTANCE CgwThread WITH Api <- "pkg_new", Serial <- FALSE,
  exit <- exit["pkg_new"], pc <- CgwPc("pkg_new"), conn <- CgwConn("pkg_new")
PkgStat == INSTANCE CgwThread WITH Api <- "pkg_stat", Serial <- FALSE,
  exit <- exit["pkg_stat"], pc <- CgwPc("pkg_stat"), conn <- CgwConn("pkg_stat")
TdrRun == INSTANCE CgwThread WITH Api <- "tdr_run", Serial <- FALSE,
  exit <- exit["tdr_run"], pc <- CgwPc("tdr_run"), conn <- CgwConn("tdr_run")
TdrStat == INSTANCE CgwThread WITH Api <- "tdr_stat", Serial <- FALSE,
  exit <- exit["tdr_stat"], pc <- CgwPc("tdr_stat"), conn <- CgwConn("tdr_stat")

WorkerProtocol == PkgNew!Spec /\ PkgStat!Spec /\ TdrRun!Spec /\ TdrStat!Spec

Live(a) == {w \in Workers : api[w] = a}

\* core_state_handler polls the package status only if cgw_api_pkg_stat.nc is NULL
\* (line 1155): the pointer never outlives the connections, whichever of several
\* requests set it and whichever closes first.
NcNotStale ==
  stat_nc => \E w \in Live("pkg_stat") : conn[w] \in {"open", "eof", "closing", "replied"}

\* cgw_handler_tdr_stat sends progress to g_ctx.hmi without looking whether an
\* HMI was ever there (line 1065): by the time it polls, one was. So in the
\* optimised build.
HmiKnown == Live("tdr_run") \cup Live("tdr_stat") # {} => hmi

\* The orchestrator is told to upgrade, and polled about it, only after a
\* package was uploaded to it; not for a VDCM, which it upgrades by itself.
\* So in the optimised build.
UpgradeNeedsUpload ==
  Live("tdr_run") \cup Live("tdr_stat") # {} =>
    \E u \in Uploaders : pc[u] \in {"ran", "done"}

\* "HMI will triger orchestrator to do upgrading" (dlc_server.c:888): the request
\* to upgrade follows a START_UPGRADE.
HmiTriggers == Live("tdr_run") # {} => starts > 0

\* How far an upgrade has come.
Rank(stage) ==
  CASE stage = "IDLE" -> 0
    [] stage \in {"DLC_PKG_NEW", "DLC_PKG_DOWNLOADING"} -> 1
    [] stage = "DLC_PKG_READY" -> 2
    [] stage = "ORCH_PKG_DOWNLOADING" -> 3
    [] stage = "ORCH_PKG_READY" -> 4
    [] stage = "ORCH_TDR_RUN" -> 5
    [] OTHER -> 6

\* START_UPGRADE found a package ready: the HMI thread gets the lock, starts
\* the upgrade and goes back to its messages, whoever else uses the lock.
StartServed == pc[Hmi] = "checked" ~> pc[Hmi] = "loop" \/ proc = "crashed"
=============================================================================
