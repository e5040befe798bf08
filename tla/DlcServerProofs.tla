-------------------------- MODULE DlcServerProofs ---------------------------
(***************************************************************************)
(* What holds of the server for any number of threads, manifests and       *)
(* START_UPGRADE messages, and in both builds.                             *)
(***************************************************************************)
EXTENDS DlcServer, TLAPS

LockTheorems == INSTANCE StatLockProofs

-----------------------------------------------------------------------------
(* The server uses g_stat_lock as StatLock says: no step of a handler or of *)
(* a thread touches it but by the actions of that module.                  *)

\* Every store to g_stat_lock in dlc_server.c is a step of StatLock, so its
\* theorems hold of the server; no invariant is needed for that.
THEOREM ServerUsesLock == Spec => LockProtocol
<1>1. Init => Lock!Init
  BY DEF Init
<1>2. [Next]_vars => [Lock!Next]_(Lock!vars)
  <2> SUFFICES ASSUME [Next]_vars
               PROVE  Lock!Next \/ UNCHANGED Lock!vars
    OBVIOUS
  <2> USE DEF lockVars, Lock!vars
  <2>1. ASSUME NEW t \in Threads, Step(t)
        PROVE  Lock!Next \/ UNCHANGED Lock!vars
    <3>1. CASE MainStep
      BY <3>1 DEF MainStep, MainCheck, DmcAccept, Manifest, Lock!Next
    <3>2. CASE LockStep(t)
      BY <3>2 DEF LockStep, Wait, TakeLock, ReleaseLock, Lock!Next, Threads, Lock!Threads
    <3>3. CASE CurlStep(t)
      BY <3>3 DEF CurlStep, PopenFails, Downloaded, Uploaded, Crash
    <3>4. CASE HmiStep
      <4>1. CASE HmiStarts
        BY <4>1 DEF HmiStarts, Lock!Next, Lock!Threads, Waiters
      <4>2. CASE HmiConnects \/ HmiUpgrades
        BY <4>2 DEF HmiConnects, HmiUpgrades
      <4>3. QED
        BY <3>4, <4>1, <4>2 DEF HmiStep
    <3>5. ASSUME t \in Workers, WorkerStep(t)
          PROVE  Lock!Next \/ UNCHANGED Lock!vars
      <4>1. CASE EnterPoll(t)
        BY <3>5, <4>1 DEF EnterPoll, Lock!Next, Lock!Threads, Waiters
      <4>2. ASSUME NEW p, NEW c,
                   Connected(t, p) \/ Replied(t, p, c) \/ StillDownloading(t, p, c)
                   \/ BadReply(t) \/ PeerCloses(t, p) \/ Closed(t, p) \/ MayCrash(t)
            PROVE  UNCHANGED Lock!vars
        BY <4>2 DEF Connected, Replied, StillDownloading, BadReply, PeerCloses, Closed,
                    MayCrash, Crash
      <4>3. ASSUME NEW p, Event(t, p)
            PROVE  UNCHANGED Lock!vars
        BY <4>2, <4>3 DEF Event, RepliedAtClose
      <4>4. CASE Poll(t) \/ LastPoll(t)
        BY <4>3, <4>4 DEF Poll, LastPoll
      <4>5. CASE FreeClose(t)
        BY <4>2, <4>5 DEF FreeClose, RepliedAtClose
      <4>6. CASE LeaveLoop(t) \/ Reset(t) \/ Finish(t)
        BY <4>6 DEF LeaveLoop, Reset, Finish
      <4>7. QED
        BY <3>5, <4>1, <4>4, <4>5, <4>6 DEF WorkerStep
    <3>6. CASE Switch(t) \/ LateStore(t)
      BY <3>6 DEF Switch, LateStore
    <3>7. QED
      BY <2>1, <3>1, <3>2, <3>3, <3>4, <3>5, <3>6 DEF Step, Outside
  <2>2. CASE UNCHANGED vars
    BY <2>2 DEF vars
  <2>3. QED
    BY <2>1, <2>2 DEF Next
<1>3. QED
  BY <1>1, <1>2, PTL DEF Spec, LockProtocol, Lock!Spec

\* What StatLockProofs proves of StatLock is proved of the server's lock.
LEMMA LockInherits ==
  Spec => []Lock!TypeOK /\ []Lock!NoOrphanLock
<1>1. LockTheorems!StatLockAssumption
  BY DlcServerAssumption DEF LockTheorems!StatLockAssumption
<1>2. LockTheorems!Spec => []LockTheorems!TypeOK /\ []LockTheorems!NoOrphanLock
  BY <1>1, LockTheorems!LockTyping, LockTheorems!LockNeverOrphaned
<1>3. LockProtocol => LockTheorems!Spec
  BY DEF LockProtocol, Lock!Spec, Lock!Init, Lock!Next, Lock!vars, Lock!Threads,
         Lock!MainCheck, Lock!BeginWait, Lock!WaitSample, Lock!WaitDone, Lock!Take,
         Lock!Release,
         LockTheorems!Spec, LockTheorems!Init, LockTheorems!Next, LockTheorems!vars,
         LockTheorems!Threads, LockTheorems!MainCheck, LockTheorems!BeginWait,
         LockTheorems!WaitSample, LockTheorems!WaitDone, LockTheorems!Take,
         LockTheorems!Release
<1>4. LockTheorems!TypeOK <=> Lock!TypeOK
  BY DEF LockTheorems!TypeOK, Lock!TypeOK, Lock!Threads, LockTheorems!Threads,
         LockTheorems!Places, Lock!Places
<1>5. LockTheorems!NoOrphanLock <=> Lock!NoOrphanLock
  BY DEF LockTheorems!NoOrphanLock, Lock!NoOrphanLock, Lock!Threads,
         LockTheorems!Threads
<1>6. QED
  BY <1>2, <1>3, <1>4, <1>5, ServerUsesLock, PTL

\* Whatever the threads of the server do, g_stat_lock is set only while one of
\* them is between its store of 1 and its store of 0.
THEOREM ServerLockNeverOrphaned == Spec => []Lock!NoOrphanLock
  BY LockInherits, PTL

-----------------------------------------------------------------------------
(* Types.  Those of the lock follow from StatLock's theorem; the others do  *)
(* not depend on it.                                                       *)

Conns == {"none", "connecting", "open", "eof", "closing", "replied", "closed"}

ThreadsOK ==
  /\ pc \in [Threads -> PCs]
  /\ api \in [Workers -> Apis \cup {"none"}]
  /\ conn \in [Workers -> Conns]
  /\ \A w \in Workers : pc[w] = "idle" <=> api[w] = "none"

DataOK ==
  /\ proc \in {"up", "crashed"}
  /\ g_stat \in Stages
  /\ core \in [Threads -> Cores]
  /\ dmc \in BOOLEAN /\ hmi \in BOOLEAN
  /\ dev_id \in Devices \cup {"none"}
  /\ progress \in {"below100", "full"}
  /\ starts \in 0..MaxStarts
  /\ exit \in [Apis -> {0, 1}]
  /\ stat_nc \in BOOLEAN

StateOK == ThreadsOK /\ DataOK

\* Kinds of threads do not mix.
LEMMA KindsApart ==
  /\ Main \in Threads /\ Hmi \in Threads /\ Main # Hmi
  /\ Main \notin Workers /\ Hmi \notin Workers
  /\ \A w \in Workers : w \in Threads /\ w # Hmi /\ w \notin Uploaders
  /\ \A d \in Downloaders : d \in Threads /\ d # Hmi /\ d \notin Uploaders
  /\ \A u \in Uploaders : u \in Threads /\ u # Hmi /\ u # Main
  /\ \A t \in Setters : t \in Threads /\ t \notin Workers
  /\ Main \notin Uploaders /\ Hmi \notin Uploaders
  BY DlcServerAssumption DEF Threads, Waiters, Setters

\* A store of g_stat, with or without a call of core_state_handler.
LEMMA StoreOK ==
  ASSUME DataOK, NEW t \in Threads, NEW stage \in Stages,
         CoreState(t, stage) \/ Store(stage)
  PROVE  g_stat' \in Stages /\ core' \in [Threads -> Cores]
<1>1. "reread" \in Cores /\ stage \in Cores
  BY DEF Cores
<1>2. QED
  BY <1>1 DEF DataOK, CoreState, Store

\* A thread that goes on, with the request it has.
LEMMA MoveOK ==
  ASSUME ThreadsOK, NEW t \in Threads, NEW p \in PCs \ {"idle"},
         pc[t] # "idle" \/ t \notin Workers,
         pc' = [pc EXCEPT ![t] = p], api' = api, conn' \in [Workers -> Conns]
  PROVE  ThreadsOK'
<1>1. pc' \in [Threads -> PCs]
  BY DEF ThreadsOK
<1>2. \A w \in Workers : pc'[w] = "idle" <=> api[w] = "none"
  <2> TAKE w \in Workers
  <2>1. w \in Threads
    BY KindsApart
  <2>2. QED
    BY <2>1 DEF ThreadsOK
<1>3. QED
  BY <1>1, <1>2 DEF ThreadsOK

\* The same, with a downloader or an uploader that is started.
LEMMA StartCurlOK ==
  ASSUME ThreadsOK, NEW t \in Threads, NEW p \in PCs \ {"idle"},
         pc[t] # "idle" \/ t \notin Workers,
         NEW S \in SUBSET Setters, StartCurl(S, [pc EXCEPT ![t] = p]),
         api' = api, conn' \in [Workers -> Conns]
  PROVE  ThreadsOK'
<1>1. CASE pc' = [pc EXCEPT ![t] = p]
  BY <1>1, MoveOK
<1>2. ASSUME NEW u \in S, pc' = [[pc EXCEPT ![t] = p] EXCEPT ![u] = "run"]
      PROVE  ThreadsOK'
  <2>1. u \in Threads /\ u \notin Workers
    BY KindsApart
  <2>2. pc' \in [Threads -> PCs]
    BY <1>2 DEF ThreadsOK, PCs
  <2>3. \A w \in Workers : pc'[w] = IF w = t THEN p ELSE pc[w]
    <3> TAKE w \in Workers
    <3>1. w \in Threads /\ w # u
      BY <2>1, KindsApart
    <3>2. QED
      BY <1>2, <3>1 DEF ThreadsOK
  <2>4. QED
    BY <2>2, <2>3 DEF ThreadsOK
<1>3. QED
  BY <1>1, <1>2 DEF StartCurl, Idle

\* What the switch of a call looks at.
StageOf(t) == IF core[t] = "reread" THEN g_stat ELSE core[t]

\* What a switch does: it may start a downloader, or a request in a free slot.
LEMMA SwitchStarts ==
  ASSUME NEW t \in Threads, Switch(t)
  PROVE  /\ UNCHANGED <<proc, g_stat, lockVars, dataVars, exit, stat_nc>>
         /\ core[t] # "out"
         /\ \E c \in {"late", "out"} : core' = [core EXCEPT ![t] = c]
         /\ \/ UNCHANGED <<pc, api, conn>>
            \/ \E d \in Downloaders :
                 pc[d] = "idle" /\ pc' = [pc EXCEPT ![d] = "run"] /\ UNCHANGED <<api, conn>>
            \/ \E n \in Workers :
                 /\ pc[n] = "idle" /\ pc' = [pc EXCEPT ![n] = "loop"]
                 /\ conn' = [conn EXCEPT ![n] = "connecting"]
                 /\ api' = [api EXCEPT ![n] = RequestOf(StageOf(t))]
                 /\ RequestOf(StageOf(t)) # "none"
<1> DEFINE stage == StageOf(t)
<1>1. /\ UNCHANGED <<proc, g_stat, lockVars, dataVars, exit, stat_nc>>
      /\ core[t] # "out"
      /\ \/ /\ stage = "DLC_PKG_NEW"
            /\ core' = [core EXCEPT ![t] = "late"]
            /\ StartCurl(Downloaders, pc)
            /\ UNCHANGED <<api, conn>>
         \/ /\ core' = [core EXCEPT ![t] = "out"]
            /\ \/ StartRequest(RequestOf(stage)) /\ RequestOf(stage) # "none"
               \/ RequestOf(stage) = "none" /\ UNCHANGED <<pc, api, conn>>
  BY DEF Switch, StageOf
<1> HIDE DEF stage
<1>2. CASE StartCurl(Downloaders, pc) /\ UNCHANGED <<api, conn>>
  BY <1>1, <1>2 DEF StartCurl, Idle
<1>3. CASE StartRequest(RequestOf(stage)) /\ RequestOf(stage) # "none"
  BY <1>1, <1>3 DEF StartRequest, Idle, stage
<1>4. QED
  BY <1>1, <1>2, <1>3

\* A switch keeps the types.
LEMMA SwitchOK ==
  ASSUME StateOK, NEW t \in Threads, Switch(t)
  PROVE  StateOK'
<1>1. core' \in [Threads -> Cores]
  <2>1. PICK c \in {"late", "out"} : core' = [core EXCEPT ![t] = c]
    BY SwitchStarts
  <2>2. QED
    BY <2>1 DEF StateOK, DataOK, Cores
<1>2. DataOK'
  <2>1. UNCHANGED <<proc, g_stat, dataVars, exit, stat_nc>>
    BY SwitchStarts
  <2>2. QED
    BY <1>1, <2>1 DEF StateOK, DataOK, dataVars
<1>3. CASE UNCHANGED <<pc, api, conn>>
  BY <1>2, <1>3 DEF StateOK, ThreadsOK
<1>4. ASSUME NEW d \in Downloaders, pc' = [pc EXCEPT ![d] = "run"], UNCHANGED <<api, conn>>
      PROVE  StateOK'
  <2>1. d \in Threads /\ d \notin Workers /\ "run" \in PCs \ {"idle"}
    BY KindsApart DEF Setters, PCs
  <2>2. ThreadsOK'
    BY <1>4, <2>1, MoveOK DEF StateOK, ThreadsOK
  <2>3. QED
    BY <1>2, <2>2 DEF StateOK
<1>5. ASSUME NEW n \in Workers, NEW a \in Apis,
             pc' = [pc EXCEPT ![n] = "loop"],
             conn' = [conn EXCEPT ![n] = "connecting"],
             api' = [api EXCEPT ![n] = a]
      PROVE  StateOK'
  <2>1. n \in Threads /\ "loop" \in PCs /\ "connecting" \in Conns /\ a # "none"
    BY KindsApart DEF PCs, Conns, Apis
  <2>2. \A w \in Workers : w \in Threads
    BY KindsApart
  <2>3. ThreadsOK'
    BY <1>5, <2>1, <2>2 DEF StateOK, ThreadsOK
  <2>4. QED
    BY <1>2, <2>3 DEF StateOK
<1>6. RequestOf(StageOf(t)) \in Apis \cup {"none"}
  BY DEF RequestOf, Apis
<1>7. QED
  BY <1>3, <1>4, <1>5, <1>6, SwitchStarts

\* A reply, delivered to a thread of cgw_msg_thread that it leaves at p.
LEMMA RepliedOK ==
  ASSUME StateOK,
         NEW w \in Workers, NEW p \in PCs \ {"idle"}, pc[w] # "idle",
         NEW c \in Conns,
         Replied(w, p, c) \/ StillDownloading(w, p, c)
  PROVE  StateOK'
<1>1. w \in Threads /\ api[w] \in Apis
  BY KindsApart DEF StateOK, ThreadsOK
<1>2. conn' = [conn EXCEPT ![w] = c] /\ conn' \in [Workers -> Conns]
      /\ UNCHANGED <<proc, dmc, hmi, dev_id, starts, api, stat_nc>>
  BY DEF Replied, StillDownloading, StateOK, ThreadsOK, dataVars
<1>3. exit' \in [Apis -> {0, 1}]
  BY <1>1 DEF Replied, StillDownloading, StateOK, DataOK
<1>4. /\ \/ pc' = [pc EXCEPT ![w] = p]
         \/ StartCurl(Uploaders, [pc EXCEPT ![w] = p])
      /\ \E stage \in Stages : Store(stage) \/ CoreState(w, stage)
      /\ progress' \in {"below100", "full"}
  <2>1. CASE StillDownloading(w, p, c)
    BY <2>1 DEF StillDownloading, StateOK, DataOK, Stages, dataVars
  <2>2. CASE api[w] = "pkg_new" /\ PkgNewReply(w, [pc EXCEPT ![w] = p])
    BY <2>2 DEF PkgNewReply, StateOK, DataOK, Stages
  <2>3. CASE Store(g_stat) /\ pc' = [pc EXCEPT ![w] = p] /\ UNCHANGED progress
    BY <2>3 DEF StateOK, DataOK
  <2>4. CASE TdrStatReply(w) /\ pc' = [pc EXCEPT ![w] = p]
    <3>1. progress' \in {"below100", "full"}
      BY <2>4 DEF TdrStatReply, UpgradeStatUpdate, StateOK, DataOK
    <3>2. \E stage \in Stages : CoreState(w, stage)
      BY <2>4 DEF TdrStatReply, Stages
    <3>3. QED
      BY <2>4, <3>1, <3>2
  <2>5. QED
    BY <2>1, <2>2, <2>3, <2>4 DEF Replied
<1>5. g_stat' \in Stages /\ core' \in [Threads -> Cores]
  BY <1>1, <1>4, StoreOK DEF StateOK
<1>6. ThreadsOK'
  <2>1. CASE pc' = [pc EXCEPT ![w] = p]
    BY <1>1, <1>2, <2>1, MoveOK DEF StateOK
  <2>2. CASE StartCurl(Uploaders, [pc EXCEPT ![w] = p])
    <3>1. Uploaders \in SUBSET Setters
      BY DEF Setters
    <3>2. QED
      BY <1>1, <1>2, <2>2, <3>1, StartCurlOK DEF StateOK
  <2>3. QED
    BY <1>4, <2>1, <2>2
<1>7. DataOK'
  BY <1>2, <1>3, <1>4, <1>5 DEF StateOK, DataOK
<1>8. QED
  BY <1>6, <1>7 DEF StateOK

\* A crash keeps everything but proc.
LEMMA CrashOK ==
  ASSUME StateOK, Crash
  PROVE  StateOK'
  BY DEF Crash, StateOK, ThreadsOK, DataOK, dataVars, workVars

\* The other events of a worker's connection.
LEMMA EventOK ==
  ASSUME StateOK,
         NEW w \in Workers, NEW p \in {"ran", "close"}, pc[w] # "idle",
         Event(w, p) \/ Closed(w, p) \/ RepliedAtClose(w) \/ BadReply(w)
  PROVE  StateOK'
<1>1. w \in Threads /\ p \in PCs \ {"idle"} /\ api[w] \in Apis /\ pc[w] \in PCs \ {"idle"}
  BY KindsApart DEF PCs, StateOK, ThreadsOK
<1>2. CASE Connected(w, p)
  <2>1. PICK ok \in BOOLEAN :
          /\ conn' = [conn EXCEPT ![w] = IF ok THEN "open" ELSE "closing"]
          /\ exit' \in {exit, [exit EXCEPT ![api[w]] = 1]}
          /\ stat_nc' = (stat_nc \/ (ok /\ api[w] = "pkg_stat"))
          /\ \E stage \in Stages : Store(stage) \/ CoreState(w, stage)
    BY <1>2 DEF Connected, Stages
  <2>2. pc' = [pc EXCEPT ![w] = p] /\ UNCHANGED <<proc, dataVars, api>>
    BY <1>2 DEF Connected
  <2>3. conn' \in [Workers -> Conns]
    BY <2>1 DEF StateOK, ThreadsOK, Conns
  <2>4. ThreadsOK'
    BY <1>1, <2>2, <2>3, MoveOK DEF StateOK
  <2>5. exit' \in [Apis -> {0, 1}] /\ stat_nc' \in BOOLEAN
    BY <1>1, <2>1 DEF StateOK, DataOK
  <2>6. g_stat' \in Stages /\ core' \in [Threads -> Cores]
    BY <1>1, <2>1, StoreOK DEF StateOK
  <2>7. DataOK'
    BY <2>2, <2>5, <2>6 DEF StateOK, DataOK, dataVars
  <2>8. QED
    BY <2>4, <2>7 DEF StateOK
<1>3. ASSUME NEW q \in PCs \ {"idle"}, NEW c \in Conns,
             Replied(w, q, c) \/ StillDownloading(w, q, c)
      PROVE  StateOK'
  BY <1>3, RepliedOK
<1>4. CASE Crash
  BY <1>4, CrashOK
<1>5. CASE PeerCloses(w, p)
  <2>1. conn' \in [Workers -> Conns]
    BY <1>5 DEF PeerCloses, StateOK, ThreadsOK, Conns
  <2>2. ThreadsOK'
    BY <1>1, <1>5, <2>1, MoveOK DEF PeerCloses, StateOK
  <2>3. QED
    BY <1>5, <2>2 DEF PeerCloses, StateOK, DataOK, dataVars
<1>6. CASE Closed(w, p) /\ ~Crash
  <2>1. /\ pc' = [pc EXCEPT ![w] = p]
        /\ conn' = [conn EXCEPT ![w] = "closed"]
        /\ exit' = [exit EXCEPT ![api[w]] = 1]
        /\ stat_nc' = (stat_nc /\ api[w] # "pkg_stat")
        /\ UNCHANGED <<proc, g_stat, core, dataVars, api>>
    BY <1>6 DEF Closed
  <2>2. conn' \in [Workers -> Conns]
    BY <2>1 DEF StateOK, ThreadsOK, Conns
  <2>3. ThreadsOK'
    BY <1>1, <2>1, <2>2, MoveOK DEF StateOK
  <2>4. exit' \in [Apis -> {0, 1}] /\ stat_nc' \in BOOLEAN
    BY <1>1, <2>1 DEF StateOK, DataOK
  <2>5. QED
    BY <2>1, <2>3, <2>4 DEF StateOK, DataOK, dataVars
<1>7. CASE RepliedAtClose(w)
  BY <1>1, <1>3, <1>7 DEF RepliedAtClose, Conns
<1>8. CASE Replied(w, p, "closing") \/ StillDownloading(w, p, "open")
  BY <1>1, <1>3, <1>8 DEF Conns
<1>9. QED
  BY <1>2, <1>4, <1>5, <1>6, <1>7, <1>8 DEF Event, BadReply, MayCrash

\* A worker's step keeps the types.
LEMMA WorkerStepOK ==
  ASSUME StateOK, NEW w \in Workers, WorkerStep(w)
  PROVE  StateOK'
<1>1. w \in Threads
  BY KindsApart
<1>2. CASE EnterPoll(w) \/ LeaveLoop(w)
  <2>1. PICK p \in {"poll", "reset"} : pc' = [pc EXCEPT ![w] = p]
    BY <1>2 DEF EnterPoll, LeaveLoop
  <2>2. UNCHANGED <<proc, g_stat, core, dataVars, workVars>> /\ pc[w] # "idle"
    BY <1>2 DEF EnterPoll, LeaveLoop
  <2>3. ThreadsOK'
    BY <1>1, <2>1, <2>2, MoveOK DEF StateOK, ThreadsOK, PCs, workVars
  <2>4. QED
    BY <2>2, <2>3 DEF StateOK, DataOK, dataVars, workVars
<1>3. CASE Reset(w)
  <2>1. /\ pc[w] # "idle" /\ pc' = [pc EXCEPT ![w] = "free"] /\ "free" \in PCs \ {"idle"}
        /\ UNCHANGED <<proc, g_stat, core, dataVars, api, conn, stat_nc>>
    BY <1>3 DEF Reset, PCs
  <2>2. ThreadsOK'
    BY <1>1, <2>1, MoveOK DEF StateOK, ThreadsOK
  <2>3. exit' \in [Apis -> {0, 1}]
    BY <1>3 DEF Reset, StateOK, DataOK
  <2>4. QED
    BY <2>1, <2>2, <2>3 DEF StateOK, DataOK, dataVars
<1>4. CASE Poll(w)
  BY <1>4, EventOK DEF Poll, Polling
<1>5. CASE LastPoll(w)
  <2>1. CASE Event(w, "close")
    BY <1>5, <2>1, EventOK DEF LastPoll
  <2>2. CASE ~Event(w, "close")
    <3>1. /\ pc[w] = "free" /\ pc' = [pc EXCEPT ![w] = "close"]
          /\ UNCHANGED <<proc, g_stat, core, dataVars, workVars>>
      BY <1>5, <2>2 DEF LastPoll
    <3>2. ThreadsOK'
      BY <1>1, <3>1, MoveOK DEF StateOK, ThreadsOK, PCs, workVars
    <3>3. QED
      BY <3>1, <3>2 DEF StateOK, DataOK, dataVars, workVars
  <2>3. QED
    BY <2>1, <2>2
<1>6. CASE FreeClose(w)
  BY <1>6, EventOK DEF FreeClose
<1>7. CASE Finish(w)
  <2>1. ThreadsOK'
    BY <1>1, <1>7, KindsApart DEF Finish, StateOK, ThreadsOK, PCs, Conns
  <2>2. QED
    BY <1>7, <2>1 DEF Finish, StateOK, DataOK, dataVars
<1>8. QED
  BY <1>2, <1>3, <1>4, <1>5, <1>6, <1>7 DEF WorkerStep

\* A step of main() keeps the types.
LEMMA MainStepOK ==
  ASSUME StateOK, MainStep
  PROVE  StateOK'
<1>1. CASE MainCheck
  BY <1>1 DEF MainCheck, StateOK, ThreadsOK, DataOK, dataVars, workVars
<1>2. CASE DmcAccept \/ \E dev \in Devices : Manifest(dev)
  <2>1. pc' = [pc EXCEPT ![Main] = "ran"] /\ UNCHANGED workVars /\ "ran" \in PCs \ {"idle"}
    BY <1>2 DEF DmcAccept, Manifest, PCs
  <2>2. ThreadsOK'
    BY <2>1, MoveOK, KindsApart DEF StateOK, ThreadsOK, workVars
  <2>3. CASE DmcAccept
    BY <2>2, <2>3 DEF DmcAccept, StateOK, DataOK, workVars
  <2>4. ASSUME NEW dev \in Devices, Manifest(dev)
        PROVE  StateOK'
    <3>1. CoreState(Main, "DLC_PKG_NEW") /\ "DLC_PKG_NEW" \in Stages
      BY <2>4 DEF Manifest, Stages
    <3>2. g_stat' \in Stages /\ core' \in [Threads -> Cores]
      BY <3>1, StoreOK, KindsApart DEF StateOK
    <3>3. QED
      BY <2>2, <2>4, <3>2 DEF Manifest, DmcMsgParse, StateOK, DataOK, workVars
  <2>5. QED
    BY <1>2, <2>3, <2>4
<1>3. QED
  BY <1>1, <1>2 DEF MainStep

\* A step of a downloader or of an uploader keeps the types.
LEMMA CurlStepOK ==
  ASSUME StateOK, NEW t \in Setters, CurlStep(t)
  PROVE  StateOK'
<1>1. CASE Crash
  BY <1>1, CrashOK
<1>2. CASE ~Crash
  <2>1. PICK p \in PCs \ {"idle"} : pc' = [pc EXCEPT ![t] = p]
    BY <1>2 DEF CurlStep, PopenFails, Downloaded, Uploaded, PCs
  <2>2. UNCHANGED <<proc, dataVars, workVars>>
    BY <1>2 DEF CurlStep, PopenFails, Downloaded, Uploaded
  <2>3. ThreadsOK'
    BY <2>1, <2>2, MoveOK, KindsApart DEF StateOK, ThreadsOK, workVars
  <2>4. \/ UNCHANGED <<g_stat, core>>
        \/ \E stage \in Stages : CoreState(t, stage) \/ Store(stage)
    BY <1>2 DEF CurlStep, PopenFails, Downloaded, Uploaded, StateOK, DataOK, Stages
  <2>5. g_stat' \in Stages /\ core' \in [Threads -> Cores]
    <3>1. CASE UNCHANGED <<g_stat, core>>
      BY <3>1 DEF StateOK, DataOK
    <3>2. QED
      BY <2>4, <3>1, StoreOK, KindsApart DEF StateOK
  <2>6. QED
    BY <2>2, <2>3, <2>5 DEF StateOK, DataOK, dataVars, workVars
<1>3. QED
  BY <1>1, <1>2

\* A step of the HMI thread keeps the types.
LEMMA HmiStepOK ==
  ASSUME StateOK, HmiStep
  PROVE  StateOK'
<1>1. CASE HmiConnects
  BY <1>1 DEF HmiConnects, StateOK, ThreadsOK, DataOK, workVars
<1>2. CASE HmiStarts
  <2>1. pc' = [pc EXCEPT ![Hmi] = "checked"] /\ "checked" \in PCs \ {"idle"}
    BY <1>2 DEF HmiStarts, PCs
  <2>2. ThreadsOK'
    BY <1>2, <2>1, MoveOK, KindsApart DEF HmiStarts, StateOK, ThreadsOK, workVars
  <2>3. starts' \in 0..MaxStarts
    BY <1>2, DlcServerAssumption DEF HmiStarts, StateOK, DataOK
  <2>4. QED
    BY <1>2, <2>2, <2>3 DEF HmiStarts, StateOK, DataOK, workVars
<1>3. CASE HmiUpgrades
  <2>1. pc' = [pc EXCEPT ![Hmi] = "ran"] /\ "ran" \in PCs \ {"idle"}
    BY <1>3 DEF HmiUpgrades, PCs
  <2>2. ThreadsOK'
    BY <1>3, <2>1, MoveOK, KindsApart DEF HmiUpgrades, StateOK, ThreadsOK, workVars
  <2>3. CoreState(Hmi, "ORCH_PKG_READY") /\ "ORCH_PKG_READY" \in Stages
    BY <1>3 DEF HmiUpgrades, Stages
  <2>4. g_stat' \in Stages /\ core' \in [Threads -> Cores]
    BY <2>3, StoreOK, KindsApart DEF StateOK
  <2>5. QED
    BY <1>3, <2>2, <2>4 DEF HmiUpgrades, StateOK, DataOK, dataVars, workVars
<1>4. QED
  BY <1>1, <1>2, <1>3 DEF HmiStep

\* Every step of the server keeps the types.
LEMMA StepOK ==
  ASSUME StateOK, [Next]_vars
  PROVE  StateOK'
<1>1. ASSUME NEW t \in Threads, LockStep(t)
      PROVE  StateOK'
  <2>1. CASE Wait(t) \/ TakeLock(t)
    BY <2>1 DEF Wait, TakeLock, StateOK, ThreadsOK, DataOK, dataVars, workVars
  <2>2. CASE ReleaseLock(t)
    <3>1. PICK p \in PCs \ {"idle"} : pc' = [pc EXCEPT ![t] = p]
      BY <2>2 DEF ReleaseLock, PCs
    <3>2. pc[t] # "idle" /\ UNCHANGED <<proc, g_stat, core, dataVars, workVars>>
      BY <2>2 DEF ReleaseLock
    <3>3. ThreadsOK'
      BY <3>1, <3>2, MoveOK DEF StateOK, ThreadsOK, workVars
    <3>4. QED
      BY <3>2, <3>3 DEF StateOK, DataOK, dataVars, workVars
  <2>3. QED
    BY <1>1, <2>1, <2>2 DEF LockStep
<1>2. ASSUME NEW t \in Threads, LateStore(t)
      PROVE  StateOK'
  BY <1>2 DEF LateStore, StateOK, ThreadsOK, DataOK, Stages, Cores, dataVars, workVars
<1>3. ASSUME NEW t \in Threads, Step(t)
      PROVE  StateOK'
  BY <1>1, <1>2, <1>3, MainStepOK, HmiStepOK, CurlStepOK, WorkerStepOK, SwitchOK
     DEF Step, Outside
<1>4. CASE UNCHANGED vars
  BY <1>4 DEF vars, dataVars, workVars, StateOK, ThreadsOK, DataOK
<1>5. QED
  BY <1>3, <1>4 DEF Next

\* The types hold at first.
LEMMA InitOK == Init => StateOK
<1> SUFFICES ASSUME Init PROVE StateOK
  OBVIOUS
<1>1. DataOK
  <2>1. exit \in [Apis -> {0, 1}]
    BY DEF Init
  <2>2. starts \in 0..MaxStarts
    BY DlcServerAssumption DEF Init
  <2>3. core \in [Threads -> Cores]
    BY DEF Init, Cores
  <2>4. QED
    BY <2>1, <2>2, <2>3 DEF Init, DataOK, Stages
<1>2. pc \in [Threads -> PCs] /\ \A w \in Workers : pc[w] = "idle"
  BY DlcServerAssumption DEF Init, PCs, Threads, Waiters
<1>3. QED
  BY <1>1, <1>2 DEF Init, StateOK, ThreadsOK, Conns

\* Types hold of the server with any number of threads: in particular a worker
\* slot has a request exactly while it has a thread, so no event of a connection
\* reaches the handler of a request that is over.
THEOREM ServerTyping == Spec => []TypeOK
<1>1. Init => StateOK
  BY InitOK
<1>2. StateOK /\ [Next]_vars => StateOK'
  BY StepOK
<1>3. Spec => []Lock!TypeOK
  BY LockInherits, PTL
<1>4. StateOK /\ Lock!TypeOK => TypeOK
  BY DEF StateOK, ThreadsOK, DataOK, TypeOK, Conns
<1>5. QED
  BY <1>1, <1>2, <1>3, <1>4, PTL DEF Spec
=============================================================================
