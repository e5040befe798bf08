--------------------------- MODULE DlcConnProofs ----------------------------
(***************************************************************************)
(* What becomes of the connections of cgw_msg_thread, in both builds, for  *)
(* any number of threads: cgw_api_pkg_stat.nc, and that the threads of     *)
(* each api are threads of CgwThread.                                      *)
(***************************************************************************)
EXTENDS DlcServerProofs

Unclosed == {"open", "eof", "closing", "replied"}

\* All that a step may do to requests, connections and cgw_api_pkg_stat.nc.
Opens(n) ==
  /\ api[n] = "none"
  /\ conn' = [conn EXCEPT ![n] = "connecting"]
  /\ \E a \in Apis : api' = [api EXCEPT ![n] = a]
  /\ UNCHANGED stat_nc

Goes(w) ==
  /\ api[w] # "none"
  /\ \E c \in Unclosed : conn' = [conn EXCEPT ![w] = c]
  /\ stat_nc' => stat_nc \/ api[w] = "pkg_stat"
  /\ UNCHANGED api

Closes(w) ==
  /\ conn' = [conn EXCEPT ![w] = "closed"]
  /\ stat_nc' = (stat_nc /\ api[w] # "pkg_stat")
  /\ UNCHANGED api

Ends(w) ==
  /\ conn[w] = "closed"
  /\ conn' = [conn EXCEPT ![w] = "none"]
  /\ api' = [api EXCEPT ![w] = "none"]
  /\ UNCHANGED stat_nc

ConnStep ==
  \/ UNCHANGED <<api, conn, stat_nc>>
  \/ \E w \in Workers : Opens(w) \/ Goes(w) \/ Closes(w) \/ Ends(w)

\* Events, a worker's first.
LEMMA EventConnStep ==
  ASSUME StateOK,
         NEW w \in Workers, NEW p \in {"ran", "close"}, pc[w] # "idle",
         Event(w, p) \/ Closed(w, p) \/ RepliedAtClose(w) \/ BadReply(w)
  PROVE  ConnStep
<1>1. api[w] # "none"
  BY DEF StateOK, ThreadsOK
<1>2. CASE Connected(w, p)
  <2>1. Goes(w)
    BY <1>1, <1>2 DEF Connected, Goes, Unclosed, StateOK, DataOK
  <2>2. QED
    BY <2>1 DEF ConnStep
<1>3. ASSUME NEW q, NEW c \in Unclosed, Replied(w, q, c) \/ StillDownloading(w, q, c)
      PROVE  ConnStep
  <2>1. Goes(w)
    BY <1>1, <1>3 DEF Replied, StillDownloading, Goes
  <2>2. QED
    BY <2>1 DEF ConnStep
<1>4. CASE Crash
  BY <1>4 DEF Crash, ConnStep, workVars
<1>5. CASE PeerCloses(w, p)
  <2>1. Goes(w)
    BY <1>1, <1>5 DEF PeerCloses, Goes, Unclosed
  <2>2. QED
    BY <2>1 DEF ConnStep
<1>6. CASE Closed(w, p) /\ ~Crash
  <2>1. Closes(w)
    BY <1>6 DEF Closed, Closes
  <2>2. QED
    BY <2>1 DEF ConnStep
<1>7. {"closing", "open", "replied"} \subseteq Unclosed
  BY DEF Unclosed
<1>8. QED
  BY <1>2, <1>3, <1>4, <1>5, <1>6, <1>7 DEF Event, RepliedAtClose, BadReply, MayCrash

\* A step of a worker.
LEMMA WorkerConnStep ==
  ASSUME StateOK, NEW w \in Workers, WorkerStep(w)
  PROVE  ConnStep
<1>1. CASE EnterPoll(w) \/ LeaveLoop(w) \/ Reset(w) \/ (LastPoll(w) /\ ~Event(w, "close"))
  BY <1>1 DEF EnterPoll, LeaveLoop, Reset, LastPoll, ConnStep, workVars
<1>2. CASE Poll(w)
  BY <1>2, EventConnStep DEF Poll, Polling
<1>3. CASE LastPoll(w) /\ Event(w, "close")
  BY <1>3, EventConnStep DEF LastPoll
<1>4. CASE FreeClose(w)
  BY <1>4, EventConnStep DEF FreeClose
<1>5. CASE Finish(w)
  <2>1. Ends(w)
    BY <1>5 DEF Finish, Ends
  <2>2. QED
    BY <2>1 DEF ConnStep
<1>6. QED
  BY <1>1, <1>2, <1>3, <1>4, <1>5 DEF WorkerStep

\* Every step of the server.
LEMMA AnyConnStep ==
  ASSUME StateOK, [Next]_vars
  PROVE  ConnStep
<1>1. CASE UNCHANGED <<api, conn, stat_nc>>
  BY <1>1 DEF ConnStep
<1>2. ASSUME NEW t \in Threads, Switch(t)
      PROVE  ConnStep
  <2>1. UNCHANGED stat_nc
    BY <1>2, SwitchStarts
  <2>2. ASSUME NEW n \in Workers,
               pc[n] = "idle",
               conn' = [conn EXCEPT ![n] = "connecting"],
               api' = [api EXCEPT ![n] = RequestOf(StageOf(t))],
               RequestOf(StageOf(t)) # "none"
        PROVE  ConnStep
    <3>1. api[n] = "none"
      BY <2>2 DEF StateOK, ThreadsOK
    <3>2. RequestOf(StageOf(t)) \in Apis
      BY <2>2 DEF RequestOf, Apis
    <3>3. Opens(n)
      BY <2>1, <2>2, <3>1, <3>2 DEF Opens
    <3>4. QED
      BY <3>3 DEF ConnStep
  <2>3. QED
    BY <1>1, <1>2, <2>1, <2>2, SwitchStarts
<1>3. ASSUME NEW t \in Threads, LockStep(t) \/ LateStore(t)
      PROVE  UNCHANGED <<api, conn, stat_nc>>
  BY <1>3 DEF LockStep, Wait, TakeLock, ReleaseLock, LateStore, workVars
<1>4. CASE MainStep \/ HmiStep
  <2>1. UNCHANGED workVars
    BY <1>4 DEF MainStep, MainCheck, DmcAccept, Manifest, HmiStep, HmiConnects, HmiStarts,
                HmiUpgrades
  <2>2. QED
    BY <1>1, <2>1 DEF workVars
<1>5. ASSUME NEW t \in Setters, CurlStep(t)
      PROVE  UNCHANGED <<api, conn, stat_nc>>
  BY <1>5 DEF CurlStep, PopenFails, Downloaded, Uploaded, Crash, workVars
<1>6. ASSUME NEW t \in Threads, Step(t)
      PROVE  ConnStep
  BY <1>1, <1>2, <1>3, <1>4, <1>5, <1>6, WorkerConnStep DEF Step, Outside
<1>7. CASE UNCHANGED vars
  BY <1>1, <1>7 DEF vars, workVars
<1>8. QED
  BY <1>6, <1>7 DEF Next

\* cgw_api_pkg_stat.nc, which keeps core_state_handler from asking again (line 1155),
\* never outlives the connections of pkg_stat, however many of them overlap.
THEOREM PkgStatPointer == Spec => []NcNotStale
<1> DEFINE Holds(w) == api[w] = "pkg_stat" /\ conn[w] \in Unclosed
<1>1. NcNotStale <=> (stat_nc => \E w \in Workers : Holds(w))
  BY DEF NcNotStale, Live, Unclosed
<1>2. Init => NcNotStale
  BY DEF Init, NcNotStale
<1>3. ASSUME StateOK, NcNotStale, ConnStep
      PROVE  NcNotStale'
  <2> SUFFICES ASSUME stat_nc'
               PROVE  \E w \in Workers : Holds(w)'
    BY DEF NcNotStale, Live, Unclosed
  <2> USE <1>3 DEF StateOK, ThreadsOK
  <2>1. CASE UNCHANGED <<api, conn, stat_nc>>
    BY <1>1, <1>3, <2>1
  <2>2. ASSUME NEW n \in Workers, Opens(n)
        PROVE  \E w \in Workers : Holds(w)'
    <3>1. PICK w \in Workers : Holds(w)
      BY <1>1, <1>3, <2>2 DEF Opens
    <3>2. Holds(w)'
      BY <2>2, <3>1 DEF Opens
    <3>3. QED
      BY <3>2
  <2>3. ASSUME NEW v \in Workers, Goes(v)
        PROVE  \E w \in Workers : Holds(w)'
    <3>1. CASE api[v] = "pkg_stat"
      <4>1. Holds(v)'
        BY <2>3, <3>1 DEF Goes
      <4>2. QED
        BY <4>1
    <3>2. CASE api[v] # "pkg_stat"
      <4>1. PICK w \in Workers : Holds(w)
        BY <1>1, <1>3, <2>3, <3>2 DEF Goes
      <4>2. Holds(w)'
        BY <2>3, <3>2, <4>1 DEF Goes
      <4>3. QED
        BY <4>2
    <3>3. QED
      BY <3>1, <3>2
  <2>4. ASSUME NEW v \in Workers, Closes(v) \/ Ends(v)
        PROVE  \E w \in Workers : Holds(w)'
    <3>1. stat_nc
      BY <2>4 DEF Closes, Ends
    <3>2. PICK w \in Workers : Holds(w)
      BY <1>1, <1>3, <3>1
    <3>3. Holds(w)'
      BY <2>4, <3>2 DEF Closes, Ends, Unclosed
    <3>4. QED
      BY <3>3
  <2>5. QED
    BY <1>3, <2>1, <2>2, <2>3, <2>4 DEF ConnStep
<1>4. StateOK /\ NcNotStale /\ [Next]_vars => StateOK' /\ NcNotStale'
  BY <1>3, StepOK, AnyConnStep
<1>5. QED
  BY <1>2, <1>4, InitOK, PTL DEF Spec

-----------------------------------------------------------------------------
(* The threads of an api behave as CgwThread says.  The proof is one for   *)
(* all four apis; Cgw(a) stands for PkgNew, PkgStat, TdrRun and TdrStat.   *)

Cgw(a) == INSTANCE CgwThread WITH Api <- a, Serial <- FALSE,
  exit <- exit[a], pc <- CgwPc(a), conn <- CgwConn(a)

Stutters(a) == UNCHANGED <<exit[a], CgwPc(a), CgwConn(a)>>

\* Where CgwThread has a thread that is left at p: "ran" is in its loop.
Seen(p) == IF p = "ran" THEN "loop" ELSE p

\* The state of a thread as its api sees it.
LEMMA Mapped ==
  ASSUME NEW a \in Apis, NEW w \in Workers
  PROVE  /\ api[w] = a => CgwPc(a)[w] = Seen(pc[w]) /\ CgwConn(a)[w] = conn[w]
         /\ api[w] # a => CgwPc(a)[w] = "idle" /\ CgwConn(a)[w] = "none"
  BY DEF CgwPc, CgwConn, Seen

\* Where nothing happens to the threads of cgw_msg_thread, no api sees anything.
LEMMA OthersUnseen ==
  ASSUME NEW a \in Apis, \A v \in Workers : pc'[v] = pc[v], UNCHANGED <<api, conn, exit>>
  PROVE  Stutters(a)
<1>1. CgwPc(a)' = CgwPc(a)
  BY DEF CgwPc
<1>2. CgwConn(a)' = CgwConn(a)
  BY DEF CgwConn
<1>3. QED
  BY <1>1, <1>2 DEF Stutters

\* What an event, or a step in cgw_msg_thread, does to a thread and its api's flag.
Moves(w, p, c, flag) ==
  /\ \A v \in Workers : pc'[v] = IF v = w THEN p ELSE pc[v]
  /\ conn' = [conn EXCEPT ![w] = c]
  /\ exit' = [exit EXCEPT ![api[w]] = flag]
  /\ UNCHANGED api

\* A thread that goes on is seen by its own api, and by no other.
LEMMA MovesSeen ==
  ASSUME StateOK, NEW a \in Apis, NEW w \in Workers, pc[w] # "idle",
         NEW p, NEW c, NEW flag, Moves(w, p, c, flag)
  PROVE  \/ api[w] = a /\ Cgw(a)!Move(w, Seen(p), c) /\ exit'[a] = flag
         \/ Stutters(a)
<1> USE DEF StateOK, ThreadsOK, DataOK, Moves
<1>1. CgwPc(a)' = [CgwPc(a) EXCEPT ![w] = IF api[w] = a THEN Seen(p) ELSE @]
  BY DEF CgwPc, Seen
<1>2. CgwConn(a)' = [CgwConn(a) EXCEPT ![w] = IF api[w] = a THEN c ELSE @]
  BY DEF CgwConn
<1>3. CgwPc(a) = [CgwPc(a) EXCEPT ![w] = @] /\ CgwConn(a) = [CgwConn(a) EXCEPT ![w] = @]
  BY DEF CgwPc, CgwConn
<1>4. api[w] \in Apis
  OBVIOUS
<1>5. exit'[a] = IF api[w] = a THEN flag ELSE exit[a]
  BY <1>4
<1>6. QED
  BY <1>1, <1>2, <1>3, <1>5 DEF Cgw!Move, Stutters

\* A step of thread w that leaves it at p, and starts nothing.
LEMMA GoesOn ==
  ASSUME StateOK, NEW w \in Workers, pc[w] # "idle", NEW p, NEW c,
         pc' = [pc EXCEPT ![w] = p], conn' = [conn EXCEPT ![w] = c], UNCHANGED api
  PROVE  /\ exit' = exit => Moves(w, p, c, exit[api[w]])
         /\ \A flag : exit' = [exit EXCEPT ![api[w]] = flag] => Moves(w, p, c, flag)
<1>1. \A v \in Workers : pc'[v] = IF v = w THEN p ELSE pc[v]
  BY KindsApart DEF StateOK, ThreadsOK
<1>2. exit = [exit EXCEPT ![api[w]] = exit[api[w]]]
  BY DEF StateOK, DataOK
<1>3. QED
  BY <1>1, <1>2 DEF Moves

\* A reply starts at most an uploader besides.
LEMMA ReplyMoves ==
  ASSUME StateOK, NEW w \in Workers, pc[w] # "idle", NEW p, NEW c,
         Replied(w, p, c) \/ StillDownloading(w, p, c)
  PROVE  \/ api[w] # "tdr_run" /\ Moves(w, p, c, 1)
         \/ api[w] = "pkg_stat" /\ Moves(w, p, c, exit[api[w]])
<1>1. CASE StillDownloading(w, p, c)
  BY <1>1, GoesOn DEF StillDownloading
<1>2. CASE Replied(w, p, c)
  <2>1. /\ api[w] # "tdr_run" /\ UNCHANGED api
        /\ conn' = [conn EXCEPT ![w] = c]
        /\ exit' = [exit EXCEPT ![api[w]] = 1]
        /\ \/ pc' = [pc EXCEPT ![w] = p]
           \/ \E u \in Uploaders : pc' = [[pc EXCEPT ![w] = p] EXCEPT ![u] = "run"]
    BY <1>2 DEF Replied, PkgNewReply, StartCurl, Idle
  <2>2. \A v \in Workers : pc'[v] = IF v = w THEN p ELSE pc[v]
    BY <2>1, KindsApart DEF StateOK, ThreadsOK
  <2>3. QED
    BY <2>1, <2>2 DEF Moves
<1>3. QED
  BY <1>1, <1>2

\* A thread that is neither new nor between two polls is seen where it is.
LEMMA SeenAsItIs ==
  ASSUME NEW a \in Apis, NEW w \in Workers, pc[w] # "ran", api[w] = a
  PROVE  CgwPc(a)[w] = pc[w] /\ CgwConn(a)[w] = conn[w]
  BY Mapped DEF Seen

\* The reply that comes with the close, in a poll of the loop or of mg_mgr_free.
LEMMA ReplyAtCloseSeen ==
  ASSUME StateOK, NEW a \in Apis, NEW w \in Workers, pc[w] \in {"poll", "free", "close"},
         conn[w] \in {"open", "eof"}, RepliedAtClose(w)
  PROVE  (api[w] = a /\ Cgw(a)!ReplyAtClose(w)) \/ Stutters(a)
<1> USE DEF Cgw!ReplyAtClose, Cgw!ReplyEnds, Cgw!ReplyMayNot
<1>1. Seen(pc[w]) = pc[w]
  BY DEF Seen
<1>2. \/ api[w] # "tdr_run" /\ Moves(w, pc[w], "replied", 1)
      \/ api[w] = "pkg_stat" /\ Moves(w, pc[w], "replied", exit[api[w]])
  BY ReplyMoves DEF RepliedAtClose
<1>3. CASE api[w] # "tdr_run" /\ Moves(w, pc[w], "replied", 1)
  BY <1>1, <1>3, MovesSeen, SeenAsItIs
<1>4. CASE api[w] = "pkg_stat" /\ Moves(w, pc[w], "replied", exit[api[w]])
  BY <1>1, <1>4, MovesSeen, SeenAsItIs
<1>5. QED
  BY <1>2, <1>3, <1>4

\* The close, from wherever it comes.
LEMMA ClosedSeen ==
  ASSUME StateOK, NEW a \in Apis, NEW w \in Workers, pc[w] # "idle", NEW p, Closed(w, p)
  PROVE  (api[w] = a /\ Cgw(a)!Close(w, Seen(p))) \/ Stutters(a)
<1>1. CASE Crash
  BY <1>1, OthersUnseen DEF Crash, workVars
<1>2. CASE ~Crash
  <2>1. Moves(w, p, "closed", 1)
    BY <1>2, GoesOn DEF Closed
  <2>2. QED
    BY <2>1, MovesSeen DEF Cgw!Close
<1>3. QED
  BY <1>1, <1>2

\* What mongoose delivers in a poll, as the api of the thread sees it.
LEMMA EventSeen ==
  ASSUME StateOK, NEW a \in Apis, NEW w \in Workers, NEW p,
         pc[w] \in {"poll", "free"}, Event(w, p)
  PROVE  \/ api[w] = a /\ (Cgw(a)!Event(w, Seen(p)) \/ Cgw(a)!Nothing(w, Seen(p)))
         \/ Stutters(a)
<1> USE DEF Cgw!Event
<1>1. pc[w] # "idle" /\ Seen(pc[w]) = pc[w]
  BY DEF Seen
<1>2. api[w] = a => CgwPc(a)[w] = pc[w] /\ CgwConn(a)[w] = conn[w]
  BY SeenAsItIs
<1>3. CASE Connected(w, p)
  <2>1. PICK ok \in BOOLEAN :
          /\ conn' = [conn EXCEPT ![w] = IF ok THEN "open" ELSE "closing"]
          /\ exit' = IF ok \/ api[w] \in {"pkg_new", "tdr_run"}
                       THEN exit ELSE [exit EXCEPT ![api[w]] = 1]
    BY <1>3 DEF Connected
  <2>2. conn[w] = "connecting" /\ pc' = [pc EXCEPT ![w] = p] /\ UNCHANGED api
    BY <1>3 DEF Connected
  <2>3. CASE ok
    <3>1. Moves(w, p, "open", exit[api[w]])
      BY <1>1, <2>1, <2>2, <2>3, GoesOn
    <3>2. QED
      BY <1>1, <1>2, <2>2, <3>1, MovesSeen DEF Cgw!ConnectOk
  <2>4. CASE ~ok
    <3>1. api[w] \in {"pkg_new", "pkg_stat", "tdr_run", "tdr_stat"}
      BY <1>1 DEF StateOK, ThreadsOK, Apis
    <3>2. Moves(w, p, "closing",
                IF api[w] \in {"pkg_stat", "tdr_stat"} THEN 1 ELSE exit[api[w]])
      BY <1>1, <2>1, <2>2, <2>4, <3>1, GoesOn
    <3>3. QED
      BY <1>1, <1>2, <2>2, <3>2, MovesSeen DEF Cgw!ConnectFails, Cgw!ErrorEnds
  <2>5. QED
    BY <2>3, <2>4
<1>4. CASE conn[w] = "open" /\ Replied(w, p, "closing")
  <2>1. api[w] # "tdr_run"
    BY <1>4 DEF Replied
  <2>2. Moves(w, p, "closing", 1)
    BY <1>1, <1>4, ReplyMoves DEF Moves, Replied
  <2>3. QED
    BY <1>1, <1>2, <1>4, <2>1, <2>2, MovesSeen DEF Cgw!Reply, Cgw!ReplyEnds
<1>5. CASE conn[w] = "open" /\ StillDownloading(w, p, "open")
  <2>1. Moves(w, p, "open", exit[api[w]])
    BY <1>1, <1>5, GoesOn DEF StillDownloading
  <2>2. QED
    BY <1>1, <1>2, <1>5, <2>1, MovesSeen DEF Cgw!Nothing
<1>6. CASE Crash
  BY <1>6, OthersUnseen DEF Crash, workVars
<1>7. CASE PeerCloses(w, p)
  <2>1. Moves(w, p, "eof", exit[api[w]])
    BY <1>1, <1>7, GoesOn DEF PeerCloses
  <2>2. QED
    BY <1>1, <1>2, <1>7, <2>1, MovesSeen DEF PeerCloses, Cgw!PeerCloses
<1>8. CASE conn[w] = "eof" /\ RepliedAtClose(w)
  BY <1>1, <1>2, <1>8, ReplyAtCloseSeen
<1>9. CASE conn[w] \in {"eof", "closing", "replied"} /\ Closed(w, p)
  BY <1>1, <1>2, <1>9, ClosedSeen
<1>10. QED
  BY <1>3, <1>4, <1>5, <1>6, <1>7, <1>8, <1>9 DEF Event, BadReply, MayCrash

\* A step of the server is one of the threads of api a, or none of them notices it.
Implements(a) == Cgw(a)!Next \/ Stutters(a)

\* cgw_msg_thread, step by step.
LEMMA WorkerImplements ==
  ASSUME StateOK, NEW a \in Apis, NEW w \in Workers, WorkerStep(w)
  PROVE  Implements(a)
<1> SUFFICES (api[w] = a /\ Cgw(a)!Thread(w)) \/ Stutters(a)
  BY DEF Implements, Cgw!Next
<1> USE DEF Cgw!Thread
<1>1. /\ Seen("ran") = "loop"
      /\ \A p \in {"loop", "poll", "reset", "free", "close", "idle"} : Seen(p) = p
  BY DEF Seen
<1>2. api[w] = a /\ pc[w] # "ran" => CgwPc(a)[w] = pc[w] /\ CgwConn(a)[w] = conn[w]
  BY SeenAsItIs
<1>3. conn = [conn EXCEPT ![w] = conn[w]] /\ w \in Threads
  BY KindsApart DEF StateOK, ThreadsOK
<1>4. CASE EnterPoll(w) \/ LeaveLoop(w)
  <2>1. /\ pc[w] = "loop" /\ UNCHANGED <<api, conn, exit>>
        /\ pc' = [pc EXCEPT ![w] = IF exit[api[w]] = 0 THEN "poll" ELSE "reset"]
    BY <1>4 DEF EnterPoll, LeaveLoop, workVars
  <2>2. Moves(w, IF exit[api[w]] = 0 THEN "poll" ELSE "reset", conn[w], exit[api[w]])
    BY <1>3, <2>1, GoesOn
  <2>3. QED
    BY <1>1, <1>2, <2>1, <2>2, MovesSeen DEF Cgw!Test
<1>5. CASE Poll(w)
  <2>1. pc[w] = "poll" /\ Event(w, "ran")
    BY <1>5 DEF Poll, Polling
  <2>2. QED
    BY <1>1, <1>2, <2>1, EventSeen DEF Cgw!Poll
<1>6. CASE Reset(w)
  <2>1. Moves(w, "free", conn[w], 0)
    BY <1>3, <1>6, GoesOn DEF Reset
  <2>2. QED
    BY <1>1, <1>2, <1>6, <2>1, MovesSeen DEF Reset, Cgw!Reset
<1>7. CASE LastPoll(w) /\ Event(w, "close")
  BY <1>1, <1>2, <1>7, EventSeen DEF LastPoll, Cgw!LastPoll
<1>8. CASE LastPoll(w) /\ ~Event(w, "close")
  <2>1. /\ pc[w] = "free" /\ pc' = [pc EXCEPT ![w] = "close"] /\ conn[w] # "replied"
        /\ UNCHANGED <<api, conn, exit>>
    BY <1>8 DEF LastPoll, workVars
  <2>2. Moves(w, "close", conn[w], exit[api[w]])
    BY <1>3, <2>1, GoesOn
  <2>3. QED
    BY <1>1, <1>2, <2>1, <2>2, MovesSeen DEF Cgw!LastPoll, Cgw!Nothing
<1>9. CASE FreeClose(w)
  <2>1. CASE conn[w] \in {"open", "eof"} /\ RepliedAtClose(w)
    BY <1>2, <1>9, <2>1, ReplyAtCloseSeen DEF FreeClose, Cgw!FreeClose
  <2>2. CASE Closed(w, "close")
    BY <1>1, <1>2, <1>9, <2>2, ClosedSeen DEF FreeClose, Cgw!FreeClose
  <2>3. CASE Crash
    BY <2>3, OthersUnseen DEF Crash, workVars
  <2>4. QED
    BY <1>9, <2>1, <2>2, <2>3 DEF FreeClose, BadReply
<1>10. CASE Finish(w)
  <2> USE <1>10 DEF Finish, StateOK, ThreadsOK
  <2>1. api[w] # "none" /\ a # "none"
    BY DEF Apis
  <2>2. /\ api[w] = a => CgwPc(a)' = [CgwPc(a) EXCEPT ![w] = "idle"]
        /\ api[w] # a => UNCHANGED CgwPc(a)
    BY <1>3, <2>1, KindsApart DEF CgwPc
  <2>3. /\ api[w] = a => CgwConn(a)' = [CgwConn(a) EXCEPT ![w] = "none"]
        /\ api[w] # a => UNCHANGED CgwConn(a)
    BY <2>1 DEF CgwConn
  <2>4. QED
    BY <1>2, <2>2, <2>3 DEF Stutters, Cgw!Finish, Cgw!Move
<1>11. QED
  BY <1>4, <1>5, <1>6, <1>7, <1>8, <1>9, <1>10 DEF WorkerStep

\* core_state_handler starts a request: the api of it sees a thread that starts.
LEMMA SwitchImplements ==
  ASSUME StateOK, NEW a \in Apis, NEW t \in Threads, Switch(t)
  PROVE  Implements(a)
<1> USE DEF Implements
<1>1. UNCHANGED exit
  BY SwitchStarts
<1>2. CASE UNCHANGED <<pc, api, conn>>
  BY <1>1, <1>2, OthersUnseen
<1>3. ASSUME NEW d \in Downloaders, pc' = [pc EXCEPT ![d] = "run"], UNCHANGED <<api, conn>>
      PROVE  Stutters(a)
  <2>1. \A v \in Workers : pc'[v] = pc[v]
    BY <1>3, KindsApart DEF Setters, StateOK, ThreadsOK
  <2>2. QED
    BY <1>1, <1>3, <2>1, OthersUnseen
<1>4. ASSUME NEW n \in Workers, NEW b, pc[n] = "idle", b # "none",
             pc' = [pc EXCEPT ![n] = "loop"],
             conn' = [conn EXCEPT ![n] = "connecting"],
             api' = [api EXCEPT ![n] = b]
      PROVE  Cgw(a)!Next \/ Stutters(a)
  <2> USE <1>4 DEF StateOK, ThreadsOK
  <2>1. api[n] = "none" /\ a # "none" /\ \A v \in Workers : v \in Threads
    BY KindsApart DEF Apis
  <2>2. CgwPc(a)[n] = "idle"
    BY <2>1, Mapped
  <2>3. /\ b = a => CgwPc(a)' = [CgwPc(a) EXCEPT ![n] = "loop"]
        /\ b # a => UNCHANGED CgwPc(a)
    BY <2>1 DEF CgwPc
  <2>4. /\ b = a => CgwConn(a)' = [CgwConn(a) EXCEPT ![n] = "connecting"]
        /\ b # a => UNCHANGED CgwConn(a)
    BY <2>1 DEF CgwConn
  <2>5. CASE b = a
    BY <1>1, <2>2, <2>3, <2>4, <2>5 DEF Cgw!Next, Cgw!Start, Cgw!Move
  <2>6. CASE b # a
    BY <1>1, <2>3, <2>4, <2>6 DEF Stutters
  <2>7. QED
    BY <2>5, <2>6
<1>5. QED
  BY <1>2, <1>3, <1>4, SwitchStarts

\* Every step of the server.
LEMMA StepImplements ==
  ASSUME StateOK, [Next]_vars, NEW a \in Apis
  PROVE  Implements(a)
<1> USE DEF Implements
<1>1. ASSUME NEW t \in Threads, ReleaseLock(t)
      PROVE  Implements(a)
  <2>1. /\ pc[t] # "idle" /\ UNCHANGED <<api, conn, exit>>
        /\ pc' = [pc EXCEPT ![t] = IF t \in Setters THEN "done" ELSE "loop"]
    BY <1>1 DEF ReleaseLock, workVars
  <2>2. CASE t \notin Workers
    <3>1. \A v \in Workers : pc'[v] = pc[v]
      BY <2>1, <2>2 DEF StateOK, ThreadsOK
    <3>2. QED
      BY <2>1, <3>1, OthersUnseen
  <2>3. CASE t \in Workers /\ pc[t] = "ran"
    <3>1. CgwPc(a)' = CgwPc(a)
      BY <2>1, <2>3, KindsApart DEF CgwPc, StateOK, ThreadsOK
    <3>2. CgwConn(a)' = CgwConn(a)
      BY <2>1 DEF CgwConn
    <3>3. QED
      BY <2>1, <3>1, <3>2 DEF Stutters
  <2>4. CASE t \in Workers /\ pc[t] = "poll" /\ conn[t] # "replied"
    <3>1. conn = [conn EXCEPT ![t] = conn[t]] /\ t \notin Setters
      BY <2>4, KindsApart DEF StateOK, ThreadsOK
    <3>2. Moves(t, "loop", conn[t], exit[api[t]])
      BY <2>1, <2>4, <3>1, GoesOn
    <3>3. Seen("loop") = "loop"
      BY DEF Seen
    <3>4. QED
      BY <2>1, <2>4, <3>2, <3>3, MovesSeen, SeenAsItIs
         DEF Cgw!Next, Cgw!Thread, Cgw!Poll, Cgw!Nothing
  <2>5. QED
    BY <1>1, <2>2, <2>3, <2>4, KindsApart DEF ReleaseLock
<1>2. ASSUME NEW t \in Threads, Wait(t) \/ TakeLock(t) \/ LateStore(t)
      PROVE  Implements(a)
  BY <1>2, OthersUnseen DEF Wait, TakeLock, LateStore, workVars
<1>3. ASSUME NEW t \in Threads \ Workers, NEW p,
             pc' = pc \/ pc' = [pc EXCEPT ![t] = p], UNCHANGED workVars
      PROVE  Implements(a)
  <2>1. \A v \in Workers : pc'[v] = pc[v]
    BY <1>3, KindsApart DEF StateOK, ThreadsOK
  <2>2. QED
    BY <1>3, <2>1, OthersUnseen DEF workVars
<1>4. CASE MainStep
  <2>1. (pc' = pc \/ pc' = [pc EXCEPT ![Main] = "ran"]) /\ UNCHANGED workVars
    BY <1>4 DEF MainStep, MainCheck, DmcAccept, Manifest
  <2>2. QED
    BY <1>3, <2>1, KindsApart
<1>5. CASE HmiStep
  <2>1. /\ pc' = pc \/ \E p : pc' = [pc EXCEPT ![Hmi] = p]
        /\ UNCHANGED workVars
    BY <1>5 DEF HmiStep, HmiConnects, HmiStarts, HmiUpgrades
  <2>2. QED
    BY <1>3, <2>1, KindsApart
<1>6. ASSUME NEW t \in Setters, CurlStep(t)
      PROVE  Implements(a)
  <2>1. /\ pc' = pc \/ \E p : pc' = [pc EXCEPT ![t] = p]
        /\ UNCHANGED workVars
    BY <1>6 DEF CurlStep, PopenFails, Downloaded, Uploaded, Crash
  <2>2. QED
    BY <1>3, <2>1, KindsApart
<1>7. ASSUME NEW t \in Threads, Step(t)
      PROVE  Implements(a)
  BY <1>1, <1>2, <1>4, <1>5, <1>6, <1>7, WorkerImplements, SwitchImplements
     DEF Step, Outside, LockStep
<1>8. CASE UNCHANGED vars
  BY <1>8, OthersUnseen DEF vars, workVars
<1>9. QED
  BY <1>7, <1>8 DEF Next

\* The four instances of DlcServer are Cgw of the four apis.
LEMMA Instances ==
  /\ Cgw("pkg_new")!Next => PkgNew!Next
  /\ Cgw("pkg_stat")!Next => PkgStat!Next
  /\ Cgw("tdr_run")!Next => TdrRun!Next
  /\ Cgw("tdr_stat")!Next => TdrStat!Next
<1> USE DEF Cgw!Next, Cgw!Start, Cgw!Thread, Cgw!Test, Cgw!Poll, Cgw!Reset,
            Cgw!LastPoll, Cgw!FreeClose, Cgw!Finish, Cgw!Event, Cgw!Nothing,
            Cgw!ConnectOk, Cgw!ConnectFails, Cgw!ErrorEnds, Cgw!Reply,
            Cgw!ReplyEnds, Cgw!ReplyMayNot, Cgw!ReplyAtClose, Cgw!PeerCloses,
            Cgw!Close, Cgw!Move
<1>1. Cgw("pkg_new")!Next => PkgNew!Next
  BY DEF PkgNew!Next, PkgNew!Start, PkgNew!Thread, PkgNew!Test, PkgNew!Poll,
         PkgNew!Reset, PkgNew!LastPoll, PkgNew!FreeClose, PkgNew!Finish,
         PkgNew!Event, PkgNew!Nothing, PkgNew!ConnectOk, PkgNew!ConnectFails,
         PkgNew!ErrorEnds, PkgNew!Reply, PkgNew!ReplyEnds, PkgNew!ReplyMayNot,
         PkgNew!ReplyAtClose, PkgNew!PeerCloses, PkgNew!Close, PkgNew!Move
<1>2. Cgw("pkg_stat")!Next => PkgStat!Next
  BY DEF PkgStat!Next, PkgStat!Start, PkgStat!Thread, PkgStat!Test, PkgStat!Poll,
         PkgStat!Reset, PkgStat!LastPoll, PkgStat!FreeClose, PkgStat!Finish,
         PkgStat!Event, PkgStat!Nothing, PkgStat!ConnectOk, PkgStat!ConnectFails,
         PkgStat!ErrorEnds, PkgStat!Reply, PkgStat!ReplyEnds, PkgStat!ReplyMayNot,
         PkgStat!ReplyAtClose, PkgStat!PeerCloses, PkgStat!Close, PkgStat!Move
<1>3. Cgw("tdr_run")!Next => TdrRun!Next
  BY DEF TdrRun!Next, TdrRun!Start, TdrRun!Thread, TdrRun!Test, TdrRun!Poll,
         TdrRun!Reset, TdrRun!LastPoll, TdrRun!FreeClose, TdrRun!Finish,
         TdrRun!Event, TdrRun!Nothing, TdrRun!ConnectOk, TdrRun!ConnectFails,
         TdrRun!ErrorEnds, TdrRun!Reply, TdrRun!ReplyEnds, TdrRun!ReplyMayNot,
         TdrRun!ReplyAtClose, TdrRun!PeerCloses, TdrRun!Close, TdrRun!Move
<1>4. Cgw("tdr_stat")!Next => TdrStat!Next
  BY DEF TdrStat!Next, TdrStat!Start, TdrStat!Thread, TdrStat!Test, TdrStat!Poll,
         TdrStat!Reset, TdrStat!LastPoll, TdrStat!FreeClose, TdrStat!Finish,
         TdrStat!Event, TdrStat!Nothing, TdrStat!ConnectOk, TdrStat!ConnectFails,
         TdrStat!ErrorEnds, TdrStat!Reply, TdrStat!ReplyEnds, TdrStat!ReplyMayNot,
         TdrStat!ReplyAtClose, TdrStat!PeerCloses, TdrStat!Close, TdrStat!Move
<1>5. QED
  BY <1>1, <1>2, <1>3, <1>4

\* Whatever requests the handlers start, and however they overlap, the threads of each
\* api and its cgw_thread_exit behave as CgwThread says: the module leaves out no
\* store to the flag, and no event that the last poll of mg_mgr_free delivers.
THEOREM ServerRunsCgwThreads == Spec => WorkerProtocol
<1>1. Init => PkgNew!Init /\ PkgStat!Init /\ TdrRun!Init /\ TdrStat!Init
  <2> SUFFICES ASSUME Init PROVE \A a \in Apis : Cgw(a)!Init
    BY DEF Apis, Cgw!Init, PkgNew!Init, PkgStat!Init, TdrRun!Init, TdrStat!Init
  <2> TAKE a \in Apis
  <2>1. a # "none"
    BY DEF Apis
  <2>2. CgwPc(a) = [w \in Workers |-> "idle"] /\ CgwConn(a) = [w \in Workers |-> "none"]
    BY <2>1 DEF Init, CgwPc, CgwConn
  <2>3. QED
    BY <2>2 DEF Init, Cgw!Init
<1>2. StateOK /\ [Next]_vars => StateOK'
  BY StepOK
<1>3. ASSUME StateOK, [Next]_vars
      PROVE  \A a \in Apis : Implements(a)
  BY <1>3, StepImplements
<1>4. StateOK /\ [Next]_vars => [PkgNew!Next]_(PkgNew!vars)
  BY <1>3, Instances DEF Implements, Stutters, Apis, PkgNew!vars
<1>5. StateOK /\ [Next]_vars => [PkgStat!Next]_(PkgStat!vars)
  BY <1>3, Instances DEF Implements, Stutters, Apis, PkgStat!vars
<1>6. StateOK /\ [Next]_vars => [TdrRun!Next]_(TdrRun!vars)
  BY <1>3, Instances DEF Implements, Stutters, Apis, TdrRun!vars
<1>7. StateOK /\ [Next]_vars => [TdrStat!Next]_(TdrStat!vars)
  BY <1>3, Instances DEF Implements, Stutters, Apis, TdrStat!vars
<1>8. QED
  BY <1>1, <1>2, <1>4, <1>5, <1>6, <1>7, InitOK, PTL
     DEF Spec, WorkerProtocol, PkgNew!Spec, PkgStat!Spec, TdrRun!Spec, TdrStat!Spec
=============================================================================
