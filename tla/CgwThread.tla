----------------------------- MODULE CgwThread ------------------------------
(***************************************************************************)
(* The threads that run cgw_msg_thread for one request of the orchestrator *)
(* (CGW) and the exit flag they share.                                     *)
(*                                                                         *)
(* A thread owns a mongoose manager with a single HTTP connection.  It     *)
(* polls until the flag of its api (bs_cgw_api_handler.cgw_thread_exit) is *)
(* set by the api's event handler, clears the flag and frees the manager.  *)
(* mg_mgr_free polls a last time and closes what is still connected, and   *)
(* the handler hears of that too.  The lock around a poll is the business  *)
(* of StatLock and of DlcServer, and is left out here.                     *)
(*                                                                         *)
(* Which threads are started is not decided here: Start may happen at any  *)
(* time, or, with Serial, when no other thread of the api is left.         *)
(***************************************************************************)

CONSTANTS
  Workers,   \* slots for threads of this api
  Api,       \* which request
  Serial     \* TRUE: callers start the next request when the last is over

Apis == {"pkg_new", "pkg_stat", "tdr_run", "tdr_stat"}

ASSUME CgwThreadAssumption == Api \in Apis /\ Serial \in BOOLEAN

VARIABLES
  exit,  \* cgw_thread_exit of the api
  pc,    \* where each thread is; "idle": no thread in this slot
  conn   \* its connection

vars == <<exit, pc, conn>>

PCs == {"idle", "loop", "poll", "reset", "free", "close"}

\* "eof": the peer has closed and mongoose has marked the connection; "closing":
\* MG_F_CLOSE_IMMEDIATELY is set; "replied": the reply was delivered because the
\* connection is being closed; "closed": MG_EV_CLOSE was delivered.
Conns == {"none", "connecting", "open", "eof", "closing", "replied", "closed"}

\* After a reply all handlers close, but for that of tdr_run, and for that of
\* pkg_stat when the reply says that it is not the last; the handlers of pkg_stat
\* and tdr_stat look at the error of MG_EV_CONNECT and end.
ReplyEnds   == Api # "tdr_run"
ReplyMayNot == Api = "pkg_stat"
ErrorEnds   == Api \in {"pkg_stat", "tdr_stat"}

Init ==
  /\ exit = 0
  /\ pc = [w \in Workers |-> "idle"]
  /\ conn = [w \in Workers |-> "none"]

-----------------------------------------------------------------------------
(* Events of the connection, delivered in one poll; p is where it leaves w *)

Move(w, p, c) ==
  /\ pc' = [pc EXCEPT ![w] = p]
  /\ conn' = [conn EXCEPT ![w] = c]

\* Mutant: MG_EV_CONNECT sets the flag as the reply does.
ConnectOkEnds(w, p) ==
  /\ conn[w] = "connecting"
  /\ Move(w, p, "open")
  /\ exit' = 1

\* MG_EV_CONNECT without an error.
ConnectOk(w, p) ==
  /\ conn[w] = "connecting"
  /\ Move(w, p, "open")
  /\ UNCHANGED exit

\* mongoose closes a connection that failed; the handler is told before.
ConnectFails(w, p) ==
  /\ conn[w] = "connecting"
  /\ Move(w, p, "closing")
  /\ exit' = IF ErrorEnds THEN 1 ELSE exit

\* A reply that the handler is content with; the one of tdr_run only logs it.
Reply(w, p) ==
  /\ ReplyEnds
  /\ conn[w] = "open"
  /\ Move(w, p, "closing")
  /\ exit' = 1

\* The reply that HTTP ends by closing; the close follows in the same poll.
ReplyAtClose(w) ==
  /\ conn[w] \in {"open", "eof"}
  /\ Move(w, pc[w], "replied")
  /\ \/ ReplyEnds /\ exit' = 1
     \/ ReplyMayNot /\ UNCHANGED exit

PeerCloses(w, p) ==
  /\ conn[w] = "open"
  /\ Move(w, p, "eof")
  /\ UNCHANGED exit

\* Mutant: the close handler does not end the thread.
CloseKeepsFlag(w, p) ==
  /\ Move(w, p, "closed")
  /\ UNCHANGED exit

\* MG_EV_CLOSE: the handler sets the flag unless it is set already.
Close(w, p) ==
  /\ Move(w, p, "closed")
  /\ exit' = 1

Event(w, p) ==
  \/ ConnectOk(w, p)
  \/ ConnectFails(w, p)
  \/ Reply(w, p)
  \/ PeerCloses(w, p)
  \/ conn[w] = "eof" /\ ReplyAtClose(w)
  \/ conn[w] \in {"eof", "closing", "replied"} /\ Close(w, p)

\* A poll in which nothing happens to the connection that the flag notices.
Nothing(w, p) == conn[w] # "replied" /\ Move(w, p, conn[w]) /\ UNCHANGED exit

-----------------------------------------------------------------------------
(* The thread *)

\* mg_start_thread up to mg_connect_http.
Start(w) ==
  /\ pc[w] = "idle"
  /\ Serial => \A v \in Workers : pc[v] = "idle"
  /\ Move(w, "loop", "connecting")
  /\ UNCHANGED exit

\* while (handler->cgw_thread_exit == 0)
Test(w) ==
  /\ pc[w] = "loop"
  /\ Move(w, IF exit = 0 THEN "poll" ELSE "reset", conn[w])
  /\ UNCHANGED exit

Poll(w) == pc[w] = "poll" /\ (Event(w, "loop") \/ Nothing(w, "loop"))

\* Mutant: the flag is not cleared for the next request.
ResetForgotten(w) ==
  /\ pc[w] = "reset"
  /\ Move(w, "free", conn[w])
  /\ UNCHANGED exit

\* handler->cgw_thread_exit = 0
Reset(w) ==
  /\ pc[w] = "reset"
  /\ Move(w, "free", conn[w])
  /\ exit' = 0

\* mg_mgr_free: its last poll, then whatever is still connected is closed.
LastPoll(w) == pc[w] = "free" /\ (Event(w, "close") \/ Nothing(w, "close"))

FreeClose(w) ==
  /\ pc[w] = "close"
  /\ conn[w] # "closed"
  /\ Close(w, "close") \/ ReplyAtClose(w)

\* Mutant: the thread returns before mg_mgr_free has closed its connection.
FinishEarly(w) ==
  /\ pc[w] = "close"
  /\ Move(w, "idle", conn[w])
  /\ UNCHANGED exit

\* The thread returns.
Finish(w) ==
  /\ pc[w] = "close"
  /\ conn[w] = "closed"
  /\ Move(w, "idle", "none")
  /\ UNCHANGED exit

Thread(w) ==
  Test(w) \/ Poll(w) \/ Reset(w) \/ LastPoll(w) \/ FreeClose(w) \/ Finish(w)

Next == \E w \in Workers : Start(w) \/ Thread(w)

Spec == Init /\ [][Next]_vars

\* Threads run; a connect succeeds or fails in the end; a peer that is not
\* closed upon closes in the end; a marked connection is closed by a later poll.
Fairness ==
  \A w \in Workers :
    /\ WF_vars(Thread(w))
    /\ SF_vars(pc[w] = "poll" /\ (ConnectOk(w, "loop") \/ ConnectFails(w, "loop")))
    /\ SF_vars(pc[w] = "poll" /\ PeerCloses(w, "loop"))
    /\ SF_vars(pc[w] = "poll" /\ conn[w] \in {"eof", "closing"} /\ Close(w, "loop"))

FairSpec == Spec /\ Fairness

-----------------------------------------------------------------------------
(* Properties *)

\* Slots, connections and the flag keep their types, and a slot has a
\* connection exactly while it has a thread.
TypeOK ==
  /\ exit \in {0, 1}
  /\ pc \in [Workers -> PCs]
  /\ conn \in [Workers -> Conns]
  /\ \A w \in Workers : pc[w] = "idle" <=> conn[w] = "none"

\* dlc_server.c:1113, "run until one api request end": a thread is out of its
\* loop only when its own request is over -- answered, failed, or closed upon.
RunsUntilRequestEnd ==
  \A w \in Workers :
    pc[w] \in {"reset", "free", "close"} => conn[w] \in {"eof", "closing", "replied", "closed"}

\* The flag is down between requests: what ends one thread does not reach the
\* next one (line 1119 clears it once, and the close of mg_mgr_free comes later).
FlagDownWhenIdle == (\A w \in Workers : pc[w] = "idle") => exit = 0

\* A thread that starts a request ends: its slot is free again.
ThreadEnds == \A w \in Workers : pc[w] = "loop" ~> pc[w] = "idle"

\* When requests of one api overlap, the flag one thread sets may be cleared by
\* another, which leaves the first in its loop for ever (line 1119 again): that
\* never happens to all of them.
SomeThreadEnds ==
  (\A w \in Workers : pc[w] # "idle") ~> (\E w \in Workers : pc[w] = "idle")
=============================================================================
