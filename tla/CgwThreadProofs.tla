-------------------------- MODULE CgwThreadProofs ---------------------------
(***************************************************************************)
(* The threads of one api, for any number of them; and the one use of      *)
(* cgw_msg_thread that does what its comment says: tdr_run requests that   *)
(* follow each other.                                                      *)
(***************************************************************************)
EXTENDS CgwThread, TLAPS

\* The flag, the slots and the connections keep their types, and a slot has a
\* connection exactly while a thread of cgw_msg_thread uses it, whatever the api.
THEOREM CgwTyping == Spec => []TypeOK
<1>1. Init => TypeOK
  BY DEF Init, TypeOK, PCs, Conns
<1>2. TypeOK /\ [Next]_vars => TypeOK'
  <2> SUFFICES ASSUME TypeOK, [Next]_vars
               PROVE  TypeOK'
    OBVIOUS
  <2> USE DEF TypeOK, PCs, Conns
  <2>1. ASSUME NEW w \in Workers, Start(w)
        PROVE  TypeOK'
    BY <2>1 DEF Start, Move
  <2>2. ASSUME NEW w \in Workers, Test(w)
        PROVE  TypeOK'
    BY <2>2 DEF Test, Move
  <2>3. ASSUME NEW w \in Workers, NEW p \in {"loop", "close"},
               pc[w] # "idle", Event(w, p)
        PROVE  TypeOK'
    <3>1. CASE ConnectOk(w, p) \/ ConnectFails(w, p) \/ Reply(w, p)
      BY <2>3, <3>1 DEF ConnectOk, ConnectFails, Reply, Move
    <3>2. CASE PeerCloses(w, p) \/ Close(w, p)
      BY <2>3, <3>2 DEF PeerCloses, Close, Move
    <3>3. CASE ReplyAtClose(w)
      BY <2>3, <3>3 DEF ReplyAtClose, Move
    <3>4. QED
      BY <2>3, <3>1, <3>2, <3>3 DEF Event
  <2>4. ASSUME NEW w \in Workers, NEW p \in {"loop", "close"},
               pc[w] # "idle", Nothing(w, p)
        PROVE  TypeOK'
    BY <2>4 DEF Nothing, Move
  <2>5. ASSUME NEW w \in Workers, Reset(w)
        PROVE  TypeOK'
    BY <2>5 DEF Reset, Move
  <2>6. ASSUME NEW w \in Workers, FreeClose(w)
        PROVE  TypeOK'
    <3>1. CASE Close(w, "close")
      BY <2>6, <3>1 DEF FreeClose, Close, Move
    <3>2. CASE ReplyAtClose(w)
      BY <2>6, <3>2 DEF FreeClose, ReplyAtClose, Move
    <3>3. QED
      BY <2>6, <3>1, <3>2 DEF FreeClose
  <2>7. ASSUME NEW w \in Workers, Finish(w)
        PROVE  TypeOK'
    BY <2>7 DEF Finish, Move
  <2>8. CASE UNCHANGED vars
    BY <2>8 DEF vars
  <2>9. QED
    BY <2>1, <2>2, <2>3, <2>4, <2>5, <2>6, <2>7, <2>8
       DEF Next, Thread, Poll, LastPoll
<1>3. QED
  BY <1>1, <1>2, PTL DEF Spec

-----------------------------------------------------------------------------
(* tdr_run, one request at a time.  The flag is set by the close of the    *)
(* connection alone, which happens inside the loop: so it is up exactly    *)
(* between that close and the reset, and mg_mgr_free finds nothing to do.  *)

OneLive ==
  \A v, w \in Workers : pc[v] # "idle" /\ pc[w] # "idle" => v = w

ClosedBeforeExit ==
  \A w \in Workers : pc[w] \in {"reset", "free", "close"} => conn[w] = "closed"

PollsConnected == \A w \in Workers : pc[w] = "poll" => conn[w] # "closed"

FlagOwned ==
  exit = 1 <=> \E w \in Workers : conn[w] = "closed" /\ pc[w] \in {"loop", "reset"}

SerialInv ==
  TypeOK /\ OneLive /\ ClosedBeforeExit /\ PollsConnected /\ FlagOwned

\* The invariant behind the two theorems below, kept by every step of the
\* threads as long as the reply handler of the api leaves the flag alone.
LEMMA SerialInvariant ==
  ASSUME Serial, Api = "tdr_run"
  PROVE  Spec => []SerialInv
<1>1. Init => SerialInv
  BY CgwTyping DEF Init, SerialInv, OneLive, ClosedBeforeExit, PollsConnected,
     FlagOwned, TypeOK, PCs, Conns
<1>2. SerialInv /\ TypeOK' /\ [Next]_vars => SerialInv'
  <2> SUFFICES ASSUME SerialInv, TypeOK', [Next]_vars
               PROVE  SerialInv'
    OBVIOUS
  <2> USE DEF SerialInv, TypeOK, PCs, Conns,
              OneLive, ClosedBeforeExit, PollsConnected, FlagOwned
  <2>1. ASSUME NEW w \in Workers, Start(w)
        PROVE  SerialInv'
    BY <2>1 DEF Start, Move
  <2>2. ASSUME NEW w \in Workers, Test(w)
        PROVE  SerialInv'
    <3>1. pc[w] = "loop" /\ conn' = conn /\ exit' = exit
      BY <2>2 DEF Test, Move
    <3>2. CASE exit = 0
      BY <2>2, <3>1, <3>2 DEF Test, Move
    <3>3. CASE exit = 1
      BY <2>2, <3>1, <3>3 DEF Test, Move
    <3>4. QED
      BY <3>2, <3>3
  <2>3. ASSUME NEW w \in Workers, pc[w] = "poll",
               Event(w, "loop") \/ Nothing(w, "loop")
        PROVE  SerialInv'
    <3>1. exit = 0
      BY <2>3
    <3>2. CASE ConnectOk(w, "loop") \/ ConnectFails(w, "loop")
               \/ PeerCloses(w, "loop") \/ Nothing(w, "loop")
      BY <2>3, <3>1, <3>2
         DEF ConnectOk, ConnectFails, PeerCloses, Nothing, Move, ErrorEnds
    <3>3. CASE Close(w, "loop")
      BY <2>3, <3>1, <3>3 DEF Close, Move
    <3>4. ~Reply(w, "loop") /\ ~ReplyAtClose(w)
      BY DEF Reply, ReplyAtClose, ReplyEnds, ReplyMayNot
    <3>5. QED
      BY <2>3, <3>2, <3>3, <3>4 DEF Event
  <2>4. ASSUME NEW w \in Workers, Reset(w)
        PROVE  SerialInv'
    BY <2>4 DEF Reset, Move
  <2>5. ASSUME NEW w \in Workers, pc[w] = "free",
               Event(w, "close") \/ Nothing(w, "close")
        PROVE  SerialInv'
    <3>1. conn[w] = "closed"
      BY <2>5
    <3>2. CASE Nothing(w, "close")
      BY <2>5, <3>1, <3>2 DEF Nothing, Move
    <3>3. ~Event(w, "close")
      BY <3>1 DEF Event, ConnectOk, ConnectFails, Reply, PeerCloses
    <3>4. QED
      BY <2>5, <3>2, <3>3
  <2>6. ASSUME NEW w \in Workers, FreeClose(w)
        PROVE  FALSE
    BY <2>6 DEF FreeClose
  <2>7. ASSUME NEW w \in Workers, Finish(w)
        PROVE  SerialInv'
    BY <2>7 DEF Finish, Move
  <2>8. CASE UNCHANGED vars
    BY <2>8 DEF vars
  <2>9. QED
    BY <2>1, <2>2, <2>3, <2>4, <2>5, <2>6, <2>7, <2>8
       DEF Next, Thread, Poll, LastPoll
<1>3. QED
  BY <1>1, <1>2, CgwTyping, PTL DEF Spec

\* "run until one api request end" (dlc_server.c:1113) holds of tdr_run, whose
\* handler leaves the connection to the peer, as long as requests do not overlap.
THEOREM TdrRunRunsToEnd ==
  ASSUME Serial, Api = "tdr_run"
  PROVE  Spec => []RunsUntilRequestEnd
<1>1. SerialInv => RunsUntilRequestEnd
  BY DEF SerialInv, ClosedBeforeExit, RunsUntilRequestEnd
<1>2. QED
  BY <1>1, SerialInvariant, PTL

\* And the next tdr_run request finds the flag down: line 1119 clears it when
\* nothing is left that could set it again.
THEOREM TdrRunFlagDown ==
  ASSUME Serial, Api = "tdr_run"
  PROVE  Spec => []FlagDownWhenIdle
<1>1. SerialInv => FlagDownWhenIdle
  BY DEF SerialInv, TypeOK, FlagOwned, FlagDownWhenIdle
<1>2. QED
  BY <1>1, SerialInvariant, PTL
=============================================================================
