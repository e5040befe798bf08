--------------------------- MODULE StatLockProofs ---------------------------
(***************************************************************************)
(* What holds of g_stat_lock for any threads and any timeout.              *)
(***************************************************************************)
EXTENDS StatLock, TLAPS

\* The byte, the places and the waits keep their types, whatever the threads:
\* no interleaving of wait_stat_unlocked (dlc_server.c:115-125) sleeps more than
\* Samples times.
THEOREM LockTyping == Spec => []TypeOK
<1>1. Init => TypeOK
  BY StatLockAssumption DEF Init, TypeOK, Places, Threads
<1>2. TypeOK /\ [Next]_vars => TypeOK'
  <2> SUFFICES ASSUME TypeOK, [Next]_vars
               PROVE  TypeOK'
    OBVIOUS
  <2> USE StatLockAssumption DEF TypeOK, Places, Threads
  <2>1. CASE MainCheck
    BY <2>1 DEF MainCheck
  <2>2. ASSUME NEW t \in Threads, BeginWait(t)
        PROVE  TypeOK'
    BY <2>2 DEF BeginWait
  <2>3. ASSUME NEW t \in Threads, WaitSample(t)
        PROVE  TypeOK'
    BY <2>3 DEF WaitSample
  <2>4. ASSUME NEW t \in Threads, WaitDone(t)
        PROVE  TypeOK'
    BY <2>4 DEF WaitDone
  <2>5. ASSUME NEW t \in Threads, Take(t)
        PROVE  TypeOK'
    BY <2>5 DEF Take
  <2>6. ASSUME NEW t \in Threads, Release(t)
        PROVE  TypeOK'
    BY <2>6 DEF Release
  <2>7. CASE UNCHANGED vars
    BY <2>7 DEF vars
  <2>8. QED
    BY <2>1, <2>2, <2>3, <2>4, <2>5, <2>6, <2>7 DEF Next
<1>3. QED
  BY <1>1, <1>2, PTL DEF Spec

\* The byte is set only while some thread is between its store of 1 and its
\* store of 0 (main 1261-1263, cgw_msg_thread 1114-1116, lock()/unlock()): a
\* thread that ends or sleeps never leaves the others locked out.
THEOREM LockNeverOrphaned == Spec => []NoOrphanLock
<1>1. Init => NoOrphanLock
  BY DEF Init, NoOrphanLock
<1>2. TypeOK /\ NoOrphanLock /\ [Next]_vars => NoOrphanLock'
  <2> SUFFICES ASSUME TypeOK, NoOrphanLock, [Next]_vars, g_stat_lock' = 1
               PROVE  \E t \in Threads : at'[t] = "in"
    BY DEF NoOrphanLock
  <2>1. ASSUME NEW t \in Threads, Take(t)
        PROVE  at'[t] = "in"
    BY <2>1 DEF Take, TypeOK
  <2>2. ASSUME NEW t \in Threads, Release(t)
        PROVE  FALSE
    BY <2>2 DEF Release
  <2>3. CASE \/ MainCheck
             \/ \E t \in Threads : BeginWait(t) \/ WaitSample(t) \/ WaitDone(t)
    \* The byte was set before the step, so somebody was in, and no such step
    \* moves a thread that is in.
    <3>1. g_stat_lock = 1
      BY <2>3 DEF MainCheck, BeginWait, WaitSample, WaitDone
    <3>2. PICK s \in Threads : at[s] = "in"
      BY <3>1 DEF NoOrphanLock
    <3>3. at'[s] = "in"
      BY <2>3, <3>2 DEF MainCheck, BeginWait, WaitSample, WaitDone, TypeOK
    <3>4. QED
      BY <3>3
  <2>4. CASE UNCHANGED vars
    BY <2>4 DEF vars, NoOrphanLock
  <2>5. QED
    BY <2>1, <2>2, <2>3, <2>4 DEF Next
<1>3. QED
  BY <1>1, <1>2, LockTyping, PTL DEF Spec
=============================================================================
