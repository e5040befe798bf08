------------------------------ MODULE StatLock ------------------------------
(***************************************************************************)
(* g_stat_lock of dlc_server.c: one byte that the threads of the server    *)
(* read, set and clear around the work they do on the shared context.      *)
(*                                                                         *)
(* Three kinds of threads use it, and none of them tests and sets it in    *)
(* one step:                                                               *)
(*  - Main, the DMC loop of main(), looks at the byte and, when it is      *)
(*    clear, sets it in the next statement; when it is set it sleeps and   *)
(*    looks again;                                                         *)
(*  - Waiters, the threads that call wait_stat_unlocked (cgw_msg_thread    *)
(*    and the HMI thread), sample the byte once a second, at most Samples  *)
(*    times, and then go on whether it is clear or not;                    *)
(*  - Setters, the downloader and uploader threads, set it without looking.*)
(* Everybody clears it when done, whoever set it.                          *)
(***************************************************************************)
EXTENDS Naturals

CONSTANTS
  Main,      \* the thread of main()
  Waiters,   \* threads that wait, with a timeout, before they set the byte
  Setters,   \* threads that set the byte blindly
  Samples    \* sleeps of wait_stat_unlocked(1000): 10 in the code

ASSUME StatLockAssumption ==
  /\ Main \notin Waiters \cup Setters
  /\ Waiters \cap Setters = {}
  /\ Samples \in Nat

VARIABLES
  g_stat_lock,  \* the byte
  at,           \* where each thread is with respect to it
  waited        \* sleeps of its current wait, per thread

vars == <<g_stat_lock, at, waited>>

Threads == {Main} \cup Waiters \cup Setters

\* "out": elsewhere; "wait": in wait_stat_unlocked; "pass": the test is behind,
\* the store is not; "in": between the store of 1 and the store of 0.
Places == {"out", "wait", "pass", "in"}

Init ==
  /\ g_stat_lock = 0
  /\ at = [t \in Threads |-> "out"]
  /\ waited = [t \in Threads |-> 0]

-----------------------------------------------------------------------------
(* Operations *)

\* if (g_stat_lock) { sleep(1); continue; }  -- the branch that goes on.
MainCheck ==
  /\ at[Main] = "out"
  /\ g_stat_lock = 0
  /\ at' = [at EXCEPT ![Main] = "pass"]
  /\ UNCHANGED <<g_stat_lock, waited>>

\* A call of wait_stat_unlocked.
BeginWait(t) ==
  /\ t \in Waiters
  /\ at[t] = "out"
  /\ at' = [at EXCEPT ![t] = "wait"]
  /\ UNCHANGED <<g_stat_lock, waited>>

\* Mutant: the timeout is tested after one more sleep.
WaitSampleOneMore(t) ==
  /\ at[t] = "wait"
  /\ g_stat_lock = 1
  /\ waited[t] <= Samples
  /\ waited' = [waited EXCEPT ![t] = @ + 1]
  /\ UNCHANGED <<g_stat_lock, at>>

\* The loop of wait_stat_unlocked: the byte is set and time is left.
WaitSample(t) ==
  /\ at[t] = "wait"
  /\ g_stat_lock = 1
  /\ waited[t] < Samples
  /\ waited' = [waited EXCEPT ![t] = @ + 1]
  /\ UNCHANGED <<g_stat_lock, at>>

\* Mutant: the wait has no timeout.
WaitDoneNoTimeout(t) ==
  /\ at[t] = "wait"
  /\ g_stat_lock = 0
  /\ at' = [at EXCEPT ![t] = "pass"]
  /\ UNCHANGED <<g_stat_lock, waited>>

\* It returns: the byte is clear, or the time is up. The callers go on either way.
WaitDone(t) ==
  /\ at[t] = "wait"
  /\ g_stat_lock = 0 \/ waited[t] = Samples
  /\ at' = [at EXCEPT ![t] = "pass"]
  /\ waited' = [waited EXCEPT ![t] = 0]
  /\ UNCHANGED g_stat_lock

\* g_stat_lock = 1, a plain store.
Take(t) ==
  /\ at[t] = IF t \in Setters THEN "out" ELSE "pass"
  /\ g_stat_lock' = 1
  /\ at' = [at EXCEPT ![t] = "in"]
  /\ UNCHANGED waited

\* Mutant: the unlock is forgotten on the way out.
ReleaseKeepsByte(t) ==
  /\ at[t] = "in"
  /\ at' = [at EXCEPT ![t] = "out"]
  /\ UNCHANGED <<g_stat_lock, waited>>

\* g_stat_lock = 0, a plain store.
Release(t) ==
  /\ at[t] = "in"
  /\ g_stat_lock' = 0
  /\ at' = [at EXCEPT ![t] = "out"]
  /\ UNCHANGED waited

Next ==
  \/ MainCheck
  \/ \E t \in Threads :
       BeginWait(t) \/ WaitSample(t) \/ WaitDone(t) \/ Take(t) \/ Release(t)

Spec == Init /\ [][Next]_vars

\* What a thread does once it is on its way: it is scheduled again, and the
\* work it does with the byte set is finite. Nobody has to start.
Progress(t) ==
  \/ WaitSample(t)
  \/ WaitDone(t)
  \/ at[t] = "pass" /\ Take(t)
  \/ Release(t)

Fairness ==
  /\ WF_vars(MainCheck)
  /\ \A t \in Threads : WF_vars(Progress(t))

FairSpec == Spec /\ Fairness

-----------------------------------------------------------------------------
(* Properties *)

\* Every variable stays in its type: the byte is 0 or 1, a wait is never longer
\* than Samples sleeps, and only Waiters are ever inside wait_stat_unlocked.
TypeOK ==
  /\ g_stat_lock \in {0, 1}
  /\ at \in [Threads -> Places]
  /\ waited \in [Threads -> 0..Samples]
  /\ \A t \in Threads : at[t] = "wait" => t \in Waiters

\* The byte is never left set by a thread that is gone: whenever it is 1, some
\* thread is still between its store of 1 and its store of 0 (main 1261-1263,
\* cgw_msg_thread 1114-1116, lock()/unlock() of the HMI and uploader threads).
NoOrphanLock ==
  g_stat_lock = 1 => \E t \in Threads : at[t] = "in"

\* The byte is never stuck at 1, although any thread may set it over another's.
LockEventuallyClear == g_stat_lock = 1 ~> g_stat_lock = 0

\* A thread that calls wait_stat_unlocked gets to work, if only by its timeout.
WaiterServed == \A t \in Waiters : at[t] = "wait" ~> at[t] = "in"

\* main() has no timeout: it polls again and again once the others have stopped.
\* (While they have not, it may find the byte set at every look.)
MainPollsWhenQuiet ==
  (<>[](\A t \in Threads \ {Main} : at[t] = "out")) => []<>(at[Main] = "in")
=============================================================================
