--------------------------- MODULE PthreadOnceProofs ---------------------------
(***************************************************************************)
(* The initialiser of pthread_once runs once and has returned when a call  *)
(* returns, for any number of threads and calls.                           *)
(***************************************************************************)
EXTENDS PthreadOnce, TLAPS

Running == {"init", "finish", "finishing"}

\* g_lock is held where the control word is read and written, by one thread.
LockedInside ==
  \A t \in Threads : g_lock = t <=> pc[t] \in {"inside", "finishing"}

\* One thread at a time has claimed the control word, and it is in progress.
OneRunner ==
  /\ \A t \in Threads : pc[t] \in Running => st = 1
  /\ \A t, u \in Threads : pc[t] \in Running /\ pc[u] \in Running => t = u

\* The control word tells how far the initialiser is.
WordIsTrue ==
  /\ inits = IF st = 0 THEN 0 ELSE 1
  /\ st = 2 => done >= 1
  /\ \A t \in Threads : pc[t] \in {"finish", "finishing"} => done >= 1

\* Callers return when it is done; other threads only pass through g_lock.
ReturnedFindsDone ==
  /\ \A t \in Callers : pc[t] = "returned" => st = 2
  /\ \A t \in Others : pc[t] \in {"start", "inside", "returned"}

IInv ==
  TypeOK /\ LockedInside /\ OneRunner /\ WordIsTrue /\ ReturnedFindsDone

-----------------------------------------------------------------------------

\* The invariant holds before the first call.
LEMMA InitEstablishes == Init => IInv
<1> SUFFICES ASSUME Init PROVE IInv
  OBVIOUS
<1> USE OnceAssumption DEF Init, Threads, NoOne
<1>1. TypeOK
  BY DEF TypeOK
<1>2. LockedInside
  BY DEF LockedInside
<1>3. OneRunner
  BY DEF OneRunner, Running
<1>4. WordIsTrue
  BY DEF WordIsTrue
<1>5. ReturnedFindsDone
  BY DEF ReturnedFindsDone
<1> QED
  BY <1>1, <1>2, <1>3, <1>4, <1>5 DEF IInv

\* No step of b_once, and no passage of another thread through g_lock, breaks it.
LEMMA StepPreserves == IInv /\ [Next]_vars => IInv'
<1> SUFFICES ASSUME IInv, [Next]_vars PROVE IInv'
  OBVIOUS
<1> USE OnceAssumption
        DEF IInv, TypeOK, LockedInside, OneRunner, WordIsTrue,
            ReturnedFindsDone, Running, Threads, NoOne, Goto, Leave, FreeFor
<1>1. ASSUME NEW t \in Threads, CallOnce(t) PROVE IInv'
  BY <1>1 DEF CallOnce
<1>2. ASSUME NEW t \in Threads, LockG(t) PROVE IInv'
  BY <1>2 DEF LockG
<1>3. ASSUME NEW t \in Threads, Busy(t) PROVE IInv'
  BY <1>3 DEF Busy
<1>4. ASSUME NEW t \in Threads, Wake(t) PROVE IInv'
  BY <1>4 DEF Wake
<1>5. ASSUME NEW t \in Threads, Claim(t) PROVE IInv'
  BY <1>5 DEF Claim
<1>6. ASSUME NEW t \in Threads, InitReturns(t) PROVE IInv'
  BY <1>6 DEF InitReturns
<1>7. ASSUME NEW t \in Threads, FinishLocks(t) PROVE IInv'
  BY <1>7 DEF FinishLocks
<1>8. ASSUME NEW t \in Threads, Finish(t) PROVE IInv'
  BY <1>8 DEF Finish
<1>9. ASSUME NEW t \in Threads, Return(t) PROVE IInv'
  BY <1>9 DEF Return
<1>10. CASE UNCHANGED vars
  BY <1>10 DEF vars
<1> QED
  BY <1>1, <1>2, <1>3, <1>4, <1>5, <1>6, <1>7, <1>8, <1>9, <1>10
  DEF Next, Step

\* The control word, g_lock and the places of the threads agree at all times.
THEOREM Invariant == Spec => []IInv
<1>1. Init => IInv
  BY InitEstablishes
<1>2. IInv /\ [Next]_vars => IInv'
  BY StepPreserves
<1> QED
  BY <1>1, <1>2, PTL DEF Spec

\* The control word of b_once, g_lock and the threads keep to their values.
THEOREM TypeCorrect == Spec => []TypeOK
<1>1. IInv => TypeOK
  BY DEF IInv
<1> QED
  BY <1>1, Invariant, PTL

\* b_once runs the initialiser once, however many threads call it at once.
THEOREM InitialiserRunsOnce == Spec => []RunsOnce
<1>1. IInv => RunsOnce
  BY DEF IInv, TypeOK, WordIsTrue, RunsOnce
<1> QED
  BY <1>1, Invariant, PTL

\* b_once does not return before the initialiser has, in this thread or another.
THEOREM ReturnMeansDone == Spec => []ReturnedIsDone
<1>1. IInv => ReturnedIsDone
  BY DEF IInv, WordIsTrue, ReturnedFindsDone, ReturnedIsDone
<1> QED
  BY <1>1, Invariant, PTL
=============================================================================
