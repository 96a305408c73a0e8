------------------------------ MODULE PthreadOnce ------------------------------
(***************************************************************************)
(* pthread_bridge.c, b_once: callers of pthread_once with one control      *)
(* word, and other threads that pass through g_lock while they resolve a   *)
(* mutex of the game (PthreadBridge).  The initialiser may wait for them.  *)
(***************************************************************************)
EXTENDS Naturals

CONSTANTS
  Callers,  \* threads that call pthread_once
  Others,   \* threads that the initialiser waits for
  MaxCalls  \* bound: calls of each caller

NoOne == "none"

ASSUME OnceAssumption ==
  /\ Callers \cap Others = {}
  /\ NoOne \notin Callers \cup Others
  /\ MaxCalls \in Nat

VARIABLES
  pc,      \* where each thread is
  left,    \* calls each caller has left
  st,      \* the control word: 0 not done, 1 in progress, 2 done
  g_lock,  \* the thread that holds g_lock
  inits,   \* runs of the initialiser that have started
  done     \* runs of the initialiser that have returned

vars == <<pc, left, st, g_lock, inits, done>>

Threads == Callers \cup Others

Init ==
  /\ pc = [t \in Threads |-> "start"]
  /\ left = [t \in Callers |-> MaxCalls]
  /\ st = 0
  /\ g_lock = NoOne
  /\ inits = 0
  /\ done = 0

\* g_lock is a recursive mutex.
FreeFor(t) == g_lock \in {NoOne, t}

Goto(t, label) == pc' = [pc EXCEPT ![t] = label]

CallOnce(t) ==
  /\ t \in Callers
  /\ pc[t] \in {"start", "returned"} /\ left[t] > 0
  /\ Goto(t, "enter")
  /\ left' = [left EXCEPT ![t] = @ - 1]
  /\ UNCHANGED <<st, g_lock, inits, done>>

\* Also the wait for g_lock of a thread that resolves a mutex.
LockG(t) ==
  /\ pc[t] = "enter" \/ (t \in Others /\ pc[t] = "start")
  /\ FreeFor(t)
  /\ g_lock' = t
  /\ Goto(t, "inside")
  /\ UNCHANGED <<left, st, inits, done>>

Leave(t, label) == g_lock' = NoOne /\ Goto(t, label)

\* Mutant: a caller that finds the control word claimed returns at once.
BusyReturns(t) ==
  /\ t \in Callers /\ pc[t] = "inside"
  /\ st = 1
  /\ Leave(t, "returned")
  /\ UNCHANGED <<left, st, inits, done>>

\* Another thread initialises: let g_lock go and sleep.
Busy(t) ==
  /\ t \in Callers /\ pc[t] = "inside"
  /\ st = 1
  /\ Leave(t, "sleep")
  /\ UNCHANGED <<left, st, inits, done>>

Wake(t) ==
  /\ pc[t] = "sleep"
  /\ Goto(t, "enter")
  /\ UNCHANGED <<left, st, g_lock, inits, done>>

\* Mutant: the control word is set only when the initialiser is done.
ClaimNot(t) ==
  /\ t \in Callers /\ pc[t] = "inside"
  /\ st = 0
  /\ Leave(t, "init")
  /\ inits' = inits + 1
  /\ UNCHANGED <<left, st, done>>

\* Mutant: g_lock is held while the initialiser runs.
ClaimHolding(t) ==
  /\ t \in Callers /\ pc[t] = "inside"
  /\ st = 0
  /\ st' = 1
  /\ Goto(t, "init")
  /\ inits' = inits + 1
  /\ UNCHANGED <<left, g_lock, done>>

Claim(t) ==
  /\ t \in Callers /\ pc[t] = "inside"
  /\ st = 0
  /\ st' = 1
  /\ Leave(t, "init")
  /\ inits' = inits + 1
  /\ UNCHANGED <<left, done>>

\* The initialiser returns once every other thread has passed g_lock.
InitReturns(t) ==
  /\ pc[t] = "init"
  /\ \A u \in Others : pc[u] = "returned"
  /\ done' = done + 1
  /\ Goto(t, "finish")
  /\ UNCHANGED <<left, st, g_lock, inits>>

FinishLocks(t) ==
  /\ pc[t] = "finish"
  /\ FreeFor(t)
  /\ g_lock' = t
  /\ Goto(t, "finishing")
  /\ UNCHANGED <<left, st, inits, done>>

\* Mutant: done is added to the control word.
FinishAdds(t) ==
  /\ pc[t] = "finishing"
  /\ st' = st + 2
  /\ Leave(t, "returned")
  /\ UNCHANGED <<left, inits, done>>

Finish(t) ==
  /\ pc[t] = "finishing"
  /\ st' = 2
  /\ Leave(t, "returned")
  /\ UNCHANGED <<left, inits, done>>

\* The control word is done, or the thread only resolved a mutex.
Return(t) ==
  /\ pc[t] = "inside"
  /\ t \in Others \/ st = 2
  /\ Leave(t, "returned")
  /\ UNCHANGED <<left, st, inits, done>>

Step(t) ==
  \/ LockG(t) \/ Busy(t) \/ Wake(t) \/ Claim(t) \/ InitReturns(t)
  \/ FinishLocks(t) \/ Finish(t) \/ Return(t)

Next == \E t \in Threads : CallOnce(t) \/ Step(t)

Spec == Init /\ [][Next]_vars

\* A thread goes on, and one that waits for g_lock again and again gets it.
FairSpec ==
  /\ Spec
  /\ \A t \in Threads :
       /\ WF_vars(Step(t))
       /\ SF_vars(LockG(t)) /\ SF_vars(FinishLocks(t))

-----------------------------------------------------------------------------
(* Properties *)

\* Every variable keeps to the values the code gives it.
TypeOK ==
  /\ pc \in [Threads -> {"start", "enter", "inside", "sleep", "init",
                         "finish", "finishing", "returned"}]
  /\ left \in [Callers -> 0..MaxCalls]
  /\ st \in 0..2
  /\ g_lock \in Threads \cup {NoOne}
  /\ inits \in Nat
  /\ done \in Nat

\* The initialiser runs once, however many threads call at the same time.
RunsOnce == inits <= 1

\* Who returns from pthread_once finds the initialiser returned, whoever ran it.
ReturnedIsDone ==
  \A t \in Callers : pc[t] = "returned" => done >= 1

\* Every call returns, also when the initialiser waits for threads that need
\* g_lock themselves.
CallsReturn ==
  \A t \in Callers : pc[t] = "enter" ~> pc[t] = "returned"
=============================================================================
