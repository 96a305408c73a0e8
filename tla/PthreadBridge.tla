----------------------------- MODULE PthreadBridge -----------------------------
(***************************************************************************)
(* pthread_bridge.c: a mutex and a condition variable of the game.  Their  *)
(* storage has the layout of bionic; the bridge keeps in its first word    *)
(* the address of a glibc object, which it makes at the first use.         *)
(*                                                                         *)
(* The slot is read without g_lock, and nothing but g_lock orders the      *)
(* stores of a new object before the store of its address: until its maker *)
(* leaves g_lock another thread may read the address and not yet the       *)
(* object, and the maker's stores may land on what that thread has done.   *)
(* torn records that either has happened.                                  *)
(***************************************************************************)
EXTENDS Naturals, Sequences

CONSTANTS
  Threads,    \* threads of the game
  Static,     \* first words that a static mutex initialiser may leave
  CountWrap,  \* modulus of the lock count, 2^32 in glibc
  MaxCalls    \* bound: calls of each thread

\* Words up to this one are marks of bionic (0, 0x4000, ...), no addresses.
MagicTop == 1
IS_HEAP_PTR(v) == v > MagicTop

NoOne == "none"

ASSUME BridgeAssumption ==
  /\ NoOne \notin Threads
  /\ Static \subseteq 0..MagicTop
  /\ CountWrap \in Nat \ {0}
  /\ MaxCalls \in Nat

VARIABLES
  th,      \* the call of each thread and what it has resolved
  slot,    \* first word of the mutex and of the condition variable
  heap,    \* the glibc objects made so far
  g_lock,  \* the thread that holds g_lock
  made,    \* the game has initialised the object, statically or by a call
  fault,   \* glibc was given an address that is no object of the bridge
  torn     \* history: a store of some object came later than its address

vars == <<th, slot, heap, g_lock, made, fault, torn>>

Slots == {"mutex", "cond"}
\* seen: the threads that see it whole; settled: its maker has left g_lock.
NewObject(t) ==
  [owner |-> NoOne, count |-> 0, seen |-> {t}, settled |-> FALSE]
Object(v) == heap[v - MagicTop]

Resting == [pc |-> "idle", op |-> "none", need |-> {}, at |-> "mutex",
            mutex |-> 0, cond |-> 0, raw |-> FALSE, calls |-> 0, holds |-> 0]

Init ==
  /\ th = [t \in Threads |-> [Resting EXCEPT !.calls = MaxCalls]]
  /\ slot \in [Slots -> 0..MagicTop]
  /\ slot["mutex"] \in Static /\ slot["cond"] = 0
  /\ heap = <<>>
  /\ g_lock = NoOne
  /\ made = Slots
  /\ fault = FALSE
  /\ torn = FALSE

-----------------------------------------------------------------------------
(* Calls of the game *)

Uses(op) ==
  CASE op \in {"lock", "trylock", "unlock", "mutex_init", "mutex_destroy"} -> {"mutex"}
    [] op \in {"signal", "broadcast", "cond_init", "cond_destroy",
               "cond_lazy"} -> {"cond"}
    [] op = "wait" -> Slots
    [] op = "none" -> {}

\* No call is under way that uses s; a woken waiter is done with the condition.
Quiet(s) ==
  \A t \in Threads :
    s \in Uses(th[t].op) => s = "cond" /\ th[t].pc = "relock"

\* A correct program initialises what it uses, unlocks and waits with a mutex it
\* holds, waits with one it locked once, and destroys what nobody uses.
Legal(t, op) ==
  CASE op \in {"lock", "trylock", "signal", "broadcast"} -> Uses(op) \subseteq made
    [] op = "unlock" -> th[t].holds > 0
    [] op = "wait" -> th[t].holds = 1 /\ "cond" \in made
    [] op \in {"mutex_init", "cond_init"} ->
         \A s \in Uses(op) : s \notin made /\ Quiet(s)
    [] op = "mutex_destroy" ->
         /\ "mutex" \in made /\ Quiet("mutex")
         /\ \A u \in Threads : th[u].holds = 0
    [] op = "cond_destroy" -> "cond" \in made /\ Quiet("cond")

Resolving ==
  {"lock", "trylock", "unlock", "wait", "signal", "broadcast", "cond_lazy"}
Remaking == {"mutex_init", "cond_init", "mutex_destroy", "cond_destroy"}

Call(t) ==
  /\ th[t].pc = "idle" /\ th[t].calls > 0
  /\ \E op \in Resolving \cup Remaking :
       /\ op # "cond_lazy" /\ Legal(t, op)
       /\ IF op \in Resolving
            THEN /\ th' = [th EXCEPT ![t].pc = "resolve", ![t].op = op,
                                     ![t].need = Uses(op), ![t].calls = @ - 1]
                 /\ UNCHANGED made
            ELSE /\ \E s \in Uses(op) :
                      th' = [th EXCEPT ![t].pc = "enter", ![t].op = op,
                                       ![t].at = s, ![t].calls = @ - 1]
                 \* Nobody may use it until an initialisation has returned.
                 /\ made' = made \ Uses(op)
  /\ UNCHANGED <<slot, heap, g_lock, fault, torn>>

Returned(t) ==
  [th[t] EXCEPT !.pc = "idle", !.op = "none", !.mutex = 0, !.cond = 0, !.raw = FALSE]

-----------------------------------------------------------------------------
(* mtx_real and cnd_real: from the slot to the glibc object *)

\* Whether t takes the object for calloc's zeroes, a normal mutex: possible until
\* its maker leaves g_lock, and not once t has seen what it is.
Views(t, v) ==
  IF Object(v).settled \/ t \in Object(v).seen THEN {FALSE} ELSE BOOLEAN

Resolved(t, s) ==
  \E raw \in Views(t, slot[s]) :
    /\ th' = [th EXCEPT ![t].pc = IF th[t].need \subseteq {s} THEN "do" ELSE "resolve",
                        ![t].need = @ \ {s},
                        ![t].raw = IF s = "mutex" THEN raw ELSE @,
                        ![t].mutex = IF s = "mutex" THEN slot[s] ELSE @,
                        ![t].cond = IF s = "cond" THEN slot[s] ELSE @]
    /\ heap' = IF raw THEN heap
               ELSE [heap EXCEPT ![slot[s] - MagicTop].seen = @ \cup {t}]
    /\ torn' = (torn \/ raw)

\* The arguments of pthread_cond_wait are evaluated in any order.
FastRead(t) ==
  /\ th[t].pc = "resolve"
  /\ \E s \in th[t].need :
       IF IS_HEAP_PTR(slot[s])
         THEN Resolved(t, s)
         ELSE /\ th' = [th EXCEPT ![t].pc = "enter", ![t].at = s]
              /\ UNCHANGED <<heap, torn>>
  /\ UNCHANGED <<slot, g_lock, made, fault>>

EnterG(t) ==
  /\ th[t].pc = "enter"
  /\ g_lock = NoOne
  /\ g_lock' = t
  /\ th' = [th EXCEPT ![t].pc = "inside"]
  /\ UNCHANGED <<slot, heap, made, fault, torn>>

Made(t, s) ==
  /\ heap' = Append(heap, NewObject(t))
  /\ slot' = [slot EXCEPT ![s] = MagicTop + Len(heap) + 1]

\* Mutant: the slot is not read again under g_lock.
CreateAlways(t) ==
  /\ th[t].pc = "inside" /\ th[t].op \in Resolving
  /\ Made(t, th[t].at)
  /\ th' = [th EXCEPT ![t].pc = "leave"]
  /\ UNCHANGED <<g_lock, made, fault, torn>>

\* Mutant: the address is stored before the object is made.
CreateLater(t) ==
  /\ th[t].pc = "inside" /\ th[t].op \in Resolving
  /\ slot' = IF IS_HEAP_PTR(slot[th[t].at]) THEN slot
             ELSE [slot EXCEPT ![th[t].at] = MagicTop + Len(heap) + 1]
  /\ th' = [th EXCEPT ![t].pc = "leave"]
  /\ UNCHANGED <<heap, g_lock, made, fault, torn>>

Create(t) ==
  /\ th[t].pc = "inside" /\ th[t].op \in Resolving
  /\ IF IS_HEAP_PTR(slot[th[t].at])
       THEN UNCHANGED <<slot, heap>>
       ELSE Made(t, th[t].at)
  /\ th' = [th EXCEPT ![t].pc = "leave"]
  /\ UNCHANGED <<g_lock, made, fault, torn>>

InitMutex(t) ==
  /\ th[t].pc = "inside" /\ th[t].op = "mutex_init"
  /\ Made(t, "mutex")
  /\ th' = [th EXCEPT ![t].pc = "leave"]
  /\ UNCHANGED <<g_lock, made, fault, torn>>

\* b_cond_init empties the slot and then resolves it like any other call.
ResetCond(t) ==
  /\ th[t].pc = "inside" /\ th[t].op = "cond_init"
  /\ slot' = [slot EXCEPT !["cond"] = 0]
  /\ th' = [th EXCEPT ![t].pc = "leave"]
  /\ UNCHANGED <<heap, g_lock, made, fault, torn>>

\* Whatever the slot holds and is not zero is given to glibc.
Destroy(t) ==
  /\ th[t].pc = "inside" /\ th[t].op \in {"mutex_destroy", "cond_destroy"}
  /\ fault' = (slot[th[t].at] \in 1..MagicTop)
  /\ slot' = [slot EXCEPT ![th[t].at] = 0]
  /\ th' = [th EXCEPT ![t].pc = "leave"]
  /\ UNCHANGED <<heap, g_lock, made, torn>>

\* Unlocking g_lock publishes the stores of its holder, the last of them perhaps
\* on top of what another thread has done to the object; then the slot is read
\* once more.
UsedBefore(t, o) == ~o.settled /\ o.seen # {t}
Settled(o) == [o EXCEPT !.seen = Threads, !.settled = TRUE]
LeaveG(t) ==
  /\ th[t].pc = "leave"
  /\ g_lock' = NoOne
  /\ \E late \in BOOLEAN :
       /\ late => torn \/ \E i \in DOMAIN heap : UsedBefore(t, heap[i])
       /\ heap' = [i \in DOMAIN heap |->
                     Settled(IF late /\ ~heap[i].settled THEN NewObject(t) ELSE heap[i])]
       /\ torn' = (torn \/ late)
  /\ CASE th[t].op \in Resolving ->
            th' = [th EXCEPT ![t].pc = "reread"] /\ UNCHANGED made
       [] th[t].op = "cond_init" ->
            /\ th' = [th EXCEPT ![t].pc = "resolve", ![t].op = "cond_lazy",
                                ![t].need = {"cond"}]
            /\ UNCHANGED made
       [] th[t].op \in {"mutex_init", "mutex_destroy", "cond_destroy"} ->
            /\ th' = [th EXCEPT ![t] = Returned(t)]
            /\ made' = IF th[t].op = "mutex_init" THEN made \cup {"mutex"} ELSE made
  /\ UNCHANGED <<slot, fault>>

Reread(t) ==
  /\ th[t].pc = "reread"
  /\ Resolved(t, th[t].at)
  /\ UNCHANGED <<slot, g_lock, made, fault>>

-----------------------------------------------------------------------------
(* glibc: recursive mutexes, or normal ones to who does not see their kind *)

Do(t, op) == th[t].pc = "do" /\ th[t].op = op

CanAcquire(t, o) == o.owner = NoOne \/ (o.owner = t /\ ~th[t].raw)
Acquired(t, o) ==
  [o EXCEPT !.owner = t,
            !.count = IF th[t].raw THEN @ ELSE (@ + 1) % CountWrap]
\* EPERM where the caller is not the owner.
Released(t, o) ==
  LET count == (o.count + CountWrap - 1) % CountWrap
  IN  IF th[t].raw THEN [o EXCEPT !.owner = NoOne]
      ELSE IF o.owner # t THEN o
      ELSE [o EXCEPT !.count = count, !.owner = IF count = 0 THEN NoOne ELSE t]

Mutex(t) == Object(th[t].mutex)
SetMutex(t, o) == heap' = [heap EXCEPT ![th[t].mutex - MagicTop] = o]
Quietly == UNCHANGED <<slot, g_lock, made, fault, torn>>

CondReady(t) ==
  /\ Do(t, "cond_lazy")
  /\ th' = [th EXCEPT ![t] = Returned(t)]
  /\ made' = made \cup {"cond"}
  /\ UNCHANGED <<slot, heap, g_lock, fault, torn>>

Lock(t) ==
  /\ Do(t, "lock") \/ Do(t, "trylock")
  /\ CanAcquire(t, Mutex(t))
  /\ SetMutex(t, Acquired(t, Mutex(t)))
  /\ th' = [th EXCEPT ![t] = [Returned(t) EXCEPT !.holds = @ + 1]]
  /\ Quietly

TrylockFails(t) ==
  /\ Do(t, "trylock")
  /\ ~CanAcquire(t, Mutex(t))
  /\ th' = [th EXCEPT ![t] = Returned(t)]
  /\ UNCHANGED heap
  /\ Quietly

Unlock(t) ==
  /\ Do(t, "unlock")
  /\ SetMutex(t, Released(t, Mutex(t)))
  /\ th' = [th EXCEPT ![t] = [Returned(t) EXCEPT !.holds = @ - 1]]
  /\ Quietly

\* pthread_cond_wait lets the mutex go and blocks in one step.
Wait(t) ==
  /\ Do(t, "wait")
  /\ SetMutex(t, Released(t, Mutex(t)))
  /\ th' = [th EXCEPT ![t].pc = "blocked", ![t].holds = 0]
  /\ Quietly

\* A deadline of pthread_cond_timedwait, or a spurious wake-up.
WakeAlone(t) ==
  /\ th[t].pc = "blocked"
  /\ th' = [th EXCEPT ![t].pc = "relock"]
  /\ UNCHANGED heap
  /\ Quietly

Blocked(v) == {t \in Threads : th[t].pc = "blocked" /\ th[t].cond = v}

Signal(t) ==
  /\ Do(t, "signal") \/ Do(t, "broadcast")
  /\ \E W \in SUBSET Blocked(th[t].cond) :
       /\ Blocked(th[t].cond) # {} => W # {}
       /\ th[t].op = "broadcast" => W = Blocked(th[t].cond)
       /\ th' = [u \in Threads |->
                   IF u = t THEN Returned(t)
                   ELSE IF u \in W THEN [th[u] EXCEPT !.pc = "relock"]
                   ELSE th[u]]
  /\ UNCHANGED heap
  /\ Quietly

Relock(t) ==
  /\ th[t].pc = "relock"
  /\ CanAcquire(t, Mutex(t))
  /\ SetMutex(t, Acquired(t, Mutex(t)))
  /\ th' = [th EXCEPT ![t] = [Returned(t) EXCEPT !.holds = 1]]
  /\ Quietly

-----------------------------------------------------------------------------

Next ==
  \E t \in Threads :
    /\ ~fault
    /\ \/ Call(t) \/ FastRead(t) \/ EnterG(t) \/ Create(t) \/ InitMutex(t)
       \/ ResetCond(t) \/ CondReady(t) \/ Destroy(t) \/ LeaveG(t) \/ Reread(t)
       \/ Lock(t) \/ TrylockFails(t) \/ Unlock(t) \/ Wait(t) \/ WakeAlone(t)
       \/ Signal(t) \/ Relock(t)

Spec == Init /\ [][Next]_vars

-----------------------------------------------------------------------------
(* Properties *)

\* A thread, its call and what the call has resolved; a glibc mutex.
ThreadStates ==
  [pc : {"idle", "resolve", "enter", "inside", "leave", "reread", "do",
         "blocked", "relock"},
   op : Resolving \cup Remaking \cup {"none"}, need : SUBSET Slots,
   at : Slots, mutex : Nat, cond : Nat, raw : BOOLEAN, calls : Nat, holds : Nat]
Objects ==
  [owner : Threads \cup {NoOne}, count : 0..(CountWrap - 1), seen : SUBSET Threads,
   settled : BOOLEAN]

\* Every variable keeps to the values the code and glibc give it.
TypeOK ==
  /\ th \in [Threads -> ThreadStates]
  /\ slot \in [Slots -> 0..(MagicTop + Len(heap))]
  /\ heap \in Seq(Objects)
  /\ g_lock \in Threads \cup {NoOne}
  /\ made \subseteq Slots
  /\ fault \in BOOLEAN
  /\ torn \in BOOLEAN

\* Two threads never hold the mutex of the game at once, however their first
\* uses of it meet, as long as no object was read or used before it was stored.
MutualExclusion ==
  ~torn => \A t, u \in Threads : th[t].holds > 0 /\ th[u].holds > 0 => t = u

\* A thread that holds nothing and is in no call owns no glibc mutex: what it
\* locked it has unlocked, and others can lock it.  This is what creation under
\* g_lock is for ("lazy-init sem corrida").
LazyInitIsSafe ==
  \A i \in DOMAIN heap : \A t \in Threads :
    heap[i].owner = t => th[t].holds > 0 \/ th[t].pc # "idle"

\* It is so, also for the objects that no slot refers to any more, as long as no
\* object was read or used before it was stored.
NothingLeftLocked == ~torn => LazyInitIsSafe

Waiting == {t \in Threads : th[t].pc = "blocked"}

\* A signal reaches a thread that waits: both sides have resolved the condition
\* variable to one object, stored before they used it.
SignalWakes ==
  [][\A t \in Threads :
       Signal(t) /\ Waiting # {} /\ ~torn => \E w \in Waiting : th'[w].pc = "relock"]_vars
=============================================================================
