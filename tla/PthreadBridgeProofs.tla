-------------------------- MODULE PthreadBridgeProofs --------------------------
(***************************************************************************)
(* The mutex of PthreadBridge excludes, and a signal reaches a thread that *)
(* waits, for any number of threads and any static initialisers, until an  *)
(* object is used before it is stored, where no thread locks the mutex as  *)
(* often as the lock count can tell.  The types hold beyond that.          *)
(***************************************************************************)
EXTENDS PthreadBridge, TLAPS

MutexOps == {"lock", "trylock", "unlock", "wait", "mutex_init", "mutex_destroy"}
Ops == Resolving \cup Remaking \cup {"none"}

\* r is a thread whose call uses the mutex, resolves it, or knows its object.
UsesMutex(r) == r.op \in MutexOps
HasMutex(r) == UsesMutex(r) /\ r.op \in Resolving /\ "mutex" \notin r.need

\* How far a call of each kind can be.
Placed(r) ==
  /\ r.pc = "idle" <=> r.op = "none"
  /\ r.pc \in {"resolve", "reread", "do", "blocked", "relock"} => r.op \in Resolving
  /\ r.pc \in {"blocked", "relock"} => r.op = "wait"
  /\ r.need \subseteq Uses(r.op)
  /\ r.op \in Resolving /\ r.pc \in {"enter", "inside", "leave", "reread"} =>
       r.at \in r.need
  /\ r.op \in Remaking => r.at \in Uses(r.op) /\ r.need = {}
  /\ r.pc \in {"do", "blocked", "relock"} => r.need = {}
  /\ r.raw = FALSE
PlaceOK == \A t \in Threads : Placed(th[t])

\* g_lock is held by the one thread that reads or writes a slot under it.
GLockOK == \A t \in Threads : th[t].pc \in {"inside", "leave"} <=> g_lock = t

\* A thread that initialises or destroys the mutex is alone with it.
RemakeAlone ==
  /\ \A t \in Threads : UsesMutex(th[t]) /\ th[t].op \in Remaking =>
       /\ "mutex" \notin made
       /\ \A u \in Threads : u # t => ~UsesMutex(th[u])
  /\ "mutex" \notin made =>
       \A t \in Threads :
         th[t].holds = 0 /\ (UsesMutex(th[t]) => th[t].op \in Remaking)

\* What a thread has resolved is what the slot holds, an object.
Knows(r, s) ==
  /\ HasMutex(r) => r.mutex = s /\ s > MagicTop
  /\ r.op \in Resolving /\ r.at = "mutex" /\ r.pc \in {"leave", "reread"} => s > MagicTop
ResolvedOK == \A t \in Threads : Knows(th[t], slot["mutex"])

\* The locks of a thread against the owner and the count of the object.
LockOK ==
  /\ \A t \in Threads : th[t].holds > 0 =>
       /\ slot["mutex"] - MagicTop \in DOMAIN heap
       /\ heap[slot["mutex"] - MagicTop].owner = t
  /\ \A i \in DOMAIN heap :
       /\ heap[i].owner = NoOne => heap[i].count = 0
       /\ \A t \in Threads : heap[i].owner = t =>
            /\ i = slot["mutex"] - MagicTop
            /\ th[t].holds > 0 /\ heap[i].count = th[t].holds

\* The calls a thread has left bound its locks.
Counted(r) ==
  /\ r.holds + r.calls <= MaxCalls
  /\ r.pc # "idle" => r.holds + r.calls < MaxCalls
  /\ r.op = "unlock" => r.holds > 0
  /\ r.op = "wait" => r.holds = IF r.pc \in {"blocked", "relock"} THEN 0 ELSE 1
CallsOK == \A t \in Threads : Counted(th[t])

Parts == PlaceOK /\ GLockOK /\ RemakeAlone /\ ResolvedOK /\ LockOK /\ CallsOK
IInv == TypeOK /\ Parts

-----------------------------------------------------------------------------

LEMMA UsesFacts ==
  \A op \in Ops : /\ Uses(op) \subseteq Slots
                  /\ "mutex" \in Uses(op) <=> op \in MutexOps
                  /\ op \in Remaking => \E s \in Slots : Uses(op) = {s}
                  /\ op = "none" => Uses(op) = {}
<1> SUFFICES ASSUME NEW op \in Ops
             PROVE  /\ Uses(op) \subseteq Slots
                    /\ "mutex" \in Uses(op) <=> op \in MutexOps
                    /\ op \in Remaking => \E s \in Slots : Uses(op) = {s}
                    /\ op = "none" => Uses(op) = {}
  OBVIOUS
<1> USE DEF Uses, MutexOps, Slots, Resolving, Remaking, Ops
<1>1. CASE op \in {"lock", "trylock", "unlock", "mutex_init", "mutex_destroy"}
  <2>1. Uses(op) = {"mutex"}
    BY <1>1
  <2> QED
    BY <1>1, <2>1
<1>2. CASE op \in {"signal", "broadcast", "cond_init", "cond_destroy", "cond_lazy"}
  <2>1. Uses(op) = {"cond"}
    BY <1>2
  <2> QED
    BY <1>2, <2>1
<1>3. CASE op = "wait"
  <2>1. Uses(op) = Slots
    BY <1>3
  <2> QED
    BY <1>3, <2>1
<1>4. CASE op = "none"
  <2>1. Uses(op) = {}
    BY <1>4
  <2> QED
    BY <1>4, <2>1
<1> QED
  BY <1>1, <1>2, <1>3, <1>4

\* Steps that move neither the mutex's slot nor what its objects and its users
\* know of each other.
LEMMA LocksKept ==
  ASSUME LockOK, slot'["mutex"] = slot["mutex"],
         DOMAIN heap' = DOMAIN heap,
         \A i \in DOMAIN heap : heap'[i].owner = heap[i].owner /\ heap'[i].count = heap[i].count,
         \A t \in Threads : th'[t].holds = th[t].holds
  PROVE  LockOK'
BY DEF LockOK

\* An object is appended while nobody holds the mutex, or for the condition.
LEMMA LocksKeptByMaking ==
  ASSUME TypeOK, LockOK, NEW t \in Threads, heap' = Append(heap, NewObject(t)),
         \A u \in Threads : th'[u].holds = th[u].holds,
         \/ slot'["mutex"] = slot["mutex"]
         \/ \A u \in Threads : th[u].holds = 0
  PROVE  LockOK'
<1> USE BridgeAssumption DEF MagicTop, Slots
<1>1. /\ DOMAIN heap = 1..Len(heap) /\ Len(heap) \in Nat
      /\ DOMAIN heap' = 1..(Len(heap) + 1)
      /\ \A i \in DOMAIN heap : heap'[i] = heap[i]
      /\ heap'[Len(heap) + 1] = NewObject(t)
  BY DEF TypeOK, NewObject
<1>2. NewObject(t).owner = NoOne /\ NewObject(t).count = 0
  BY DEF NewObject
<1>3. \A i \in DOMAIN heap' : i \in DOMAIN heap \/ i = Len(heap) + 1
  BY <1>1
<1>4. \A u \in Threads : th[u].holds \in Nat
  BY DEF TypeOK, ThreadStates
<1>5. ASSUME NEW u \in Threads, th'[u].holds > 0
      PROVE  /\ slot'["mutex"] - MagicTop \in DOMAIN heap'
             /\ heap'[slot'["mutex"] - MagicTop].owner = u
  BY <1>1, <1>4, <1>5 DEF LockOK
<1>6. ASSUME NEW i \in DOMAIN heap'
      PROVE  /\ heap'[i].owner = NoOne => heap'[i].count = 0
             /\ \A u \in Threads : heap'[i].owner = u =>
                  /\ i = slot'["mutex"] - MagicTop
                  /\ th'[u].holds > 0 /\ heap'[i].count = th'[u].holds
  <2>1. CASE i \in DOMAIN heap
    BY <1>1, <1>4, <2>1 DEF LockOK
  <2>2. CASE i = Len(heap) + 1
    BY <1>1, <1>2, <2>2
  <2> QED
    BY <1>3, <2>1, <2>2
<1> QED
  BY <1>5, <1>6 DEF LockOK

\* A step of one thread that moves no mutex slot and initialises no mutex.
LEMMA PlainStep ==
  ASSUME IInv, NEW t \in Threads, NEW r \in ThreadStates,
         th' = [th EXCEPT ![t] = r],
         Placed(r), Counted(r), Knows(r, slot["mutex"]),
         slot'["mutex"] = slot["mutex"],
         "mutex" \in made' <=> "mutex" \in made,
         UsesMutex(r) =>
           \/ "mutex" \in made /\ r.op \notin Remaking
           \/ UsesMutex(th[t]) /\ (r.op \in Remaking <=> th[t].op \in Remaking),
         "mutex" \in made \/ r.holds = 0
  PROVE  /\ th' \in [Threads -> ThreadStates]
         /\ th'[t] = r
         /\ \A u \in Threads : u # t => th'[u] = th[u]
         /\ PlaceOK' /\ CallsOK' /\ ResolvedOK' /\ RemakeAlone'
<1>1. /\ th' \in [Threads -> ThreadStates]
      /\ th'[t] = r
      /\ \A u \in Threads : u # t => th'[u] = th[u]
  BY DEF IInv, TypeOK
<1>2. PlaceOK' /\ CallsOK'
  BY <1>1 DEF IInv, Parts, PlaceOK, CallsOK
<1>3. ResolvedOK'
  BY <1>1 DEF IInv, Parts, ResolvedOK
<1>4. RemakeAlone'
  BY <1>1 DEF IInv, Parts, RemakeAlone, UsesMutex
<1> QED
  BY <1>1, <1>2, <1>3, <1>4

\* g_lock stays with who has it.
LEMMA GLockKept ==
  ASSUME GLockOK, g_lock' = g_lock, NEW t \in Threads,
         th'[t].pc \in {"inside", "leave"} <=> th[t].pc \in {"inside", "leave"},
         \A u \in Threads : u # t => th'[u] = th[u]
  PROVE  GLockOK'
BY DEF GLockOK

\* No slot is beyond the objects, and one above the marks is the address of one.
LEMMA ObjectOfSlot ==
  ASSUME TypeOK
  PROVE  /\ DOMAIN heap = 1..Len(heap) /\ Len(heap) \in Nat
         /\ slot["mutex"] \in Nat
         /\ slot["mutex"] > MagicTop <=> slot["mutex"] - MagicTop \in DOMAIN heap
         /\ \A i \in DOMAIN heap : heap[i] \in Objects
BY DEF TypeOK, MagicTop, Slots

\* Who knows the mutex while the program may use it finds it initialised.
LEMMA UserFindsMade ==
  ASSUME IInv, NEW t \in Threads,
         th[t].holds > 0 \/ (UsesMutex(th[t]) /\ th[t].op \in Resolving)
  PROVE  "mutex" \in made
<1>1. th[t] \in ThreadStates
  BY DEF IInv, TypeOK
<1> QED
  BY <1>1 DEF IInv, Parts, RemakeAlone, ThreadStates, Resolving, Remaking

-----------------------------------------------------------------------------
(* One lemma for each action *)

\* EnterG: g_lock is taken.
LEMMA EnterGStep ==
  ASSUME IInv, NEW t \in Threads, EnterG(t)
  PROVE  IInv'
<1> USE BridgeAssumption DEF IInv, Parts, MagicTop, Slots
<1> DEFINE r == [th[t] EXCEPT !.pc = "inside"]
<1>1. /\ th' = [th EXCEPT ![t] = r]
      /\ th[t].pc = "enter" /\ g_lock = NoOne /\ g_lock' = t
      /\ slot' = slot /\ heap' = heap /\ made' = made /\ fault' = fault /\ torn' = torn
  BY DEF EnterG
<1>2. th[t] \in ThreadStates
  BY DEF TypeOK
<1>3. /\ r \in ThreadStates
      /\ r.pc = "inside" /\ r.op = th[t].op /\ r.need = th[t].need /\ r.at = th[t].at
      /\ r.raw = th[t].raw /\ r.mutex = th[t].mutex /\ r.calls = th[t].calls
      /\ r.holds = th[t].holds
  BY <1>2 DEF ThreadStates
<1> HIDE DEF r
<1>4. Placed(r) /\ Counted(r) /\ Knows(r, slot["mutex"])
  BY <1>1, <1>3 DEF PlaceOK, Placed, CallsOK, Counted, ResolvedOK, Knows, HasMutex, UsesMutex
<1>5. "mutex" \in made \/ r.holds = 0
  BY <1>3 DEF RemakeAlone
<1>6. /\ th' \in [Threads -> ThreadStates]
      /\ th'[t] = r
      /\ \A u \in Threads : u # t => th'[u] = th[u]
      /\ PlaceOK' /\ CallsOK' /\ ResolvedOK' /\ RemakeAlone'
  BY <1>1, <1>3, <1>4, <1>5, PlainStep DEF UsesMutex
<1>7. TypeOK'
  BY <1>1, <1>6 DEF TypeOK
<1>8. GLockOK'
  BY <1>1, <1>3, <1>6 DEF GLockOK
<1>9. LockOK'
  BY <1>1, <1>3, <1>6, LocksKept
<1> QED
  BY <1>6, <1>7, <1>8, <1>9

\* The conditions under which a correct program makes each call.
LEMMA LegalFacts ==
  ASSUME IInv, NEW t \in Threads, NEW op \in Resolving \cup Remaking,
         op # "cond_lazy", Legal(t, op)
  PROVE  /\ op \in Resolving /\ op \in MutexOps => "mutex" \in made
         /\ op = "unlock" => th[t].holds > 0
         /\ op = "wait" => th[t].holds = 1
         /\ op \in Remaking /\ op \in MutexOps =>
              \A u \in Threads : th[u].holds = 0 /\ ~UsesMutex(th[u])
<1> USE DEF Resolving, Remaking, MutexOps
<1>1. \A u \in Threads : th[u] \in ThreadStates
  BY DEF IInv, TypeOK
<1>2. ASSUME Quiet("mutex"), NEW u \in Threads PROVE ~UsesMutex(th[u])
  <2>1. "mutex" \notin Uses(th[u].op)
    BY <1>2 DEF Quiet
  <2>2. th[u].op \in Ops
    BY <1>1 DEF ThreadStates, Ops
  <2> QED
    BY <2>1, <2>2, UsesFacts DEF UsesMutex
<1>3. CASE op \in {"lock", "trylock"}
  <2>1. Uses(op) \subseteq made
    BY <1>3 DEF Legal
  <2> QED
    BY <1>3, <2>1 DEF Uses
<1>4. CASE op \in {"signal", "broadcast"}
  BY <1>4
<1>5. CASE op = "unlock"
  <2>1. th[t].holds > 0
    BY <1>5 DEF Legal
  <2> QED
    BY <1>5, <2>1, UserFindsMade
<1>6. CASE op = "wait"
  <2>1. th[t].holds = 1
    BY <1>6 DEF Legal
  <2> QED
    BY <1>6, <2>1, UserFindsMade
<1>7. CASE op = "mutex_init"
  <2>1. "mutex" \in Uses(op)
    BY <1>7 DEF Uses
  <2>2. "mutex" \notin made /\ Quiet("mutex")
    BY <1>7, <2>1 DEF Legal
  <2> QED
    BY <1>2, <1>7, <2>2 DEF IInv, Parts, RemakeAlone
<1>8. CASE op = "mutex_destroy"
  <2>1. Quiet("mutex") /\ \A u \in Threads : th[u].holds = 0
    BY <1>8 DEF Legal
  <2> QED
    BY <1>2, <1>8, <2>1
<1>9. CASE op \in {"cond_init", "cond_destroy"}
  BY <1>9
<1> QED
  BY <1>3, <1>4, <1>5, <1>6, <1>7, <1>8, <1>9

\* Call: a legal call begins.
LEMMA CallStep ==
  ASSUME IInv, NEW t \in Threads, Call(t)
  PROVE  IInv'
<1> USE BridgeAssumption DEF IInv, Parts, MagicTop, Slots
<1>1. PICK op \in Resolving \cup Remaking :
        /\ op # "cond_lazy" /\ Legal(t, op)
        /\ IF op \in Resolving
             THEN /\ th' = [th EXCEPT ![t].pc = "resolve", ![t].op = op,
                                      ![t].need = Uses(op), ![t].calls = @ - 1]
                  /\ UNCHANGED made
             ELSE /\ \E s \in Uses(op) :
                       th' = [th EXCEPT ![t].pc = "enter", ![t].op = op,
                                        ![t].at = s, ![t].calls = @ - 1]
                  /\ made' = made \ Uses(op)
  BY DEF Call
<1>2. /\ th[t].pc = "idle" /\ th[t].calls > 0
      /\ slot' = slot /\ heap' = heap /\ g_lock' = g_lock /\ fault' = fault /\ torn' = torn
  BY DEF Call
<1>3. th[t] \in ThreadStates
  BY DEF TypeOK
<1>4. /\ op \in Resolving /\ op \in MutexOps => "mutex" \in made
      /\ op = "unlock" => th[t].holds > 0
      /\ op = "wait" => th[t].holds = 1
      /\ op \in Remaking /\ op \in MutexOps =>
           \A u \in Threads : th[u].holds = 0 /\ ~UsesMutex(th[u])
  BY <1>1, LegalFacts
<1>5. op \in Ops /\ Uses(op) \in SUBSET Slots /\ ("mutex" \in Uses(op) <=> op \in MutexOps)
  BY UsesFacts DEF Ops
<1>left. th[t].calls - 1 \in Nat
  BY <1>2, <1>3 DEF ThreadStates
<1>6. th[t].op = "none" /\ th[t].need = {} /\ th[t].raw = FALSE
  <2>1. th[t].op = "none" /\ th[t].raw = FALSE /\ th[t].need \subseteq Uses(th[t].op)
    BY <1>2 DEF PlaceOK, Placed
  <2>2. Uses("none") = {}
    BY UsesFacts DEF Ops
  <2> QED
    BY <2>1, <2>2
<1>7. CASE op \in Resolving
  <2> DEFINE r == [th[t] EXCEPT !.pc = "resolve", !.op = op,
                                !.need = Uses(op), !.calls = @ - 1]
  <2>1. th' = [th EXCEPT ![t] = r] /\ made' = made
    BY <1>1, <1>7
  <2>type. r \in ThreadStates
    BY <1>3, <1>5, <1>left DEF ThreadStates
  <2>2. /\ r \in ThreadStates
        /\ r.pc = "resolve" /\ r.op = op /\ r.need = Uses(op) /\ r.at = th[t].at
        /\ r.raw = th[t].raw /\ r.mutex = th[t].mutex /\ r.calls = th[t].calls - 1
        /\ r.holds = th[t].holds
    BY <1>3, <2>type DEF ThreadStates
  <2> HIDE DEF r
  <2>3. Placed(r)
    BY <1>6, <1>7, <2>2 DEF Placed, Resolving, Remaking
  <2>4. Counted(r)
    BY <1>2, <1>3, <1>4, <2>2 DEF CallsOK, Counted, ThreadStates
  <2>5. Knows(r, slot["mutex"])
    BY <1>5, <2>2 DEF Knows, HasMutex, UsesMutex
  <2>6. UsesMutex(r) => "mutex" \in made /\ r.op \notin Remaking
    BY <1>4, <1>7, <2>2 DEF UsesMutex, Resolving, Remaking
  <2>7. "mutex" \in made \/ r.holds = 0
    BY <2>2 DEF RemakeAlone
  <2>8. /\ th' \in [Threads -> ThreadStates]
        /\ th'[t] = r
        /\ \A u \in Threads : u # t => th'[u] = th[u]
        /\ PlaceOK' /\ CallsOK' /\ ResolvedOK' /\ RemakeAlone'
    BY <1>2, <2>1, <2>2, <2>3, <2>4, <2>5, <2>6, <2>7, PlainStep
  <2>9. TypeOK'
    BY <1>2, <2>1, <2>8 DEF TypeOK
  <2>10. GLockOK'
    BY <1>2, <2>2, <2>8, GLockKept
  <2>11. LockOK'
    BY <1>2, <2>2, <2>8, LocksKept
  <2> QED
    BY <2>8, <2>9, <2>10, <2>11
<1>8. CASE op \notin Resolving
  <2>1. PICK s \in Uses(op) :
          th' = [th EXCEPT ![t].pc = "enter", ![t].op = op, ![t].at = s, ![t].calls = @ - 1]
    BY <1>1, <1>8
  <2> DEFINE r == [th[t] EXCEPT !.pc = "enter", !.op = op, !.at = s, !.calls = @ - 1]
  <2>2. th' = [th EXCEPT ![t] = r] /\ made' = made \ Uses(op) /\ op \in Remaking
    BY <1>1, <1>8, <2>1
  <2>type. r \in ThreadStates
    <3>1. s \in Slots
      BY <1>5
    <3> QED
      BY <1>3, <1>left, <3>1 DEF ThreadStates
  <2>3. /\ r \in ThreadStates
        /\ r.pc = "enter" /\ r.op = op /\ r.need = {} /\ r.at = s
        /\ r.raw = FALSE /\ r.mutex = th[t].mutex /\ r.calls = th[t].calls - 1
        /\ r.holds = th[t].holds
    BY <1>3, <1>6, <2>type DEF ThreadStates
  <2> HIDE DEF r
  <2>4. /\ th' \in [Threads -> ThreadStates]
        /\ th'[t] = r
        /\ \A u \in Threads : u # t => th'[u] = th[u]
    BY <2>2, <2>3 DEF TypeOK
  <2>5. PlaceOK'
    BY <1>8, <2>2, <2>3, <2>4 DEF PlaceOK, Placed, Remaking
  <2>6. CallsOK'
    BY <1>2, <1>3, <2>2, <2>3, <2>4 DEF CallsOK, Counted, ThreadStates, Remaking
  <2>7. ResolvedOK'
    BY <1>2, <1>8, <2>3, <2>4 DEF ResolvedOK, Knows, HasMutex
  <2>8. RemakeAlone'
    <3>1. CASE op \in MutexOps
      <4>1. "mutex" \notin made'
        BY <1>5, <2>2, <3>1
      <4>2. \A u \in Threads : th'[u].holds = 0 /\ (u # t => ~UsesMutex(th'[u]))
        BY <1>4, <2>2, <2>3, <2>4, <3>1
      <4> QED
        BY <2>2, <2>3, <2>4, <4>1, <4>2 DEF RemakeAlone
    <3>2. CASE op \notin MutexOps
      <4>1. ~UsesMutex(r) /\ ("mutex" \in made' <=> "mutex" \in made)
        BY <1>5, <2>2, <2>3, <3>2 DEF UsesMutex
      <4>2. \A u \in Threads : th'[u].holds = th[u].holds
        BY <2>3, <2>4
      <4> QED
        BY <2>4, <4>1, <4>2 DEF RemakeAlone
    <3> QED
      BY <3>1, <3>2
  <2>9. TypeOK'
    BY <1>2, <2>2, <2>4 DEF TypeOK
  <2>10. GLockOK'
    BY <1>2, <2>3, <2>4, GLockKept
  <2>11. LockOK'
    BY <1>2, <2>3, <2>4, LocksKept
  <2> QED
    BY <2>5, <2>6, <2>7, <2>8, <2>9, <2>10, <2>11
<1> QED
  BY <1>7, <1>8

\* Nothing is updated outside a sequence.
LEMMA UpdateOutside ==
  ASSUME NEW S, NEW q \in Seq(S), NEW i, i \notin DOMAIN q, NEW e
  PROVE  [q EXCEPT ![i] = e] = q
<1>1. q = [j \in 1..Len(q) |-> q[j]]
  OBVIOUS
<1>2. DOMAIN q = 1..Len(q)
  OBVIOUS
<1> QED
  BY <1>1, <1>2

\* Resolved: the address of the slot is taken by a thread that needs it.
LEMMA ResolvedStep ==
  ASSUME IInv, ~torn', NEW t \in Threads, NEW s \in Slots, Resolved(t, s),
         th[t].pc \in {"resolve", "reread"}, s \in th[t].need,
         s = "mutex" => slot["mutex"] > MagicTop,
         slot' = slot, g_lock' = g_lock, made' = made, fault' = fault
  PROVE  IInv'
<1> USE BridgeAssumption DEF IInv, Parts, MagicTop
<1> DEFINE more == th[t].need \ {s}
           next == IF th[t].need \subseteq {s} THEN "do" ELSE "resolve"
           mutex == IF s = "mutex" THEN slot[s] ELSE th[t].mutex
           cond == IF s = "cond" THEN slot[s] ELSE th[t].cond
           raw == IF s = "mutex" THEN FALSE ELSE th[t].raw
           r == [th[t] EXCEPT !.pc = next, !.need = more, !.raw = raw,
                              !.mutex = mutex, !.cond = cond]
<1>1. th[t] \in ThreadStates
  BY DEF TypeOK
<1>2. /\ th' = [th EXCEPT ![t] = r]
      /\ heap' = [heap EXCEPT ![slot[s] - MagicTop].seen = @ \cup {t}]
      /\ torn' = FALSE
  <2>1. Views(t, slot[s]) \subseteq BOOLEAN
    BY DEF Views
  <2>2. PICK v \in Views(t, slot[s]) :
         /\ th' = [th EXCEPT ![t].pc = IF th[t].need \subseteq {s} THEN "do" ELSE "resolve",
                             ![t].need = @ \ {s},
                             ![t].raw = IF s = "mutex" THEN v ELSE @,
                             ![t].mutex = IF s = "mutex" THEN slot[s] ELSE @,
                             ![t].cond = IF s = "cond" THEN slot[s] ELSE @]
         /\ heap' = IF v THEN heap
                    ELSE [heap EXCEPT ![slot[s] - MagicTop].seen = @ \cup {t}]
         /\ torn' = (torn \/ v)
    BY DEF Resolved
  <2>3. v = FALSE
    BY <2>1, <2>2
  <2>4. heap' = [heap EXCEPT ![slot[s] - MagicTop].seen = @ \cup {t}]
    BY <2>2, <2>3
  <2>5. th' = [th EXCEPT ![t] = r]
    BY <2>2, <2>3
  <2>6. torn' = FALSE
    BY <2>2
  <2> QED
    BY <2>4, <2>5, <2>6
<1>3. slot[s] \in Nat
  BY DEF TypeOK
<1>4. /\ next \in {"do", "resolve"} /\ more \in SUBSET Slots /\ raw = FALSE
      /\ mutex \in Nat /\ cond \in Nat
      /\ th[t].need = {s} => next = "do" /\ more = {}
      /\ next = "do" => more = {}
  BY <1>1, <1>3 DEF ThreadStates, PlaceOK, Placed
<1> HIDE DEF next, more, mutex, cond, raw
<1>5. r \in ThreadStates
  BY <1>1, <1>4 DEF ThreadStates
<1>6. /\ r.pc = next /\ r.op = th[t].op /\ r.need = more /\ r.at = th[t].at
      /\ r.raw = FALSE /\ r.mutex = mutex /\ r.calls = th[t].calls
      /\ r.holds = th[t].holds
  BY <1>1, <1>4 DEF ThreadStates
<1> HIDE DEF r
<1>7. Placed(r)
  BY <1>1, <1>4, <1>6 DEF PlaceOK, Placed, more, ThreadStates, Resolving, Remaking
<1>8. Counted(r)
  BY <1>4, <1>6 DEF CallsOK, Counted
<1>9. Knows(r, slot["mutex"])
  <2>1. CASE s = "mutex"
    BY <1>4, <1>6, <2>1 DEF Knows, mutex
  <2>2. CASE s # "mutex"
    BY <1>4, <1>6, <2>2 DEF ResolvedOK, Knows, HasMutex, UsesMutex, mutex, more
  <2> QED
    BY <2>1, <2>2
<1>10. "mutex" \in made \/ r.holds = 0
  BY <1>6 DEF RemakeAlone
<1>11. /\ th' \in [Threads -> ThreadStates]
       /\ th'[t] = r
       /\ \A u \in Threads : u # t => th'[u] = th[u]
       /\ PlaceOK' /\ CallsOK' /\ ResolvedOK' /\ RemakeAlone'
  BY <1>2, <1>5, <1>6, <1>7, <1>8, <1>9, <1>10, PlainStep DEF UsesMutex
<1>12. /\ heap' \in Seq(Objects) /\ Len(heap') = Len(heap) /\ DOMAIN heap' = DOMAIN heap
       /\ \A i \in DOMAIN heap :
            heap'[i].owner = heap[i].owner /\ heap'[i].count = heap[i].count
  <2>1. CASE slot[s] - MagicTop \in DOMAIN heap
    <3> DEFINE o == [heap[slot[s] - MagicTop] EXCEPT !.seen = @ \cup {t}]
    <3>1. heap[slot[s] - MagicTop] \in Objects
      BY <2>1 DEF TypeOK
    <3>2. o \in Objects
      BY <3>1 DEF Objects
    <3>3. /\ o.owner = heap[slot[s] - MagicTop].owner
          /\ o.count = heap[slot[s] - MagicTop].count
      BY <3>1 DEF Objects
    <3>4. heap' = [heap EXCEPT ![slot[s] - MagicTop] = o]
      BY <1>2
    <3> HIDE DEF o
    <3> QED
      BY <2>1, <3>2, <3>3, <3>4 DEF TypeOK
  <2>2. CASE slot[s] - MagicTop \notin DOMAIN heap
    <3>1. heap' = heap
      BY <1>2, <2>2, UpdateOutside DEF TypeOK
    <3> QED
      BY <3>1 DEF TypeOK
  <2> QED
    BY <2>1, <2>2
<1>13. TypeOK'
  BY <1>2, <1>11, <1>12 DEF TypeOK
<1>14. GLockOK'
  BY <1>4, <1>6, <1>11, GLockKept
<1>15. LockOK'
  BY <1>6, <1>11, <1>12, LocksKept
<1> QED
  BY <1>11, <1>13, <1>14, <1>15

\* FastRead: the slot is read without g_lock.
LEMMA FastReadStep ==
  ASSUME IInv, ~torn', NEW t \in Threads, FastRead(t)
  PROVE  IInv'
<1> USE BridgeAssumption DEF IInv, Parts, MagicTop
<1>1. PICK s \in th[t].need :
        IF IS_HEAP_PTR(slot[s])
          THEN Resolved(t, s)
          ELSE /\ th' = [th EXCEPT ![t].pc = "enter", ![t].at = s]
               /\ UNCHANGED <<heap, torn>>
  BY DEF FastRead
<1>2. th[t].pc = "resolve" /\ slot' = slot /\ g_lock' = g_lock /\ made' = made /\ fault' = fault
  BY DEF FastRead
<1>3. th[t] \in ThreadStates /\ s \in Slots
  BY DEF TypeOK, ThreadStates
<1>4. CASE IS_HEAP_PTR(slot[s])
  BY <1>1, <1>2, <1>3, <1>4, ResolvedStep DEF IS_HEAP_PTR
<1>5. CASE ~IS_HEAP_PTR(slot[s])
  <2> DEFINE r == [th[t] EXCEPT !.pc = "enter", !.at = s]
  <2>1. th' = [th EXCEPT ![t] = r] /\ heap' = heap /\ torn' = torn
    BY <1>1, <1>5
  <2>2. r \in ThreadStates
    BY <1>3 DEF ThreadStates
  <2>3. /\ r.pc = "enter" /\ r.op = th[t].op /\ r.need = th[t].need /\ r.at = s
        /\ r.raw = th[t].raw /\ r.mutex = th[t].mutex /\ r.calls = th[t].calls
        /\ r.holds = th[t].holds
    BY <1>3 DEF ThreadStates
  <2> HIDE DEF r
  <2>4. Placed(r)
    BY <1>2, <2>3 DEF PlaceOK, Placed, Resolving, Remaking
  <2>5. Counted(r) /\ Knows(r, slot["mutex"])
    BY <1>2, <2>3 DEF CallsOK, Counted, ResolvedOK, Knows, HasMutex, UsesMutex
  <2>6. "mutex" \in made \/ r.holds = 0
    BY <2>3 DEF RemakeAlone
  <2>7. /\ th' \in [Threads -> ThreadStates]
        /\ th'[t] = r
        /\ \A u \in Threads : u # t => th'[u] = th[u]
        /\ PlaceOK' /\ CallsOK' /\ ResolvedOK' /\ RemakeAlone'
    BY <1>2, <2>1, <2>2, <2>3, <2>4, <2>5, <2>6, PlainStep DEF UsesMutex
  <2>8. TypeOK'
    BY <1>2, <2>1, <2>7 DEF TypeOK
  <2>9. GLockOK'
    BY <1>2, <2>3, <2>7, GLockKept
  <2>10. LockOK'
    BY <1>2, <2>1, <2>3, <2>7, LocksKept
  <2> QED
    BY <2>7, <2>8, <2>9, <2>10
<1> QED
  BY <1>4, <1>5

\* Reread: after g_lock the slot is read once more.
LEMMA RereadStep ==
  ASSUME IInv, ~torn', NEW t \in Threads, Reread(t)
  PROVE  IInv'
<1>1. /\ th[t].pc = "reread" /\ Resolved(t, th[t].at)
      /\ slot' = slot /\ g_lock' = g_lock /\ made' = made /\ fault' = fault
  BY DEF Reread
<1>2. th[t].at \in Slots
  BY DEF IInv, TypeOK, ThreadStates
<1>3. th[t].at \in th[t].need /\ (th[t].at = "mutex" => slot["mutex"] > MagicTop)
  BY <1>1 DEF IInv, Parts, PlaceOK, Placed, ResolvedOK, Knows
<1> QED
  BY <1>1, <1>2, <1>3, ResolvedStep

\* A step of t under g_lock, towards its release.
LEMMA LeavingRecord ==
  ASSUME IInv, NEW t \in Threads, th[t].pc = "inside",
         th' = [th EXCEPT ![t].pc = "leave"]
  PROVE  /\ th' \in [Threads -> ThreadStates]
         /\ \A u \in Threads : u # t => th'[u] = th[u]
         /\ \A u \in Threads : /\ th'[u].holds = th[u].holds
                               /\ th'[u].op = th[u].op /\ th'[u].at = th[u].at
                               /\ th'[u].need = th[u].need /\ th'[u].mutex = th[u].mutex
         /\ th'[t].pc = "leave"
         /\ PlaceOK' /\ CallsOK'
         /\ g_lock' = g_lock => GLockOK'
         /\ ("mutex" \in made' <=> "mutex" \in made) => RemakeAlone'
<1> DEFINE r == [th[t] EXCEPT !.pc = "leave"]
<1>1. th[t] \in ThreadStates /\ th' = [th EXCEPT ![t] = r]
  BY DEF IInv, TypeOK
<1>2. /\ r \in ThreadStates
      /\ r.pc = "leave" /\ r.op = th[t].op /\ r.need = th[t].need /\ r.at = th[t].at
      /\ r.raw = th[t].raw /\ r.mutex = th[t].mutex /\ r.calls = th[t].calls
      /\ r.holds = th[t].holds
  BY <1>1 DEF ThreadStates
<1> HIDE DEF r
<1>3. /\ th' \in [Threads -> ThreadStates]
      /\ th'[t] = r
      /\ \A u \in Threads : u # t => th'[u] = th[u]
  BY <1>1, <1>2 DEF IInv, TypeOK
<1>4. PlaceOK'
  BY <1>2, <1>3 DEF IInv, Parts, PlaceOK, Placed
<1>5. CallsOK'
  BY <1>2, <1>3 DEF IInv, Parts, CallsOK, Counted
<1>6. g_lock' = g_lock => GLockOK'
  BY <1>2, <1>3 DEF IInv, Parts, GLockOK
<1>7. ("mutex" \in made' <=> "mutex" \in made) => RemakeAlone'
  BY <1>2, <1>3 DEF IInv, Parts, RemakeAlone, UsesMutex
<1> QED
  BY <1>2, <1>3, <1>4, <1>5, <1>6, <1>7

\* Without an object in the slot, nobody holds the mutex.
LEMMA NobodyHolds ==
  ASSUME IInv, ~(slot["mutex"] > MagicTop), NEW u \in Threads
  PROVE  th[u].holds = 0
<1>1. th[u].holds \in Nat
  BY DEF IInv, TypeOK, ThreadStates
<1> QED
  BY <1>1, ObjectOfSlot DEF IInv, Parts, LockOK

\* Create: the slot is read under g_lock, and filled if it is empty.
LEMMA CreateStep ==
  ASSUME IInv, NEW t \in Threads, Create(t)
  PROVE  IInv'
<1> USE BridgeAssumption DEF IInv, Parts, MagicTop, Slots
<1>1. /\ th[t].pc = "inside" /\ th[t].op \in Resolving
      /\ th' = [th EXCEPT ![t].pc = "leave"]
      /\ g_lock' = g_lock /\ made' = made /\ fault' = fault /\ torn' = torn
      /\ IF IS_HEAP_PTR(slot[th[t].at])
           THEN slot' = slot /\ heap' = heap
           ELSE Made(t, th[t].at)
  BY DEF Create
<1>2. /\ th' \in [Threads -> ThreadStates]
      /\ \A u \in Threads : u # t => th'[u] = th[u]
      /\ \A u \in Threads : /\ th'[u].holds = th[u].holds
                            /\ th'[u].op = th[u].op /\ th'[u].at = th[u].at
                            /\ th'[u].need = th[u].need /\ th'[u].mutex = th[u].mutex
      /\ th'[t].pc = "leave"
      /\ PlaceOK' /\ CallsOK' /\ GLockOK' /\ RemakeAlone'
  BY <1>1, LeavingRecord
<1>3. th[t].at \in Slots
  BY DEF TypeOK, ThreadStates
<1>4. CASE IS_HEAP_PTR(slot[th[t].at])
  <2>1. slot' = slot /\ heap' = heap
    BY <1>1, <1>4
  <2>2. TypeOK'
    BY <1>1, <1>2, <2>1 DEF TypeOK
  <2>3. ResolvedOK'
    BY <1>2, <1>4, <2>1 DEF ResolvedOK, Knows, HasMutex, UsesMutex, IS_HEAP_PTR
  <2>4. LockOK'
    BY <1>2, <2>1, LocksKept
  <2> QED
    BY <1>2, <2>2, <2>3, <2>4
<1>5. CASE ~IS_HEAP_PTR(slot[th[t].at])
  <2>1. /\ heap' = Append(heap, NewObject(t))
        /\ slot' = [slot EXCEPT ![th[t].at] = 1 + Len(heap) + 1]
    BY <1>1, <1>5 DEF Made
  <2>2. heap' \in Seq(Objects) /\ Len(heap') = Len(heap) + 1 /\ Len(heap) \in Nat
    <3>1. NewObject(t) \in Objects
      BY DEF NewObject, Objects
    <3> QED
      BY <2>1, <3>1 DEF TypeOK
  <2>3. slot' \in [Slots -> 0..(1 + Len(heap'))]
    <3>1. slot \in [Slots -> 0..(1 + Len(heap'))]
      BY <2>2 DEF TypeOK
    <3>2. 1 + Len(heap) + 1 \in 0..(1 + Len(heap'))
      BY <2>2
    <3> QED
      BY <1>3, <2>1, <3>1, <3>2
  <2>4. TypeOK'
    BY <1>1, <1>2, <2>2, <2>3 DEF TypeOK
  <2>5. CASE th[t].at = "mutex"
    <3>1. ~(slot["mutex"] > MagicTop) /\ slot'["mutex"] > MagicTop
      BY <1>5, <2>1, <2>2, <2>5 DEF IS_HEAP_PTR, TypeOK
    <3>2. ResolvedOK'
      BY <1>2, <3>1 DEF ResolvedOK, Knows, HasMutex, UsesMutex
    <3>3. \A u \in Threads : th[u].holds = 0
      BY <3>1, NobodyHolds
    <3>4. LockOK'
      BY <1>2, <2>1, <3>3, LocksKeptByMaking
    <3> QED
      BY <1>2, <2>4, <3>2, <3>4
  <2>6. CASE th[t].at # "mutex"
    <3>1. slot'["mutex"] = slot["mutex"]
      BY <2>1, <2>6 DEF TypeOK
    <3>2. ResolvedOK'
      BY <1>2, <2>6, <3>1 DEF ResolvedOK, Knows, HasMutex, UsesMutex
    <3>3. LockOK'
      BY <1>2, <2>1, <3>1, LocksKeptByMaking
    <3> QED
      BY <1>2, <2>4, <3>2, <3>3
  <2> QED
    BY <2>5, <2>6
<1> QED
  BY <1>4, <1>5

\* Who remakes the mutex knows that nobody holds it and nobody uses it.
LEMMA RemakerAlone ==
  ASSUME IInv, NEW t \in Threads, UsesMutex(th[t]), th[t].op \in Remaking
  PROVE  /\ "mutex" \notin made
         /\ \A u \in Threads : th[u].holds = 0
         /\ \A u \in Threads : u # t => ~UsesMutex(th[u])
         /\ \A u \in Threads : ~(UsesMutex(th[u]) /\ th[u].op \in Resolving)
BY DEF IInv, Parts, RemakeAlone, Resolving, Remaking

\* Whoever is about to read the slot of the mutex again uses the mutex.
LEMMA ResolverUses ==
  ASSUME IInv, NEW u \in Threads, th[u].op \in Resolving, th[u].at = "mutex",
         th[u].pc \in {"enter", "inside", "leave", "reread"}
  PROVE  UsesMutex(th[u])
<1>1. "mutex" \in Uses(th[u].op) /\ th[u].op \in Ops
  BY DEF IInv, Parts, PlaceOK, Placed, Ops
<1> QED
  BY <1>1, UsesFacts DEF UsesMutex

\* InitMutex: a new object, whatever the slot held.
LEMMA InitMutexStep ==
  ASSUME IInv, NEW t \in Threads, InitMutex(t)
  PROVE  IInv'
<1> USE BridgeAssumption DEF IInv, Parts, MagicTop, Slots
<1>1. /\ th[t].pc = "inside" /\ th[t].op = "mutex_init"
      /\ heap' = Append(heap, NewObject(t))
      /\ slot' = [slot EXCEPT !["mutex"] = 1 + Len(heap) + 1]
      /\ th' = [th EXCEPT ![t].pc = "leave"]
      /\ g_lock' = g_lock /\ made' = made /\ fault' = fault /\ torn' = torn
  BY DEF InitMutex, Made
<1>2. /\ th' \in [Threads -> ThreadStates]
      /\ \A u \in Threads : u # t => th'[u] = th[u]
      /\ \A u \in Threads : /\ th'[u].holds = th[u].holds
                            /\ th'[u].op = th[u].op /\ th'[u].at = th[u].at
                            /\ th'[u].need = th[u].need /\ th'[u].mutex = th[u].mutex
      /\ th'[t].pc = "leave"
      /\ PlaceOK' /\ CallsOK' /\ GLockOK' /\ RemakeAlone'
  BY <1>1, LeavingRecord
<1>3. /\ \A u \in Threads : th[u].holds = 0
      /\ \A u \in Threads : ~(UsesMutex(th[u]) /\ th[u].op \in Resolving)
  BY <1>1, RemakerAlone DEF UsesMutex, MutexOps, Remaking
<1>4. heap' \in Seq(Objects) /\ Len(heap') = Len(heap) + 1 /\ Len(heap) \in Nat
  <2>1. NewObject(t) \in Objects
    BY DEF NewObject, Objects
  <2> QED
    BY <1>1, <2>1 DEF TypeOK
<1>5. slot' \in [Slots -> 0..(1 + Len(heap'))] /\ slot'["mutex"] > MagicTop
  BY <1>1, <1>4 DEF TypeOK
<1>6. TypeOK'
  BY <1>1, <1>2, <1>4, <1>5 DEF TypeOK
<1>7. ResolvedOK'
  BY <1>2, <1>3, <1>5 DEF ResolvedOK, Knows, HasMutex, UsesMutex
<1>8. LockOK'
  BY <1>1, <1>2, <1>3, LocksKeptByMaking
<1> QED
  BY <1>2, <1>6, <1>7, <1>8

\* ResetCond: the slot of the condition variable is emptied.
LEMMA ResetCondStep ==
  ASSUME IInv, NEW t \in Threads, ResetCond(t)
  PROVE  IInv'
<1> USE BridgeAssumption DEF IInv, Parts, MagicTop, Slots
<1>1. /\ th[t].pc = "inside" /\ th[t].op = "cond_init"
      /\ heap' = heap /\ slot' = [slot EXCEPT !["cond"] = 0]
      /\ th' = [th EXCEPT ![t].pc = "leave"]
      /\ g_lock' = g_lock /\ made' = made /\ fault' = fault /\ torn' = torn
  BY DEF ResetCond
<1>2. /\ th' \in [Threads -> ThreadStates]
      /\ \A u \in Threads : u # t => th'[u] = th[u]
      /\ \A u \in Threads : /\ th'[u].holds = th[u].holds
                            /\ th'[u].op = th[u].op /\ th'[u].at = th[u].at
                            /\ th'[u].need = th[u].need /\ th'[u].mutex = th[u].mutex
      /\ th'[t].pc = "leave"
      /\ PlaceOK' /\ CallsOK' /\ GLockOK' /\ RemakeAlone'
  BY <1>1, LeavingRecord
<1>3. slot' \in [Slots -> 0..(1 + Len(heap'))] /\ slot'["mutex"] = slot["mutex"]
  BY <1>1 DEF TypeOK
<1>4. TypeOK'
  BY <1>1, <1>2, <1>3 DEF TypeOK
<1>5. th[t].op \notin Resolving
  BY <1>1 DEF Resolving
<1>6. ResolvedOK'
  BY <1>2, <1>3, <1>5 DEF ResolvedOK, Knows, HasMutex, UsesMutex
<1>7. LockOK'
  BY <1>1, <1>2, <1>3, LocksKept
<1> QED
  BY <1>2, <1>4, <1>6, <1>7

\* Destroy: the slot is emptied; the object is nobody's.
LEMMA DestroyStep ==
  ASSUME IInv, NEW t \in Threads, Destroy(t)
  PROVE  IInv'
<1> USE BridgeAssumption DEF IInv, Parts, MagicTop, Slots
<1>1. /\ th[t].pc = "inside" /\ th[t].op \in {"mutex_destroy", "cond_destroy"}
      /\ heap' = heap /\ slot' = [slot EXCEPT ![th[t].at] = 0]
      /\ th' = [th EXCEPT ![t].pc = "leave"]
      /\ g_lock' = g_lock /\ made' = made
      /\ fault' \in BOOLEAN /\ torn' = torn
  BY DEF Destroy
<1>2. /\ th' \in [Threads -> ThreadStates]
      /\ \A u \in Threads : u # t => th'[u] = th[u]
      /\ \A u \in Threads : /\ th'[u].holds = th[u].holds
                            /\ th'[u].op = th[u].op /\ th'[u].at = th[u].at
                            /\ th'[u].need = th[u].need /\ th'[u].mutex = th[u].mutex
      /\ th'[t].pc = "leave"
      /\ PlaceOK' /\ CallsOK' /\ GLockOK' /\ RemakeAlone'
  BY <1>1, LeavingRecord
<1>3. slot' \in [Slots -> 0..(1 + Len(heap'))]
  <2>1. 0 \in 0..(1 + Len(heap)) /\ slot \in [Slots -> 0..(1 + Len(heap))]
    BY DEF TypeOK
  <2> QED
    BY <1>1, <2>1
<1>4. TypeOK'
  BY <1>1, <1>2, <1>3 DEF TypeOK
<1>5. th[t].op \notin Resolving /\ th[t].op \in Remaking /\ th[t].at \in Slots
  BY <1>1 DEF Resolving, Remaking, TypeOK, ThreadStates
<1>6. CASE th[t].at = "mutex"
  <2>1. UsesMutex(th[t])
    <3>1. "mutex" \in Uses(th[t].op) /\ th[t].op \in Ops
      BY <1>5, <1>6 DEF PlaceOK, Placed, Ops
    <3> QED
      BY <3>1, UsesFacts DEF UsesMutex
  <2>2. /\ \A u \in Threads : th[u].holds = 0
        /\ \A u \in Threads : ~(UsesMutex(th[u]) /\ th[u].op \in Resolving)
    BY <1>5, <2>1, RemakerAlone
  <2>3. ResolvedOK'
    <3> SUFFICES ASSUME NEW u \in Threads PROVE Knows(th'[u], slot'["mutex"])
      BY DEF ResolvedOK
    <3>1. CASE u = t
      BY <1>2, <1>5, <3>1 DEF Knows, HasMutex
    <3>2. CASE u # t
      BY <1>2, <2>2, <3>2, ResolverUses DEF Knows, HasMutex
    <3> QED
      BY <3>1, <3>2
  <2>4. LockOK'
    <3>1. \A i \in DOMAIN heap : \A u \in Threads : heap[i].owner # u
      <4> SUFFICES ASSUME NEW i \in DOMAIN heap, NEW u \in Threads, heap[i].owner = u
                   PROVE  FALSE
        OBVIOUS
      <4>1. th[u].holds = 0
        BY <2>2
      <4>2. th[u].holds > 0
        BY DEF LockOK
      <4> QED
        BY <4>1, <4>2
    <3> QED
      BY <1>1, <1>2, <2>2, <3>1 DEF LockOK
  <2> QED
    BY <1>2, <1>4, <2>3, <2>4
<1>7. CASE th[t].at # "mutex"
  <2>1. slot'["mutex"] = slot["mutex"]
    BY <1>1, <1>7 DEF TypeOK
  <2>2. ResolvedOK'
    BY <1>2, <1>5, <2>1 DEF ResolvedOK, Knows, HasMutex, UsesMutex
  <2>3. LockOK'
    BY <1>1, <1>2, <2>1, LocksKept
  <2> QED
    BY <1>2, <1>4, <2>2, <2>3
<1> QED
  BY <1>6, <1>7

\* A call returns: nothing of it is left but the locks and the calls to come.
LEMMA ReturnedRecord ==
  ASSUME IInv, NEW t \in Threads, NEW h \in Nat, th[t].need = {},
         h + th[t].calls <= MaxCalls,
         "mutex" \in made \/ h = 0
  PROVE  LET r == [Returned(t) EXCEPT !.holds = h]
         IN  /\ r \in ThreadStates
             /\ r.pc = "idle" /\ r.op = "none" /\ r.holds = h
             /\ Placed(r) /\ Counted(r) /\ Knows(r, slot["mutex"]) /\ ~UsesMutex(r)
<1> DEFINE r == [Returned(t) EXCEPT !.holds = h]
<1>1. th[t] \in ThreadStates /\ Placed(th[t])
  BY DEF IInv, TypeOK, Parts, PlaceOK
<1>2. r \in ThreadStates
  BY <1>1 DEF Returned, ThreadStates
<1>3. /\ r.pc = "idle" /\ r.op = "none" /\ r.need = {} /\ r.holds = h
      /\ r.raw = FALSE /\ r.calls = th[t].calls
  BY <1>1 DEF Returned, ThreadStates
<1> HIDE DEF r
<1>4. ~UsesMutex(r)
  BY <1>3 DEF UsesMutex, MutexOps
<1>5. Counted(r)
  BY <1>3 DEF Counted
<1>6. Knows(r, slot["mutex"])
  BY <1>3, <1>4 DEF Knows, HasMutex, Resolving
<1>7. Placed(r)
  <2>1. Uses("none") = {}
    BY UsesFacts DEF Ops
  <2> QED
    BY <1>3, <2>1 DEF Placed, Resolving, Remaking
<1> QED
  BY <1>2, <1>3, <1>4, <1>5, <1>6, <1>7 DEF r

\* LeaveG: g_lock is let go, which shows its holder's stores to everybody.
LEMMA LeaveGStep ==
  ASSUME IInv, ~torn', NEW t \in Threads, LeaveG(t)
  PROVE  IInv'
<1> USE BridgeAssumption DEF IInv, Parts, MagicTop
<1>1. /\ th[t].pc = "leave" /\ g_lock' = NoOne
      /\ heap' = [i \in DOMAIN heap |-> Settled(heap[i])]
      /\ slot' = slot /\ fault' = fault /\ torn' = FALSE
  BY DEF LeaveG
<1>2. th[t] \in ThreadStates /\ Placed(th[t]) /\ Counted(th[t]) /\ Knows(th[t], slot["mutex"])
  BY DEF TypeOK, PlaceOK, CallsOK, ResolvedOK
<1>3. /\ heap' \in Seq(Objects) /\ Len(heap') = Len(heap) /\ DOMAIN heap' = DOMAIN heap
      /\ \A i \in DOMAIN heap :
           heap'[i].owner = heap[i].owner /\ heap'[i].count = heap[i].count
  <2>0. ASSUME NEW o \in Objects
        PROVE  /\ Settled(o) \in Objects
               /\ Settled(o).owner = o.owner
               /\ Settled(o).count = o.count
    BY DEF Objects, Settled
  <2>1. \A i \in DOMAIN heap :
          /\ Settled(heap[i]) \in Objects
          /\ Settled(heap[i]).owner = heap[i].owner
          /\ Settled(heap[i]).count = heap[i].count
    BY <2>0, ObjectOfSlot
  <2>2. DOMAIN heap' = 1..Len(heap) /\ DOMAIN heap = 1..Len(heap) /\ Len(heap) \in Nat
    BY <1>1 DEF TypeOK
  <2>3. \A i \in 1..Len(heap) : heap'[i] = Settled(heap[i])
    BY <1>1, <2>2
  <2>4. \A i \in 1..Len(heap) : heap'[i] \in Objects
    BY <2>1, <2>2, <2>3
  <2>5. heap' = [i \in 1..Len(heap) |-> heap'[i]]
    BY <1>1, <2>2
  <2>6. heap' \in Seq(Objects) /\ Len(heap') = Len(heap)
    BY <2>2, <2>4, <2>5
  <2> QED
    BY <2>1, <2>2, <2>3, <2>6
<1>4. ASSUME NEW r \in ThreadStates, th' = [th EXCEPT ![t] = r], r.holds = th[t].holds,
             Placed(r), Counted(r), Knows(r, slot["mutex"]), made' \subseteq Slots,
             r.pc \notin {"inside", "leave"},
             RemakeAlone'
      PROVE  IInv'
  <2>1. /\ th' \in [Threads -> ThreadStates]
        /\ th'[t] = r
        /\ \A u \in Threads : u # t => th'[u] = th[u]
    BY <1>4 DEF TypeOK
  <2>2. PlaceOK' /\ CallsOK' /\ ResolvedOK'
    BY <1>1, <1>4, <2>1 DEF PlaceOK, CallsOK, ResolvedOK
  <2>3. GLockOK'
    BY <1>1, <1>4, <2>1 DEF GLockOK
  <2>4. LockOK'
    BY <1>1, <1>3, <1>4, <2>1, LocksKept
  <2>5. TypeOK'
    BY <1>1, <1>3, <1>4, <2>1 DEF TypeOK
  <2> QED
    BY <1>4, <2>2, <2>3, <2>4, <2>5
<1>5. "mutex" \in made \/ th[t].holds = 0
  BY DEF RemakeAlone
<1>6. CASE th[t].op \in Resolving
  <2> DEFINE r == [th[t] EXCEPT !.pc = "reread"]
  <2>1. th' = [th EXCEPT ![t] = r] /\ made' = made
    BY <1>6 DEF LeaveG, Resolving
  <2>2. /\ r \in ThreadStates
        /\ r.pc = "reread" /\ r.op = th[t].op /\ r.need = th[t].need /\ r.at = th[t].at
        /\ r.raw = th[t].raw /\ r.mutex = th[t].mutex /\ r.calls = th[t].calls
        /\ r.holds = th[t].holds
    BY <1>2 DEF ThreadStates
  <2> HIDE DEF r
  <2>3. Placed(r) /\ Counted(r)
    BY <1>1, <1>2, <1>6, <2>2 DEF Placed, Counted, Resolving, Remaking
  <2>4. Knows(r, slot["mutex"])
    BY <1>1, <1>2, <1>6, <2>2 DEF Knows, HasMutex, UsesMutex
  <2>5. RemakeAlone'
    BY <1>1, <1>5, <2>1, <2>2, <2>3, <2>4, PlainStep DEF UsesMutex
  <2> QED
    BY <1>4, <2>1, <2>2, <2>3, <2>4, <2>5 DEF TypeOK
<1>7. CASE th[t].op = "cond_init"
  <2> DEFINE r == [th[t] EXCEPT !.pc = "resolve", !.op = "cond_lazy", !.need = {"cond"}]
  <2>1. th' = [th EXCEPT ![t] = r] /\ made' = made
    BY <1>7 DEF LeaveG, Resolving
  <2>2. r \in ThreadStates
    BY <1>2 DEF ThreadStates, Resolving, Slots
  <2>3. /\ r.pc = "resolve" /\ r.op = "cond_lazy" /\ r.need = {"cond"} /\ r.at = th[t].at
        /\ r.raw = th[t].raw /\ r.mutex = th[t].mutex /\ r.calls = th[t].calls
        /\ r.holds = th[t].holds
    BY <1>2 DEF ThreadStates
  <2> HIDE DEF r
  <2>4. Placed(r)
    BY <1>2, <2>3 DEF Placed, Resolving, Remaking, Uses
  <2>5. Counted(r)
    BY <1>1, <1>2, <2>3 DEF Counted
  <2>6. ~UsesMutex(r)
    BY <2>3 DEF UsesMutex, MutexOps
  <2>7. Knows(r, slot["mutex"])
    BY <2>3, <2>6 DEF Knows, HasMutex
  <2>8. RemakeAlone'
    BY <1>1, <1>5, <2>1, <2>2, <2>3, <2>4, <2>5, <2>6, <2>7, PlainStep
  <2> QED
    BY <1>4, <2>1, <2>2, <2>3, <2>4, <2>5, <2>7, <2>8 DEF TypeOK
<1>8. CASE th[t].op \in {"mutex_init", "mutex_destroy", "cond_destroy"}
  <2> DEFINE r == [Returned(t) EXCEPT !.holds = th[t].holds]
  <2>1. /\ th' = [th EXCEPT ![t] = Returned(t)]
        /\ made' = IF th[t].op = "mutex_init" THEN made \cup {"mutex"} ELSE made
    BY <1>8 DEF LeaveG, Resolving
  <2>2. th[t].op \in Remaking /\ th[t].need = {}
    BY <1>2, <1>8 DEF Placed, Remaking
  <2>3. th[t].holds \in Nat /\ th[t].holds + th[t].calls <= MaxCalls
    BY <1>2 DEF ThreadStates, Counted
  <2>4. /\ r \in ThreadStates
        /\ r.pc = "idle" /\ r.op = "none" /\ r.holds = th[t].holds
        /\ Placed(r) /\ Counted(r) /\ Knows(r, slot["mutex"]) /\ ~UsesMutex(r)
    BY <1>5, <2>2, <2>3, ReturnedRecord
  <2>5. r = Returned(t)
    BY <1>2 DEF Returned, ThreadStates
  <2> HIDE DEF r
  <2>6. th' = [th EXCEPT ![t] = r]
    BY <2>1, <2>5
  <2>7. RemakeAlone'
    <3>1. CASE th[t].op = "mutex_init"
      <4>1. \A u \in Threads : u # t => ~UsesMutex(th[u])
        BY <2>2, <3>1, RemakerAlone DEF UsesMutex, MutexOps
      <4>2. \A u \in Threads : ~UsesMutex(th'[u])
        BY <2>4, <2>6, <4>1 DEF TypeOK
      <4>3. "mutex" \in made'
        BY <2>1, <3>1
      <4> QED
        BY <4>2, <4>3 DEF RemakeAlone, UsesMutex
    <3>2. CASE th[t].op # "mutex_init"
      <4>1. made' = made
        BY <2>1, <3>2
      <4> QED
        BY <1>1, <1>5, <2>4, <2>6, <4>1, PlainStep
    <3> QED
      BY <3>1, <3>2
  <2>8. made' \subseteq Slots
    BY <2>1 DEF TypeOK, Slots
  <2> QED
    BY <1>4, <2>4, <2>6, <2>7, <2>8
<1>9. th[t].op \in Resolving \cup Remaking
  BY <1>1, <1>2 DEF Placed, ThreadStates
<1> QED
  BY <1>6, <1>7, <1>8, <1>9 DEF Remaking

\* A call that returns with the locks it came with.
LEMMA PlainReturn ==
  ASSUME IInv, NEW t \in Threads, th[t].pc = "do",
         th' = [th EXCEPT ![t] = Returned(t)],
         slot' = slot, heap' = heap, g_lock' = g_lock, fault' = fault /\ torn' = torn,
         made' \subseteq Slots, "mutex" \in made' <=> "mutex" \in made
  PROVE  IInv'
<1> USE BridgeAssumption DEF IInv, Parts, MagicTop
<1> DEFINE r == [Returned(t) EXCEPT !.holds = th[t].holds]
<1>1. th[t] \in ThreadStates /\ Placed(th[t]) /\ Counted(th[t])
  BY DEF TypeOK, PlaceOK, CallsOK
<1>2. "mutex" \in made \/ th[t].holds = 0
  BY DEF RemakeAlone
<1>3. /\ th[t].need = {} /\ th[t].holds \in Nat
      /\ th[t].holds + th[t].calls <= MaxCalls
  BY <1>1 DEF Placed, Counted, ThreadStates
<1>4. /\ r \in ThreadStates
      /\ r.pc = "idle" /\ r.op = "none" /\ r.holds = th[t].holds
      /\ Placed(r) /\ Counted(r) /\ Knows(r, slot["mutex"]) /\ ~UsesMutex(r)
  BY <1>2, <1>3, ReturnedRecord
<1>5. r = Returned(t)
  BY <1>1 DEF Returned, ThreadStates
<1> HIDE DEF r
<1>6. /\ th' \in [Threads -> ThreadStates]
      /\ th'[t] = r
      /\ \A u \in Threads : u # t => th'[u] = th[u]
      /\ PlaceOK' /\ CallsOK' /\ ResolvedOK' /\ RemakeAlone'
  BY <1>2, <1>4, <1>5, PlainStep
<1>7. TypeOK'
  BY <1>6 DEF TypeOK
<1>8. GLockOK'
  BY <1>4, <1>6, GLockKept
<1>9. LockOK'
  BY <1>4, <1>6, LocksKept
<1> QED
  BY <1>6, <1>7, <1>8, <1>9

\* CondReady: pthread_cond_init is done.
LEMMA CondReadyStep ==
  ASSUME IInv, NEW t \in Threads, CondReady(t)
  PROVE  IInv'
<1> USE BridgeAssumption DEF IInv, Parts, MagicTop
<1>1. /\ th[t].pc = "do" /\ th[t].op = "cond_lazy"
      /\ th' = [th EXCEPT ![t] = Returned(t)]
      /\ made' = made \cup {"cond"}
      /\ slot' = slot /\ heap' = heap /\ g_lock' = g_lock /\ fault' = fault /\ torn' = torn
  BY DEF CondReady, Do
<1>2. "mutex" \in made' <=> "mutex" \in made
  BY <1>1
<1>3. made' \subseteq Slots
  BY <1>1 DEF TypeOK, Slots
<1> QED
  BY <1>1, <1>2, <1>3, PlainReturn

\* TrylockFails: EBUSY.
LEMMA TrylockFailsStep ==
  ASSUME IInv, NEW t \in Threads, TrylockFails(t)
  PROVE  IInv'
<1>1. /\ th[t].pc = "do" /\ th' = [th EXCEPT ![t] = Returned(t)]
      /\ slot' = slot /\ heap' = heap /\ g_lock' = g_lock /\ fault' = fault /\ torn' = torn /\ made' = made
  BY DEF TrylockFails, Do, Quietly
<1>2. made' \subseteq Slots
  BY <1>1 DEF IInv, TypeOK
<1> QED
  BY <1>1, <1>2, PlainReturn

\* A step of t that changes the object of the mutex it knows, and its locks.
LEMMA ObjectStep ==
  ASSUME IInv, NEW t \in Threads, HasMutex(th[t]), th[t].pc \in {"do", "relock"},
         NEW o \in Objects, SetMutex(t, o),
         NEW r \in ThreadStates, th' = [th EXCEPT ![t] = r],
         Placed(r), Counted(r), Knows(r, slot["mutex"]),
         r.pc \notin {"inside", "leave"}, UsesMutex(r) => r.op \notin Remaking,
         Quietly,
         \* The object belongs to t or to nobody, and counts its locks.
         Mutex(t).owner \in {t, NoOne},
         o.owner = IF r.holds = 0 THEN NoOne ELSE t,
         o.count = r.holds
  PROVE  IInv'
<1> USE BridgeAssumption DEF IInv, Parts, MagicTop
<1> DEFINE i == slot["mutex"] - MagicTop
<1>1. /\ slot' = slot /\ g_lock' = g_lock /\ made' = made /\ fault' = fault /\ torn' = torn
  BY DEF Quietly
<1>2. /\ th[t].mutex = slot["mutex"] /\ slot["mutex"] > MagicTop
      /\ UsesMutex(th[t]) /\ th[t].op \in Resolving
  BY DEF ResolvedOK, Knows, HasMutex
<1>3. /\ i \in DOMAIN heap /\ DOMAIN heap = 1..Len(heap) /\ Len(heap) \in Nat
      /\ Mutex(t) = heap[i] /\ heap[i] \in Objects
      /\ heap' = [heap EXCEPT ![i] = o]
  BY <1>2, ObjectOfSlot DEF Mutex, Object, SetMutex
<1> HIDE DEF i
<1>4. /\ heap' \in Seq(Objects) /\ Len(heap') = Len(heap) /\ DOMAIN heap' = DOMAIN heap
      /\ heap'[i] = o
      /\ \A j \in DOMAIN heap : j # i => heap'[j] = heap[j]
  BY <1>3 DEF TypeOK
<1>5. "mutex" \in made
  BY <1>2, UserFindsMade
<1>6. /\ th' \in [Threads -> ThreadStates]
      /\ th'[t] = r
      /\ \A u \in Threads : u # t => th'[u] = th[u]
      /\ PlaceOK' /\ CallsOK' /\ ResolvedOK' /\ RemakeAlone'
  BY <1>1, <1>5, PlainStep
<1>7. TypeOK'
  BY <1>1, <1>4, <1>6 DEF TypeOK
<1>8. GLockOK'
  BY <1>1, <1>6, GLockKept
<1>9. \A u \in Threads : th[u].holds \in Nat /\ r.holds \in Nat
  BY DEF TypeOK, ThreadStates
<1>10. \A u \in Threads : u # t => th[u].holds = 0
  <2> SUFFICES ASSUME NEW u \in Threads, u # t, th[u].holds > 0 PROVE FALSE
    BY <1>9
  <2>1. heap[i].owner = u
    BY DEF LockOK, i
  <2> QED
    BY <1>3, <2>1
<1>11. \A j \in DOMAIN heap : heap[j].owner \in Threads => j = i
  BY DEF LockOK, i
<1>12. LockOK'
  <2>1. ASSUME NEW u \in Threads, th'[u].holds > 0
        PROVE  /\ slot'["mutex"] - MagicTop \in DOMAIN heap'
               /\ heap'[slot'["mutex"] - MagicTop].owner = u
    <3>1. u = t /\ r.holds # 0
      BY <1>6, <1>9, <1>10, <2>1
    <3> QED
      BY <1>1, <1>3, <1>4, <3>1 DEF i
  <2>2. ASSUME NEW j \in DOMAIN heap'
        PROVE  /\ heap'[j].owner = NoOne => heap'[j].count = 0
               /\ \A u \in Threads : heap'[j].owner = u =>
                    /\ j = slot'["mutex"] - MagicTop
                    /\ th'[u].holds > 0 /\ heap'[j].count = th'[u].holds
    <3>1. CASE j = i
      <4>1. heap'[j] = o /\ j = slot'["mutex"] - MagicTop
        BY <1>1, <1>4, <3>1 DEF i
      <4>2. CASE r.holds = 0
        BY <4>1, <4>2
      <4>3. CASE r.holds # 0
        BY <1>6, <1>9, <4>1, <4>3
      <4> QED
        BY <4>2, <4>3
    <3>2. CASE j # i
      <4>1. heap'[j] = heap[j] /\ j \in DOMAIN heap /\ heap[j].owner \notin Threads
        BY <1>4, <1>11, <2>2, <3>2
      <4> QED
        BY <4>1 DEF LockOK
    <3> QED
      BY <3>1, <3>2
  <2> QED
    BY <2>1, <2>2 DEF LockOK
<1> QED
  BY <1>6, <1>7, <1>8, <1>12

\* The arithmetic of the lock count below its modulus.
LEMMA CountUp ==
  ASSUME NEW n \in Nat, NEW m \in Nat, n + 1 < m
  PROVE  (n + 1) % m = n + 1
OBVIOUS

LEMMA CountDown ==
  ASSUME NEW n \in Nat, NEW m \in Nat, n > 0, n < m
  PROVE  (n + m - 1) % m = n - 1
OBVIOUS

\* What the object says of a thread that knows it.
LEMMA KnownMutex ==
  ASSUME IInv, NEW t \in Threads, HasMutex(th[t])
  PROVE  /\ Mutex(t) \in Objects
         /\ th[t].holds > 0 => Mutex(t).owner = t
         /\ Mutex(t).owner = t => Mutex(t).count = th[t].holds /\ th[t].holds > 0
         /\ Mutex(t).owner = NoOne => Mutex(t).count = 0
         /\ th[t].holds \in Nat
<1> USE DEF IInv, Parts, MagicTop
<1> DEFINE i == slot["mutex"] - MagicTop
<1>1. th[t].mutex = slot["mutex"] /\ slot["mutex"] > MagicTop
  BY DEF ResolvedOK, Knows
<1>2. i \in DOMAIN heap /\ Mutex(t) = heap[i] /\ heap[i] \in Objects
  BY <1>1, ObjectOfSlot DEF Mutex, Object
<1>3. th[t].holds \in Nat
  BY DEF TypeOK, ThreadStates
<1> QED
  BY <1>2, <1>3 DEF LockOK

\* Acquired and Released, for a thread that sees the mutex as it is.
LEMMA AcquiredObject ==
  ASSUME IInv, MaxCalls < CountWrap, NEW t \in Threads, HasMutex(th[t]),
         CanAcquire(t, Mutex(t)), th[t].pc # "idle"
  PROVE  /\ Mutex(t).owner \in {t, NoOne}
         /\ Acquired(t, Mutex(t)) \in Objects
         /\ Acquired(t, Mutex(t)).owner = t
         /\ Acquired(t, Mutex(t)).count = th[t].holds + 1
<1> USE BridgeAssumption
<1>1. th[t].raw = FALSE /\ th[t].holds + th[t].calls < MaxCalls
  BY DEF IInv, Parts, PlaceOK, Placed, CallsOK, Counted
<1>2. th[t].holds \in Nat /\ th[t].calls \in Nat
  BY DEF IInv, TypeOK, ThreadStates
<1>3. Mutex(t).owner \in {t, NoOne} /\ Mutex(t) \in Objects
  BY KnownMutex DEF CanAcquire
<1>4. Mutex(t).count = th[t].holds
  BY <1>2, <1>3, KnownMutex
<1>5. th[t].holds + 1 < CountWrap
  BY <1>1, <1>2
<1>6. (Mutex(t).count + 1) % CountWrap = th[t].holds + 1
  BY <1>2, <1>4, <1>5, CountUp
<1> DEFINE m == Mutex(t)
<1>7. Acquired(t, m) = [m EXCEPT !.owner = t, !.count = th[t].holds + 1]
  BY <1>1, <1>6 DEF Acquired
<1>8. th[t].holds + 1 \in 0..(CountWrap - 1)
  BY <1>2, <1>5
<1> HIDE DEF m
<1>9. m \in Objects
  BY <1>3 DEF m
<1>10. /\ Acquired(t, m) \in Objects /\ Acquired(t, m).owner = t
       /\ Acquired(t, m).count = th[t].holds + 1
  BY <1>7, <1>8, <1>9 DEF Objects
<1> QED
  BY <1>3, <1>10 DEF m

LEMMA ReleasedObject ==
  ASSUME IInv, MaxCalls < CountWrap, NEW t \in Threads, HasMutex(th[t]), th[t].holds > 0
  PROVE  /\ Mutex(t).owner = t
         /\ Released(t, Mutex(t)) \in Objects
         /\ Released(t, Mutex(t)).owner = IF th[t].holds - 1 = 0 THEN NoOne ELSE t
         /\ Released(t, Mutex(t)).count = th[t].holds - 1
<1> USE BridgeAssumption
<1>1. th[t].raw = FALSE /\ th[t].holds + th[t].calls <= MaxCalls
  BY DEF IInv, Parts, PlaceOK, Placed, CallsOK, Counted
<1>2. th[t].holds \in Nat /\ th[t].calls \in Nat
  BY DEF IInv, TypeOK, ThreadStates
<1> DEFINE m == Mutex(t)
           n == th[t].holds - 1
<1>3. m.owner = t /\ m \in Objects /\ m.count = th[t].holds
  BY KnownMutex
<1>4. th[t].holds < CountWrap /\ n \in 0..(CountWrap - 1)
  BY <1>1, <1>2
<1>5. (m.count + CountWrap - 1) % CountWrap = n
  BY <1>2, <1>3, <1>4, CountDown
<1> HIDE DEF m, n
<1>6. Released(t, m) = [m EXCEPT !.count = n, !.owner = IF n = 0 THEN NoOne ELSE t]
  BY <1>1, <1>3, <1>5 DEF Released
<1>7. /\ Released(t, m) \in Objects
      /\ Released(t, m).owner = IF n = 0 THEN NoOne ELSE t
      /\ Released(t, m).count = n
  BY <1>3, <1>4, <1>6 DEF Objects
<1> QED
  BY <1>3, <1>7 DEF m, n

\* A thread that is about to use the mutex knows it.
LEMMA DoerKnows ==
  ASSUME IInv, NEW t \in Threads, th[t].pc \in {"do", "blocked", "relock"},
         th[t].op \in {"lock", "trylock", "unlock", "wait"}
  PROVE  HasMutex(th[t]) /\ th[t].need = {}
BY DEF IInv, Parts, PlaceOK, Placed, HasMutex, UsesMutex, MutexOps

\* Lock: pthread_mutex_lock, or a trylock that succeeds.
LEMMA LockStep ==
  ASSUME IInv, MaxCalls < CountWrap, NEW t \in Threads, Lock(t)
  PROVE  IInv'
<1> DEFINE o == Acquired(t, Mutex(t))
           r == [Returned(t) EXCEPT !.holds = th[t].holds + 1]
<1>1. /\ th[t].pc = "do" /\ th[t].op \in {"lock", "trylock"}
      /\ CanAcquire(t, Mutex(t)) /\ SetMutex(t, o) /\ Quietly
      /\ th' = [th EXCEPT ![t] = [Returned(t) EXCEPT !.holds = @ + 1]]
  BY DEF Lock, Do
<1>2. th[t] \in ThreadStates /\ Counted(th[t])
  BY DEF IInv, TypeOK, Parts, CallsOK
<1>3. HasMutex(th[t]) /\ th[t].need = {}
  BY <1>1, DoerKnows
<1>4. /\ Mutex(t).owner \in {t, NoOne} /\ o \in Objects
      /\ o.owner = t /\ o.count = th[t].holds + 1
  BY <1>1, <1>3, AcquiredObject
<1>5. /\ th[t].holds + 1 \in Nat /\ th[t].holds + 1 # 0
      /\ th[t].holds + 1 + th[t].calls <= MaxCalls
  BY <1>1, <1>2, BridgeAssumption DEF Counted, ThreadStates
<1>6. "mutex" \in made
  BY <1>3, UserFindsMade DEF HasMutex
<1>7. Returned(t).holds = th[t].holds
  BY <1>2 DEF Returned, ThreadStates
<1>8. th' = [th EXCEPT ![t] = r]
  BY <1>1, <1>7
<1>9. /\ r \in ThreadStates
      /\ r.pc = "idle" /\ r.op = "none" /\ r.holds = th[t].holds + 1
      /\ Placed(r) /\ Counted(r) /\ Knows(r, slot["mutex"]) /\ ~UsesMutex(r)
  BY <1>3, <1>5, <1>6, ReturnedRecord
<1> HIDE DEF r, o
<1>10. /\ o.owner = (IF r.holds = 0 THEN NoOne ELSE t) /\ o.count = r.holds
       /\ r.pc \notin {"inside", "leave"} /\ (UsesMutex(r) => r.op \notin Remaking)
  BY <1>4, <1>5, <1>9
<1> QED
  BY <1>1, <1>3, <1>4, <1>8, <1>9, <1>10, ObjectStep

\* Unlock: pthread_mutex_unlock.
LEMMA UnlockStep ==
  ASSUME IInv, MaxCalls < CountWrap, NEW t \in Threads, Unlock(t)
  PROVE  IInv'
<1> DEFINE o == Released(t, Mutex(t))
           r == [Returned(t) EXCEPT !.holds = th[t].holds - 1]
<1>1. /\ th[t].pc = "do" /\ th[t].op = "unlock" /\ SetMutex(t, o) /\ Quietly
      /\ th' = [th EXCEPT ![t] = [Returned(t) EXCEPT !.holds = @ - 1]]
  BY DEF Unlock, Do
<1>2. th[t] \in ThreadStates /\ Counted(th[t])
  BY DEF IInv, TypeOK, Parts, CallsOK
<1>3. HasMutex(th[t]) /\ th[t].need = {}
  BY <1>1, DoerKnows
<1>4. /\ th[t].holds > 0 /\ th[t].holds - 1 \in Nat
      /\ th[t].holds - 1 + th[t].calls <= MaxCalls
  BY <1>1, <1>2, BridgeAssumption DEF Counted, ThreadStates
<1>5. /\ Mutex(t).owner \in {t, NoOne} /\ o \in Objects
      /\ o.owner = (IF th[t].holds - 1 = 0 THEN NoOne ELSE t)
      /\ o.count = th[t].holds - 1
  BY <1>3, <1>4, ReleasedObject
<1>6. "mutex" \in made
  BY <1>3, UserFindsMade DEF HasMutex
<1>7. Returned(t).holds = th[t].holds
  BY <1>2 DEF Returned, ThreadStates
<1>8. th' = [th EXCEPT ![t] = r]
  BY <1>1, <1>7
<1>9. /\ r \in ThreadStates
      /\ r.pc = "idle" /\ r.op = "none" /\ r.holds = th[t].holds - 1
      /\ Placed(r) /\ Counted(r) /\ Knows(r, slot["mutex"]) /\ ~UsesMutex(r)
  BY <1>3, <1>4, <1>6, ReturnedRecord
<1> HIDE DEF r, o
<1>10. /\ o.owner = (IF r.holds = 0 THEN NoOne ELSE t) /\ o.count = r.holds
       /\ r.pc \notin {"inside", "leave"} /\ (UsesMutex(r) => r.op \notin Remaking)
  BY <1>5, <1>9
<1> QED
  BY <1>1, <1>3, <1>5, <1>8, <1>9, <1>10, ObjectStep

\* Wait: pthread_cond_wait lets the mutex go.
LEMMA WaitStep ==
  ASSUME IInv, MaxCalls < CountWrap, NEW t \in Threads, Wait(t)
  PROVE  IInv'
<1> DEFINE o == Released(t, Mutex(t))
           r == [th[t] EXCEPT !.pc = "blocked", !.holds = 0]
<1>1. /\ th[t].pc = "do" /\ th[t].op = "wait" /\ SetMutex(t, o) /\ Quietly
      /\ th' = [th EXCEPT ![t] = r]
  BY DEF Wait, Do
<1>2. /\ th[t] \in ThreadStates /\ Placed(th[t]) /\ Counted(th[t])
      /\ Knows(th[t], slot["mutex"])
  BY DEF IInv, TypeOK, Parts, PlaceOK, CallsOK, ResolvedOK
<1>3. HasMutex(th[t]) /\ th[t].need = {}
  BY <1>1, DoerKnows
<1>4. th[t].holds = 1
  BY <1>1, <1>2 DEF Counted
<1>5. /\ Mutex(t).owner \in {t, NoOne} /\ o \in Objects /\ o.owner = NoOne /\ o.count = 0
  BY <1>3, <1>4, ReleasedObject
<1>6. /\ r \in ThreadStates
      /\ r.pc = "blocked" /\ r.op = "wait" /\ r.need = {} /\ r.at = th[t].at
      /\ r.raw = th[t].raw /\ r.mutex = th[t].mutex /\ r.calls = th[t].calls
      /\ r.holds = 0
  BY <1>1, <1>2, <1>3 DEF ThreadStates
<1> HIDE DEF r, o
<1>7. Placed(r)
  BY <1>1, <1>2, <1>6 DEF Placed, Resolving, Remaking
<1>8. Counted(r)
  BY <1>1, <1>2, <1>4, <1>6, BridgeAssumption DEF Counted, ThreadStates
<1>9. Knows(r, slot["mutex"]) /\ r.op \notin Remaking
  BY <1>1, <1>2, <1>3, <1>6 DEF Knows, HasMutex, UsesMutex, Remaking
<1> QED
  BY <1>1, <1>3, <1>5, <1>6, <1>7, <1>8, <1>9, ObjectStep

\* Relock: a woken waiter takes the mutex again and returns.
LEMMA RelockStep ==
  ASSUME IInv, MaxCalls < CountWrap, NEW t \in Threads, Relock(t)
  PROVE  IInv'
<1> DEFINE o == Acquired(t, Mutex(t))
           r == [Returned(t) EXCEPT !.holds = 1]
<1>1. /\ th[t].pc = "relock" /\ CanAcquire(t, Mutex(t)) /\ SetMutex(t, o) /\ Quietly
      /\ th' = [th EXCEPT ![t] = r]
  BY DEF Relock
<1>2. th[t] \in ThreadStates /\ Counted(th[t]) /\ th[t].op = "wait"
  BY <1>1 DEF IInv, TypeOK, Parts, CallsOK, PlaceOK, Placed
<1>3. HasMutex(th[t]) /\ th[t].need = {}
  BY <1>1, <1>2, DoerKnows
<1>4. th[t].holds = 0 /\ 1 + th[t].calls <= MaxCalls
  BY <1>1, <1>2, BridgeAssumption DEF Counted, ThreadStates
<1>5. /\ Mutex(t).owner \in {t, NoOne} /\ o \in Objects
      /\ o.owner = t /\ o.count = 1
  BY <1>1, <1>3, <1>4, AcquiredObject
<1>6. "mutex" \in made
  BY <1>3, UserFindsMade DEF HasMutex
<1>7. /\ r \in ThreadStates
      /\ r.pc = "idle" /\ r.op = "none" /\ r.holds = 1
      /\ Placed(r) /\ Counted(r) /\ Knows(r, slot["mutex"]) /\ ~UsesMutex(r)
  BY <1>3, <1>4, <1>6, ReturnedRecord
<1> HIDE DEF r, o
<1>8. /\ o.owner = (IF r.holds = 0 THEN NoOne ELSE t) /\ o.count = r.holds
      /\ r.pc \notin {"inside", "leave"} /\ (UsesMutex(r) => r.op \notin Remaking)
  BY <1>5, <1>7
<1> QED
  BY <1>1, <1>3, <1>5, <1>7, <1>8, ObjectStep

\* Waiters that wake up go for the mutex; nothing else changes.
LEMMA WokenRecord ==
  ASSUME IInv, NEW u \in Threads, th[u].pc = "blocked"
  PROVE  LET r == [th[u] EXCEPT !.pc = "relock"]
         IN  /\ r \in ThreadStates
             /\ r.pc = "relock" /\ r.op = th[u].op /\ r.holds = th[u].holds
             /\ Placed(r) /\ Counted(r) /\ Knows(r, slot["mutex"])
<1> DEFINE r == [th[u] EXCEPT !.pc = "relock"]
<1>1. /\ th[u] \in ThreadStates /\ Placed(th[u]) /\ Counted(th[u])
      /\ Knows(th[u], slot["mutex"])
  BY DEF IInv, TypeOK, Parts, PlaceOK, CallsOK, ResolvedOK
<1>2. /\ r \in ThreadStates
      /\ r.pc = "relock" /\ r.op = th[u].op /\ r.need = th[u].need /\ r.at = th[u].at
      /\ r.raw = th[u].raw /\ r.mutex = th[u].mutex /\ r.calls = th[u].calls
      /\ r.holds = th[u].holds
  BY <1>1 DEF ThreadStates
<1> HIDE DEF r
<1>3. Placed(r) /\ Counted(r)
  BY <1>1, <1>2 DEF Placed, Counted
<1>4. Knows(r, slot["mutex"])
  BY <1>1, <1>2 DEF Knows, HasMutex, UsesMutex
<1> QED
  BY <1>2, <1>3, <1>4 DEF r

\* Steps after which each thread has returned, woken up or not moved.
LEMMA WakingStep ==
  ASSUME IInv, NEW t \in Threads, slot' = slot, heap' = heap, g_lock' = g_lock,
         fault' = fault /\ torn' = torn, made' = made,
         th[t].pc \in {"do", "blocked"},
         th' = [u \in Threads |-> th'[u]],
         \A u \in Threads :
           \/ th'[u] = th[u]
           \/ th'[u] = Returned(t) /\ u = t /\ th[t].pc = "do"
           \/ th'[u] = [th[u] EXCEPT !.pc = "relock"] /\ th[u].pc = "blocked"
  PROVE  IInv'
<1> USE BridgeAssumption DEF IInv, Parts
<1>1. \A u \in Threads : "mutex" \in made \/ th[u].holds = 0
  BY DEF RemakeAlone
<1>2. ASSUME NEW u \in Threads
      PROVE  /\ th'[u] \in ThreadStates
             /\ th'[u].holds = th[u].holds
             /\ Placed(th'[u]) /\ Counted(th'[u]) /\ Knows(th'[u], slot["mutex"])
             /\ th'[u].pc \in {"inside", "leave"} <=> th[u].pc \in {"inside", "leave"}
             /\ UsesMutex(th'[u]) => UsesMutex(th[u]) /\ th'[u].op = th[u].op
  <2>1. CASE th'[u] = th[u]
    BY <2>1 DEF TypeOK, PlaceOK, CallsOK, ResolvedOK
  <2>2. CASE th'[u] = Returned(t) /\ u = t /\ th[t].pc = "do"
    <3> DEFINE r == [Returned(t) EXCEPT !.holds = th[t].holds]
    <3>1. th[t] \in ThreadStates /\ Placed(th[t]) /\ Counted(th[t])
      BY DEF TypeOK, PlaceOK, CallsOK
    <3>2. /\ th[t].need = {} /\ th[t].holds \in Nat
          /\ th[t].holds + th[t].calls <= MaxCalls
      BY <2>2, <3>1 DEF Placed, Counted, ThreadStates
    <3>3. /\ r \in ThreadStates
          /\ r.pc = "idle" /\ r.op = "none" /\ r.holds = th[t].holds
          /\ Placed(r) /\ Counted(r) /\ Knows(r, slot["mutex"]) /\ ~UsesMutex(r)
      BY <1>1, <3>2, ReturnedRecord
    <3>4. r = Returned(t)
      BY <3>1 DEF Returned, ThreadStates
    <3> HIDE DEF r
    <3> QED
      BY <2>2, <3>3, <3>4
  <2>3. CASE th'[u] = [th[u] EXCEPT !.pc = "relock"] /\ th[u].pc = "blocked"
    <3> DEFINE r == [th[u] EXCEPT !.pc = "relock"]
    <3>1. /\ r \in ThreadStates
          /\ r.pc = "relock" /\ r.op = th[u].op /\ r.holds = th[u].holds
          /\ Placed(r) /\ Counted(r) /\ Knows(r, slot["mutex"])
      BY <2>3, WokenRecord
    <3> HIDE DEF r
    <3>2. th'[u] = r /\ th[u].pc = "blocked"
      BY <2>3 DEF r
    <3> QED
      BY <3>1, <3>2 DEF UsesMutex
  <2> QED
    BY <2>1, <2>2, <2>3
<1>3. TypeOK'
  <2>1. th' \in [Threads -> ThreadStates]
    BY <1>2
  <2> QED
    BY <2>1 DEF TypeOK
<1>4. PlaceOK' /\ CallsOK' /\ ResolvedOK' /\ GLockOK'
  BY <1>2 DEF PlaceOK, CallsOK, ResolvedOK, GLockOK
<1>5. RemakeAlone'
  BY <1>2 DEF RemakeAlone
<1>6. LockOK'
  BY <1>2, LocksKept
<1> QED
  BY <1>3, <1>4, <1>5, <1>6

\* WakeAlone: a deadline or a spurious wake-up.
LEMMA WakeAloneStep ==
  ASSUME IInv, NEW t \in Threads, WakeAlone(t)
  PROVE  IInv'
<1>1. /\ th[t].pc = "blocked" /\ th' = [th EXCEPT ![t].pc = "relock"]
      /\ slot' = slot /\ heap' = heap /\ g_lock' = g_lock /\ fault' = fault /\ torn' = torn /\ made' = made
  BY DEF WakeAlone, Quietly
<1>2. th = [u \in Threads |-> th[u]]
  BY DEF IInv, TypeOK
<1>3. /\ th' = [u \in Threads |-> th'[u]]
      /\ \A u \in Threads : \/ th'[u] = th[u]
                            \/ th'[u] = [th[u] EXCEPT !.pc = "relock"] /\ th[u].pc = "blocked"
  BY <1>1, <1>2
<1> QED
  BY <1>1, <1>3, WakingStep

\* Signal: pthread_cond_signal or broadcast.
LEMMA SignalStep ==
  ASSUME IInv, NEW t \in Threads, Signal(t)
  PROVE  IInv'
<1>1. /\ th[t].pc = "do"
      /\ slot' = slot /\ heap' = heap /\ g_lock' = g_lock /\ fault' = fault /\ torn' = torn /\ made' = made
  BY DEF Signal, Do, Quietly
<1>2. PICK W \in SUBSET Blocked(th[t].cond) :
        th' = [u \in Threads |->
                 IF u = t THEN Returned(t)
                 ELSE IF u \in W THEN [th[u] EXCEPT !.pc = "relock"]
                 ELSE th[u]]
  BY DEF Signal
<1>3. \A u \in W : th[u].pc = "blocked"
  BY DEF Blocked
<1>4. /\ th' = [u \in Threads |-> th'[u]]
      /\ \A u \in Threads :
           \/ th'[u] = th[u]
           \/ th'[u] = Returned(t) /\ u = t /\ th[t].pc = "do"
           \/ th'[u] = [th[u] EXCEPT !.pc = "relock"] /\ th[u].pc = "blocked"
  BY <1>1, <1>2, <1>3
<1> QED
  BY <1>1, <1>4, WakingStep

-----------------------------------------------------------------------------

\* The invariant holds before the first call.
LEMMA InitEstablishes == Init => IInv
<1> SUFFICES ASSUME Init PROVE IInv
  OBVIOUS
<1> USE BridgeAssumption DEF Init, MagicTop, Slots
<1>1. /\ th \in [Threads -> ThreadStates]
      /\ \A t \in Threads : /\ th[t].pc = "idle" /\ th[t].op = "none" /\ th[t].need = {}
                            /\ th[t].raw = FALSE /\ th[t].calls = MaxCalls
                            /\ th[t].holds = 0
  BY DEF Resting, ThreadStates
<1>2. /\ heap \in Seq(Objects) /\ Len(heap) = 0 /\ DOMAIN heap = {}
  BY DEF Objects
<1>3. TypeOK
  <2>1. slot \in [Slots -> 0..(1 + Len(heap))]
    BY <1>2
  <2>2. g_lock \in Threads \cup {NoOne} /\ made \subseteq Slots /\ fault \in BOOLEAN /\ torn \in BOOLEAN
    OBVIOUS
  <2> QED
    BY <1>1, <1>2, <2>1, <2>2 DEF TypeOK
<1>4. PlaceOK
  BY <1>1 DEF PlaceOK, Placed, Resolving, Remaking
<1>5. GLockOK
  BY <1>1 DEF GLockOK
<1>6. RemakeAlone
  BY <1>1 DEF RemakeAlone, UsesMutex, MutexOps
<1>7. ResolvedOK
  BY <1>1 DEF ResolvedOK, Knows, HasMutex, UsesMutex, MutexOps, Resolving
<1>8. LockOK
  BY <1>1, <1>2 DEF LockOK
<1>9. CallsOK
  <2>1. MaxCalls \in Nat /\ 0 + MaxCalls <= MaxCalls
    OBVIOUS
  <2> QED
    BY <1>1, <2>1 DEF CallsOK, Counted
<1> QED
  BY <1>3, <1>4, <1>5, <1>6, <1>7, <1>8, <1>9 DEF IInv, Parts

\* No step of the bridge or of glibc breaks it.
LEMMA StepPreserves ==
  ASSUME MaxCalls < CountWrap
  PROVE  IInv /\ ~torn' /\ [Next]_vars => IInv'
<1> SUFFICES ASSUME IInv, ~torn', [Next]_vars PROVE IInv'
  OBVIOUS
<1>1. CASE UNCHANGED vars
  BY <1>1 DEF vars, IInv, Parts, TypeOK, PlaceOK, GLockOK, RemakeAlone, ResolvedOK,
              LockOK, CallsOK, UsesMutex
<1>2. CASE Next
  <2>1. PICK t \in Threads :
          \/ Call(t) \/ FastRead(t) \/ EnterG(t) \/ Create(t) \/ InitMutex(t)
          \/ ResetCond(t) \/ CondReady(t) \/ Destroy(t) \/ LeaveG(t) \/ Reread(t)
          \/ Lock(t) \/ TrylockFails(t) \/ Unlock(t) \/ Wait(t) \/ WakeAlone(t)
          \/ Signal(t) \/ Relock(t)
    BY <1>2 DEF Next
  <2>2. CASE Call(t) \/ FastRead(t) \/ EnterG(t) \/ Reread(t)
    BY <2>2, CallStep, FastReadStep, EnterGStep, RereadStep
  <2>3. CASE Create(t) \/ InitMutex(t) \/ ResetCond(t) \/ Destroy(t) \/ LeaveG(t)
    BY <2>3, CreateStep, InitMutexStep, ResetCondStep, DestroyStep, LeaveGStep
  <2>4. CASE Lock(t) \/ TrylockFails(t) \/ Unlock(t)
    BY <2>4, LockStep, TrylockFailsStep, UnlockStep
  <2>5. CASE CondReady(t) \/ Wait(t) \/ WakeAlone(t) \/ Signal(t) \/ Relock(t)
    BY <2>5, CondReadyStep, WaitStep, WakeAloneStep, SignalStep, RelockStep
  <2> QED
    BY <2>1, <2>2, <2>3, <2>4, <2>5
<1> QED
  BY <1>1, <1>2

-----------------------------------------------------------------------------
(* The condition variable *)

\* r is a thread whose call uses the condition variable; a woken waiter is done
\* with it.
CondOps == {"signal", "broadcast", "wait", "cond_init", "cond_destroy", "cond_lazy"}
CondRemaking == {"cond_init", "cond_destroy", "cond_lazy"}
UsesCond(r) == r.op \in CondOps /\ r.pc # "relock"

\* What a thread has resolved is what the slot holds, an object.
KnowsCond(r, s) ==
  /\ UsesCond(r) /\ r.op \in Resolving /\ "cond" \notin r.need => r.cond = s /\ s > MagicTop
  /\ r.op \in Resolving /\ r.at = "cond" /\ r.pc \in {"leave", "reread"} => s > MagicTop

\* A thread that initialises or destroys the condition variable is alone with it.
CondAlone ==
  /\ \A t \in Threads : UsesCond(th[t]) /\ th[t].op \in CondRemaking =>
       /\ "cond" \notin made
       /\ \A u \in Threads : u # t => ~UsesCond(th[u])
  /\ "cond" \notin made =>
       \A t \in Threads : UsesCond(th[t]) => th[t].op \in CondRemaking

CondInv == CondAlone /\ \A t \in Threads : KnowsCond(th[t], slot["cond"])

\* The same for the calls that concern the condition variable.
LEMMA CondUses ==
  \A op \in Ops : "cond" \in Uses(op) <=> op \in CondOps
  BY DEF Uses, Slots, Resolving, Remaking, Ops, CondOps

\* A step of one thread that neither moves nor initialises the condition variable.
LEMMA CondPlain ==
  ASSUME IInv, CondInv, NEW t \in Threads, NEW r, th' = [th EXCEPT ![t] = r],
         slot'["cond"] = slot["cond"], "cond" \in made' <=> "cond" \in made,
         KnowsCond(r, slot["cond"]),
         UsesCond(r) =>
           \/ "cond" \in made /\ r.op \notin CondRemaking
           \/ UsesCond(th[t]) /\ (r.op \in CondRemaking <=> th[t].op \in CondRemaking)
  PROVE  CondInv'
<1>1. th'[t] = r /\ \A u \in Threads : u # t => th'[u] = th[u]
  BY DEF IInv, TypeOK
<1>2. \A u \in Threads : KnowsCond(th'[u], slot'["cond"])
  BY <1>1 DEF CondInv
<1>3. CondAlone'
  BY <1>1 DEF CondInv, CondAlone, UsesCond
<1> QED
  BY <1>2, <1>3 DEF CondInv

\* Where a call is, and what it knows.
LEMMA CondFacts ==
  ASSUME IInv, CondInv, NEW t \in Threads
  PROVE  /\ th[t] \in ThreadStates /\ Placed(th[t]) /\ th[t].op \in Ops
         /\ KnowsCond(th[t], slot["cond"])
         /\ "cond" \in Uses(th[t].op) <=> th[t].op \in CondOps
         /\ UsesCond(th[t]) /\ th[t].op \notin CondRemaking => "cond" \in made
<1>1. th[t] \in ThreadStates /\ th[t].op \in Ops
  BY DEF IInv, TypeOK, ThreadStates, Ops
<1> QED
  BY <1>1, CondUses DEF IInv, Parts, PlaceOK, CondInv, CondAlone

\* A call that ends, or that goes on with what it knows.
LEMMA CondUntouched ==
  ASSUME IInv, CondInv, NEW t \in Threads, NEW r, th' = [th EXCEPT ![t] = r],
         slot'["cond"] = slot["cond"], "cond" \in made' <=> "cond" \in made,
         \/ r.op = "none"
         \/ /\ r.op = th[t].op /\ r.need = th[t].need /\ r.at = th[t].at
            /\ r.cond = th[t].cond
            /\ th[t].pc = "relock" => r.pc = "relock"
            /\ r.pc \in {"leave", "reread"} /\ r.at = "cond" =>
                 th[t].pc \in {"leave", "reread"} \/ r.op \in Remaking
  PROVE  CondInv'
<1>1. /\ KnowsCond(th[t], slot["cond"])
      /\ UsesCond(th[t]) /\ th[t].op \notin CondRemaking => "cond" \in made
  BY CondFacts
<1>2. KnowsCond(r, slot["cond"])
  BY <1>1 DEF KnowsCond, UsesCond, Resolving, Remaking, CondOps
<1>3. UsesCond(r) => UsesCond(th[t]) /\ r.op = th[t].op
  BY DEF UsesCond, CondOps
<1> QED
  BY <1>2, <1>3, CondPlain

\* EnterG, InitMutex and the calls of glibc.
LEMMA CondElsewhere ==
  ASSUME IInv, CondInv, NEW t \in Threads,
         \/ EnterG(t) \/ InitMutex(t) \/ Lock(t) \/ TrylockFails(t) \/ Unlock(t)
         \/ Wait(t) \/ WakeAlone(t) \/ Relock(t)
  PROVE  CondInv'
<1>1. th[t] \in ThreadStates /\ Returned(t).op = "none"
  BY CondFacts DEF Returned, ThreadStates
<1>2. CASE EnterG(t)
  BY <1>1, <1>2, CondUntouched DEF EnterG, ThreadStates
<1>3. CASE InitMutex(t)
  <2>1. slot'["cond"] = slot["cond"]
    BY <1>3 DEF InitMutex, Made, IInv, TypeOK, Slots
  <2> QED
    BY <1>1, <1>3, <2>1, CondUntouched DEF InitMutex, ThreadStates, Remaking
<1>4. CASE Lock(t) \/ TrylockFails(t) \/ Unlock(t) \/ Relock(t)
  BY <1>1, <1>4, CondUntouched
  DEF Lock, TrylockFails, Unlock, Relock, Quietly, Returned, ThreadStates
<1>5. CASE Wait(t) \/ WakeAlone(t)
  BY <1>1, <1>5, CondUntouched DEF Wait, Do, WakeAlone, Quietly, ThreadStates
<1> QED
  BY <1>2, <1>3, <1>4, <1>5

\* Where the slot changes, its maker or destroyer is alone with it, or nobody
\* has resolved it yet.
LEMMA CondMoves ==
  ASSUME IInv, CondInv, NEW t \in Threads, NEW r, th' = [th EXCEPT ![t] = r],
         "cond" \in made' <=> "cond" \in made,
         r.op = th[t].op, r.pc # "relock", th[t].pc # "relock",
         KnowsCond(r, slot'["cond"]),
         \/ th[t].op \in CondRemaking
         \/ slot["cond"] <= MagicTop /\ slot'["cond"] > MagicTop
  PROVE  CondInv'
<1>1. th'[t] = r /\ \A u \in Threads : u # t => th'[u] = th[u]
  BY DEF IInv, TypeOK
<1>2. CondAlone'
  BY <1>1 DEF CondInv, CondAlone, UsesCond
<1>3. ASSUME NEW u \in Threads, u # t PROVE KnowsCond(th[u], slot'["cond"])
  <2>1. KnowsCond(th[u], slot["cond"]) /\ Placed(th[u])
        /\ ("cond" \in Uses(th[u].op) <=> th[u].op \in CondOps)
    BY CondFacts
  <2>2. CASE th[t].op \in CondRemaking
    <3>1. ~UsesCond(th[u])
      BY <1>3, <2>2 DEF CondInv, CondAlone, UsesCond, CondRemaking, CondOps
    <3> QED
      BY <2>1, <3>1 DEF KnowsCond, UsesCond, Placed
  <2>3. CASE slot["cond"] <= MagicTop /\ slot'["cond"] > MagicTop
    <3>1. slot["cond"] \in Nat
      BY DEF IInv, TypeOK, Slots, MagicTop
    <3> QED
      BY <2>1, <2>3, <3>1 DEF KnowsCond, MagicTop
  <2> QED
    BY <2>2, <2>3
<1>4. \A u \in Threads : KnowsCond(th'[u], slot'["cond"])
  BY <1>1, <1>3
<1> QED
  BY <1>2, <1>4 DEF CondInv

\* Create: the slot is read again, and filled while nobody knows an object.
LEMMA CondCreate ==
  ASSUME IInv, CondInv, NEW t \in Threads, Create(t)
  PROVE  CondInv'
<1> DEFINE r == [th[t] EXCEPT !.pc = "leave"]
           s == th[t].at
<1>1. /\ th' = [th EXCEPT ![t] = r] /\ made' = made
      /\ th[t].pc = "inside" /\ th[t].op \in Resolving
      /\ IF IS_HEAP_PTR(slot[s]) THEN slot' = slot
         ELSE slot' = [slot EXCEPT ![s] = MagicTop + Len(heap) + 1]
  BY DEF Create, Made
<1>2. /\ th[t] \in ThreadStates /\ th[t].at \in th[t].need
      /\ KnowsCond(th[t], slot["cond"])
  BY <1>1, CondFacts DEF Placed
<1>3. /\ r.op = th[t].op /\ r.need = th[t].need /\ r.at = s /\ r.pc = "leave"
      /\ r.cond = th[t].cond
  BY <1>2 DEF ThreadStates
<1>4. slot["cond"] \in Nat /\ Len(heap) \in Nat /\ s \in Slots /\ slot \in [Slots -> Nat]
  BY <1>2 DEF IInv, TypeOK, Slots, MagicTop, ThreadStates
<1> HIDE DEF r
<1>5. CASE s = "cond"
  <2>1. slot'["cond"] > MagicTop
    BY <1>1, <1>4, <1>5 DEF IS_HEAP_PTR, MagicTop
  <2>2. KnowsCond(r, slot'["cond"])
    BY <1>2, <1>3, <1>5, <2>1 DEF KnowsCond
  <2>3. CASE slot'["cond"] = slot["cond"]
    <3>1. UsesCond(r) => UsesCond(th[t])
      BY <1>1, <1>3 DEF UsesCond
    <3>2. UsesCond(th[t]) /\ th[t].op \notin CondRemaking => "cond" \in made
      BY CondFacts
    <3> QED
      BY <1>1, <1>3, <2>2, <2>3, <3>1, <3>2, CondPlain
  <2>4. CASE slot'["cond"] # slot["cond"]
    <3>1. slot["cond"] <= MagicTop
      BY <1>1, <1>4, <1>5, <2>4 DEF IS_HEAP_PTR, MagicTop
    <3> QED
      BY <1>1, <1>3, <2>1, <2>2, <3>1, CondMoves
  <2> QED
    BY <2>3, <2>4
<1>6. CASE s # "cond"
  <2>1. slot'["cond"] = slot["cond"]
    BY <1>1, <1>4, <1>6 DEF Slots
  <2> QED
    BY <1>1, <1>3, <1>6, <2>1, CondUntouched
<1> QED
  BY <1>5, <1>6

\* ResetCond and Destroy empty the slot.
LEMMA CondEmptied ==
  ASSUME IInv, CondInv, NEW t \in Threads, ResetCond(t) \/ Destroy(t)
  PROVE  CondInv'
<1> DEFINE r == [th[t] EXCEPT !.pc = "leave"]
<1>1. /\ th' = [th EXCEPT ![t] = r] /\ made' = made /\ th[t].pc = "inside"
      /\ \/ th[t].op = "cond_init" /\ slot' = [slot EXCEPT !["cond"] = 0]
         \/ /\ th[t].op \in {"mutex_destroy", "cond_destroy"}
            /\ slot' = [slot EXCEPT ![th[t].at] = 0]
  BY DEF ResetCond, Destroy
<1>2. th[t] \in ThreadStates /\ Placed(th[t])
  BY CondFacts
<1>3. /\ r.op = th[t].op /\ r.need = th[t].need /\ r.at = th[t].at /\ r.pc = "leave"
      /\ r.cond = th[t].cond /\ r.op \in Remaking /\ r.op \notin Resolving
  BY <1>1, <1>2 DEF ThreadStates, Remaking, Resolving
<1> HIDE DEF r
<1>4. CASE th[t].op = "mutex_destroy"
  <2>1. th[t].at = "mutex"
    BY <1>2, <1>4 DEF Placed, Uses, Remaking
  <2>2. slot'["cond"] = slot["cond"]
    BY <1>1, <1>4, <2>1 DEF IInv, TypeOK, Slots
  <2> QED
    BY <1>1, <1>3, <2>2, CondUntouched
<1>5. CASE th[t].op \in {"cond_init", "cond_destroy"}
  <2>1. KnowsCond(r, slot'["cond"])
    BY <1>3 DEF KnowsCond
  <2> QED
    BY <1>1, <1>3, <1>5, <2>1, CondMoves DEF CondRemaking
<1> QED
  BY <1>1, <1>4, <1>5

\* FastRead and Reread: the call takes what the slot holds.
LEMMA CondResolved ==
  ASSUME IInv, CondInv, NEW t \in Threads, NEW s \in Slots, Resolved(t, s),
         th[t].pc \in {"resolve", "reread"}, s = "cond" => slot["cond"] > MagicTop,
         slot' = slot, made' = made
  PROVE  CondInv'
<1>1. PICK raw \in Views(t, slot[s]) :
        th' = [th EXCEPT ![t].pc = IF th[t].need \subseteq {s} THEN "do" ELSE "resolve",
                         ![t].need = @ \ {s},
                         ![t].raw = IF s = "mutex" THEN raw ELSE @,
                         ![t].mutex = IF s = "mutex" THEN slot[s] ELSE @,
                         ![t].cond = IF s = "cond" THEN slot[s] ELSE @]
  BY DEF Resolved
<1> DEFINE r == th'[t]
<1>2. /\ th[t] \in ThreadStates /\ KnowsCond(th[t], slot["cond"])
      /\ UsesCond(th[t]) /\ th[t].op \notin CondRemaking => "cond" \in made
  BY CondFacts
<1>3. /\ r.pc \in {"do", "resolve"} /\ r.op = th[t].op /\ r.need = th[t].need \ {s}
      /\ r.cond = IF s = "cond" THEN slot[s] ELSE th[t].cond
      /\ th' = [th EXCEPT ![t] = r]
  BY <1>1, <1>2 DEF IInv, TypeOK, ThreadStates
<1> HIDE DEF r
<1>4. KnowsCond(r, slot["cond"])
  BY <1>2, <1>3 DEF KnowsCond, UsesCond
<1>5. UsesCond(r) => UsesCond(th[t])
  BY <1>3 DEF UsesCond
<1> QED
  BY <1>2, <1>3, <1>4, <1>5, CondPlain

LEMMA CondReads ==
  ASSUME IInv, CondInv, NEW t \in Threads, FastRead(t) \/ Reread(t)
  PROVE  CondInv'
<1>1. /\ th[t] \in ThreadStates /\ Placed(th[t]) /\ KnowsCond(th[t], slot["cond"])
      /\ slot' = slot /\ made' = made
  BY CondFacts DEF FastRead, Reread
<1>2. CASE Reread(t)
  BY <1>1, <1>2, CondResolved DEF Reread, KnowsCond, Placed, ThreadStates
<1>3. CASE FastRead(t)
  <2>1. PICK s \in th[t].need :
          IF IS_HEAP_PTR(slot[s]) THEN Resolved(t, s)
          ELSE th' = [th EXCEPT ![t].pc = "enter", ![t].at = s]
    BY <1>3 DEF FastRead
  <2>2. s \in Slots /\ th[t].pc = "resolve"
    BY <1>1, <1>3 DEF FastRead, ThreadStates
  <2>3. CASE IS_HEAP_PTR(slot[s])
    BY <1>1, <2>1, <2>2, <2>3, CondResolved DEF IS_HEAP_PTR
  <2>4. CASE ~IS_HEAP_PTR(slot[s])
    <3> DEFINE r == [th[t] EXCEPT !.pc = "enter", !.at = s]
    <3>1. /\ th' = [th EXCEPT ![t] = r]
          /\ r.op = th[t].op /\ r.need = th[t].need /\ r.cond = th[t].cond /\ r.pc = "enter"
      BY <1>1, <2>1, <2>4 DEF ThreadStates
    <3> HIDE DEF r
    <3>2. KnowsCond(r, slot["cond"]) /\ (UsesCond(r) => UsesCond(th[t]))
      BY <1>1, <2>2, <3>1 DEF KnowsCond, UsesCond
    <3>3. UsesCond(th[t]) /\ th[t].op \notin CondRemaking => "cond" \in made
      BY CondFacts
    <3> QED
      BY <1>1, <3>1, <3>2, <3>3, CondPlain
  <2> QED
    BY <2>3, <2>4
<1> QED
  BY <1>2, <1>3

\* LeaveG: what cond_init has emptied it resolves like any other call.
LEMMA CondLeaveG ==
  ASSUME IInv, CondInv, NEW t \in Threads, LeaveG(t)
  PROVE  CondInv'
<1>1. /\ th[t] \in ThreadStates /\ Placed(th[t]) /\ KnowsCond(th[t], slot["cond"])
      /\ Returned(t).op = "none"
      /\ slot' = slot /\ th[t].pc = "leave" /\ th[t].op \in Resolving \cup Remaking
  BY CondFacts DEF LeaveG, Returned, ThreadStates, Placed, Ops
<1>2. CASE th[t].op \in Resolving
  <2> DEFINE r == [th[t] EXCEPT !.pc = "reread"]
  <2>1. th' = [th EXCEPT ![t] = r] /\ made' = made
    BY <1>2 DEF LeaveG, Resolving
  <2>2. /\ r.op = th[t].op /\ r.need = th[t].need /\ r.at = th[t].at
        /\ r.cond = th[t].cond /\ r.pc = "reread"
    BY <1>1 DEF ThreadStates
  <2> HIDE DEF r
  <2> QED
    BY <1>1, <2>1, <2>2, CondUntouched
<1>3. CASE th[t].op = "cond_init"
  <2> DEFINE r == [th[t] EXCEPT !.pc = "resolve", !.op = "cond_lazy", !.need = {"cond"}]
  <2>1. th' = [th EXCEPT ![t] = r] /\ made' = made
    BY <1>3 DEF LeaveG, Resolving
  <2>2. r.op = "cond_lazy" /\ r.need = {"cond"} /\ r.pc = "resolve"
    BY <1>1 DEF ThreadStates
  <2> HIDE DEF r
  <2>3. /\ KnowsCond(r, slot["cond"])
        /\ UsesCond(th[t]) /\ r.op \in CondRemaking /\ th[t].op \in CondRemaking
    BY <1>1, <1>3, <2>2 DEF KnowsCond, UsesCond, CondOps, CondRemaking
  <2> QED
    BY <1>1, <2>1, <2>3, CondPlain
<1>4. CASE th[t].op \in {"mutex_init", "mutex_destroy", "cond_destroy"}
  <2>1. /\ th' = [th EXCEPT ![t] = Returned(t)]
        /\ made' = IF th[t].op = "mutex_init" THEN made \cup {"mutex"} ELSE made
    BY <1>4 DEF LeaveG, Resolving
  <2>2. "cond" \in made' <=> "cond" \in made
    BY <2>1
  <2> QED
    BY <1>1, <2>1, <2>2, CondUntouched
<1> QED
  BY <1>1, <1>2, <1>3, <1>4 DEF Remaking

\* CondReady: from now on everybody may use the condition variable.
LEMMA CondMade ==
  ASSUME IInv, CondInv, NEW t \in Threads, CondReady(t)
  PROVE  CondInv'
<1>1. /\ th' = [th EXCEPT ![t] = Returned(t)] /\ slot' = slot /\ "cond" \in made'
      /\ th[t].op = "cond_lazy" /\ th[t].pc = "do"
  BY DEF CondReady, Do
<1>2. th[t] \in ThreadStates /\ Returned(t).op = "none"
  BY CondFacts DEF Returned, ThreadStates
<1>3. th'[t] = Returned(t) /\ \A u \in Threads : u # t => th'[u] = th[u]
  BY <1>1 DEF IInv, TypeOK
<1>4. \A u \in Threads : u # t => ~UsesCond(th[u])
  BY <1>1 DEF CondInv, CondAlone, UsesCond, CondOps, CondRemaking
<1>5. ~UsesCond(Returned(t)) /\ KnowsCond(Returned(t), slot["cond"])
  BY <1>2 DEF UsesCond, KnowsCond, CondOps, Resolving
<1>6. CondAlone'
  BY <1>1, <1>3, <1>4, <1>5 DEF CondAlone
<1> QED
  BY <1>1, <1>3, <1>5, <1>6 DEF CondInv

\* Signal: a waiter that is woken is done with the condition variable.
LEMMA CondSignal ==
  ASSUME IInv, CondInv, NEW t \in Threads, Signal(t)
  PROVE  CondInv'
<1>1. slot' = slot /\ made' = made
  BY DEF Signal, Quietly
<1>2. PICK W \in SUBSET Blocked(th[t].cond) :
        th' = [u \in Threads |->
                 IF u = t THEN Returned(t)
                 ELSE IF u \in W THEN [th[u] EXCEPT !.pc = "relock"]
                 ELSE th[u]]
  BY DEF Signal
<1>3. ASSUME NEW u \in Threads
      PROVE  /\ KnowsCond(th'[u], slot["cond"])
             /\ UsesCond(th'[u]) => th'[u] = th[u]
  <2>1. th[u] \in ThreadStates /\ KnowsCond(th[u], slot["cond"])
    BY CondFacts
  <2>2. CASE u = t
    <3>1. th'[u].op = "none"
      BY <1>2, <2>1, <2>2 DEF Returned, ThreadStates
    <3> QED
      BY <3>1 DEF KnowsCond, UsesCond, CondOps, Resolving
  <2>3. CASE u # t /\ u \in W
    <3>1. th'[u].pc = "relock"
      BY <1>2, <2>1, <2>3 DEF ThreadStates
    <3> QED
      BY <3>1 DEF KnowsCond, UsesCond
  <2>4. CASE u # t /\ u \notin W
    BY <1>2, <2>1, <2>4
  <2> QED
    BY <2>2, <2>3, <2>4
<1>4. CondAlone'
  BY <1>1, <1>3 DEF CondInv, CondAlone
<1> QED
  BY <1>1, <1>3, <1>4 DEF CondInv

\* Call: who initialises or destroys a condition variable finds nobody using it.
LEMMA CondCall ==
  ASSUME IInv, CondInv, NEW t \in Threads, Call(t)
  PROVE  CondInv'
<1>1. PICK op \in Resolving \cup Remaking :
        /\ op # "cond_lazy" /\ Legal(t, op)
        /\ IF op \in Resolving
             THEN /\ th' = [th EXCEPT ![t].pc = "resolve", ![t].op = op,
                                      ![t].need = Uses(op), ![t].calls = @ - 1]
                  /\ UNCHANGED made
             ELSE /\ \E s \in Uses(op) :
                       th' = [th EXCEPT ![t].pc = "enter", ![t].op = op,
                                        ![t].at = s, ![t].calls = @ - 1]
                  /\ made' = made \ Uses(op)
  BY DEF Call
<1>2. slot' = slot /\ th[t] \in ThreadStates
  BY CondFacts DEF Call
<1> DEFINE r == th'[t]
<1>3. /\ r.op = op /\ r.pc \in {"resolve", "enter"} /\ th' = [th EXCEPT ![t] = r]
      /\ op \in Resolving => r.need = Uses(op)
  <2>1. CASE op \in Resolving
    <3>1. th' = [th EXCEPT ![t] = [th[t] EXCEPT !.pc = "resolve", !.op = op,
                                                !.need = Uses(op), !.calls = @ - 1]]
      BY <1>1, <2>1 DEF IInv, TypeOK
    <3>2. r = [th[t] EXCEPT !.pc = "resolve", !.op = op, !.need = Uses(op), !.calls = @ - 1]
      BY <3>1 DEF IInv, TypeOK
    <3>3. r.op = op /\ r.pc = "resolve" /\ r.need = Uses(op)
      BY <1>2, <3>2 DEF ThreadStates
    <3>4. th' = [th EXCEPT ![t] = r]
      BY <3>1, <3>2
    <3> QED
      BY <3>3, <3>4
  <2>2. CASE op \notin Resolving
    <3>1. PICK s \in Uses(op) :
            th' = [th EXCEPT ![t] = [th[t] EXCEPT !.pc = "enter", !.op = op,
                                                  !.at = s, !.calls = @ - 1]]
      BY <1>1, <2>2 DEF IInv, TypeOK
    <3>2. r = [th[t] EXCEPT !.pc = "enter", !.op = op, !.at = s, !.calls = @ - 1]
      BY <3>1 DEF IInv, TypeOK
    <3>3. r.op = op /\ r.pc = "enter"
      BY <1>2, <3>2 DEF ThreadStates
    <3>4. th' = [th EXCEPT ![t] = r]
      BY <3>1, <3>2
    <3> QED
      BY <2>2, <3>3, <3>4
  <2> QED
    BY <2>1, <2>2
<1> HIDE DEF r
<1>4. "cond" \in Uses(op) <=> op \in CondOps
  BY CondUses DEF Ops
<1>5. KnowsCond(r, slot["cond"])
  BY <1>3, <1>4 DEF KnowsCond, UsesCond
<1>6. CASE op \in {"cond_init", "cond_destroy"}
  <2>1. Quiet("cond") /\ Uses(op) = {"cond"}
    BY <1>1, <1>6 DEF Legal, Uses
  <2>2. ASSUME NEW u \in Threads PROVE ~UsesCond(th[u])
    <3>1. "cond" \in Uses(th[u].op) <=> th[u].op \in CondOps
      BY CondFacts
    <3> QED
      BY <2>1, <3>1 DEF Quiet, UsesCond
  <2>3. th'[t] = r /\ \A u \in Threads : u # t => th'[u] = th[u]
    BY <1>3 DEF IInv, TypeOK
  <2>4. "cond" \notin made' /\ op \in CondRemaking
    BY <1>1, <1>6, <2>1 DEF Resolving, CondRemaking
  <2>5. CondAlone'
    BY <1>3, <2>2, <2>3, <2>4 DEF CondAlone
  <2>6. \A u \in Threads : KnowsCond(th'[u], slot'["cond"])
    BY <1>2, <1>5, <2>3 DEF CondInv
  <2> QED
    BY <2>5, <2>6 DEF CondInv
<1>7. CASE op \in {"signal", "broadcast", "wait"}
  <2>1. "cond" \in made
    BY <1>1, <1>7 DEF Legal, Uses
  <2> QED
    BY <1>1, <1>2, <1>3, <1>5, <1>7, <2>1, CondPlain DEF Resolving, CondRemaking
<1>8. CASE op \notin CondOps
  <2>1. "cond" \in made' <=> "cond" \in made
    BY <1>1, <1>4, <1>8
  <2> QED
    BY <1>2, <1>3, <1>5, <1>8, <2>1, CondPlain DEF UsesCond
<1> QED
  BY <1>1, <1>6, <1>7, <1>8 DEF CondOps

\* No step separates the threads that use the condition variable.
LEMMA CondStep == IInv /\ CondInv /\ [Next]_vars => CondInv'
<1> SUFFICES ASSUME IInv, CondInv, [Next]_vars PROVE CondInv'
  OBVIOUS
<1>1. CASE UNCHANGED vars
  BY <1>1 DEF vars, CondInv, CondAlone
<1>2. CASE Next
  <2>1. PICK t \in Threads :
          \/ Call(t) \/ FastRead(t) \/ EnterG(t) \/ Create(t) \/ InitMutex(t)
          \/ ResetCond(t) \/ CondReady(t) \/ Destroy(t) \/ LeaveG(t) \/ Reread(t)
          \/ Lock(t) \/ TrylockFails(t) \/ Unlock(t) \/ Wait(t) \/ WakeAlone(t)
          \/ Signal(t) \/ Relock(t)
    BY <1>2 DEF Next
  <2>2. CASE Call(t) \/ FastRead(t) \/ Reread(t) \/ Create(t) \/ LeaveG(t)
    BY <2>2, CondCall, CondReads, CondCreate, CondLeaveG
  <2>3. CASE ResetCond(t) \/ Destroy(t) \/ CondReady(t) \/ Signal(t)
    BY <2>3, CondEmptied, CondMade, CondSignal
  <2>4. CASE \/ EnterG(t) \/ InitMutex(t) \/ Lock(t) \/ TrylockFails(t) \/ Unlock(t)
             \/ Wait(t) \/ WakeAlone(t) \/ Relock(t)
    BY <2>4, CondElsewhere
  <2> QED
    BY <2>1, <2>2, <2>3, <2>4
<1> QED
  BY <1>1, <1>2

-----------------------------------------------------------------------------
(* Types, also once something is torn *)

\* Only a thread that holds the mutex is on its way to unlock it, and a thread
\* under way has a call.
Balanced(r) ==
  /\ r.op = "unlock" => r.holds > 0
  /\ r.op = "none" => r.pc = "idle"
TypeInv == TypeOK /\ \A t \in Threads : Balanced(th[t])

\* A step that changes the record of one thread and keeps the other types.
LEMMA TypesKept ==
  ASSUME TypeInv, NEW t \in Threads, NEW r \in ThreadStates,
         th' = [th EXCEPT ![t] = r], Balanced(r),
         slot' \in [Slots -> 0..(MagicTop + Len(heap'))], heap' \in Seq(Objects),
         g_lock' \in Threads \cup {NoOne}, made' \subseteq Slots,
         fault' \in BOOLEAN, torn' \in BOOLEAN
  PROVE  TypeInv'
<1>1. /\ th' \in [Threads -> ThreadStates] /\ th'[t] = r
      /\ \A u \in Threads : u # t => th'[u] = th[u]
  BY DEF TypeInv, TypeOK
<1> QED
  BY <1>1 DEF TypeInv, TypeOK

\* A return leaves the thread a type, if its locks are a number.
LEMMA ReturnedType ==
  ASSUME TypeInv, NEW t \in Threads, NEW h \in Nat
  PROVE  /\ [Returned(t) EXCEPT !.holds = h] \in ThreadStates
         /\ Balanced([Returned(t) EXCEPT !.holds = h])
         /\ Returned(t) \in ThreadStates /\ Balanced(Returned(t))
         /\ Returned(t).holds = th[t].holds
BY DEF TypeInv, TypeOK, ThreadStates, Returned, Balanced

\* A mutex in memory changes to a mutex.
LEMMA SetMutexType ==
  ASSUME TypeInv, NEW t \in Threads, NEW o, SetMutex(t, o),
         Mutex(t) \in Objects => o \in Objects
  PROVE  heap' \in Seq(Objects) /\ Len(heap') = Len(heap)
<1> DEFINE i == th[t].mutex - MagicTop
<1>1. heap' = [heap EXCEPT ![i] = o] /\ heap \in Seq(Objects)
  BY DEF SetMutex, TypeInv, TypeOK
<1>2. CASE i \in DOMAIN heap
  <2>1. Mutex(t) \in Objects
    BY <1>1, <1>2 DEF Mutex, Object
  <2> QED
    BY <1>1, <1>2, <2>1
<1>3. CASE i \notin DOMAIN heap
  <2>1. heap' = heap
    BY <1>1, <1>3, UpdateOutside
  <2> QED
    BY <1>1, <2>1
<1> QED
  BY <1>2, <1>3

\* What glibc makes of a mutex is a mutex.
LEMMA GlibcTypes ==
  ASSUME NEW t \in Threads, NEW o \in Objects
  PROVE  Acquired(t, o) \in Objects /\ Released(t, o) \in Objects
<1>1. CountWrap \in Nat \ {0} /\ o.count \in Nat
  BY BridgeAssumption DEF Objects
<1>2. /\ (o.count + 1) % CountWrap \in 0..(CountWrap - 1)
      /\ (o.count + CountWrap - 1) % CountWrap \in 0..(CountWrap - 1)
  BY <1>1
<1>3. Acquired(t, o) \in Objects
  BY <1>2 DEF Acquired, Objects
<1>4. Released(t, o) \in Objects
  BY <1>2 DEF Released, Objects
<1> QED
  BY <1>3, <1>4

\* Call: the calls left are a number, and who unlocks holds.
LEMMA CallTypes == ASSUME TypeInv, NEW t \in Threads, Call(t) PROVE TypeInv'
<1>1. PICK op \in Resolving \cup Remaking :
        /\ op # "cond_lazy" /\ Legal(t, op)
        /\ IF op \in Resolving
             THEN /\ th' = [th EXCEPT ![t].pc = "resolve", ![t].op = op,
                                      ![t].need = Uses(op), ![t].calls = @ - 1]
                  /\ UNCHANGED made
             ELSE /\ \E s \in Uses(op) :
                       th' = [th EXCEPT ![t].pc = "enter", ![t].op = op,
                                        ![t].at = s, ![t].calls = @ - 1]
                  /\ made' = made \ Uses(op)
  BY DEF Call
<1>calls. /\ th[t].calls > 0
          /\ slot' = slot /\ heap' = heap /\ g_lock' = g_lock /\ fault' = fault /\ torn' = torn
  BY DEF Call
<1>type. th[t] \in ThreadStates
  BY DEF TypeInv, TypeOK
<1>2. /\ th[t] \in ThreadStates /\ th[t].calls - 1 \in Nat
      /\ slot' = slot /\ heap' = heap /\ g_lock' = g_lock /\ fault' = fault /\ torn' = torn
  BY <1>calls, <1>type DEF ThreadStates
<1>3. /\ Uses(op) \in SUBSET Slots /\ op # "none"
      /\ op = "unlock" => th[t].holds > 0
  BY <1>1, UsesFacts DEF Ops, Legal, Resolving, Remaking
<1>4. CASE op \in Resolving
  <2> DEFINE r == [th[t] EXCEPT !.pc = "resolve", !.op = op, !.need = Uses(op), !.calls = @ - 1]
  <2>0. r \in ThreadStates
    BY <1>2, <1>3, <1>4 DEF ThreadStates
  <2>f. r.op = op /\ r.holds = th[t].holds
    BY <1>2 DEF ThreadStates
  <2>1. r \in ThreadStates /\ Balanced(r)
    BY <1>3, <2>0, <2>f DEF Balanced
  <2>2. th' = [th EXCEPT ![t] = r] /\ made' = made
    BY <1>1, <1>4
  <2> HIDE DEF r
  <2> QED
    BY <1>2, <2>1, <2>2, TypesKept DEF TypeInv, TypeOK
<1>5. CASE op \notin Resolving
  <2>1. PICK s \in Uses(op) :
          th' = [th EXCEPT ![t].pc = "enter", ![t].op = op, ![t].at = s, ![t].calls = @ - 1]
    BY <1>1, <1>5
  <2> DEFINE r == [th[t] EXCEPT !.pc = "enter", !.op = op, !.at = s, !.calls = @ - 1]
  <2>0. r \in ThreadStates
    BY <1>2, <1>3, <2>1 DEF ThreadStates
  <2>f. r.op = op /\ r.holds = th[t].holds
    BY <1>2 DEF ThreadStates
  <2>2. r \in ThreadStates /\ Balanced(r)
    BY <1>3, <2>0, <2>f DEF Balanced
  <2>3. th' = [th EXCEPT ![t] = r] /\ made' \subseteq made
    BY <1>1, <1>5, <2>1
  <2> HIDE DEF r
  <2> QED
    BY <1>2, <2>2, <2>3, TypesKept DEF TypeInv, TypeOK
<1> QED
  BY <1>4, <1>5

\* Resolved: what is taken from a slot is a number, and the object stays one.
LEMMA ResolvedTypes ==
  ASSUME TypeInv, NEW t \in Threads, NEW s \in Slots, Resolved(t, s),
         th[t].pc # "idle",
         slot' = slot, g_lock' = g_lock, made' = made, fault' = fault
  PROVE  TypeInv'
<1>1. PICK raw \in BOOLEAN :
        /\ th' = [th EXCEPT ![t].pc = IF th[t].need \subseteq {s} THEN "do" ELSE "resolve",
                            ![t].need = @ \ {s},
                            ![t].raw = IF s = "mutex" THEN raw ELSE @,
                            ![t].mutex = IF s = "mutex" THEN slot[s] ELSE @,
                            ![t].cond = IF s = "cond" THEN slot[s] ELSE @]
        /\ heap' = IF raw THEN heap
                   ELSE [heap EXCEPT ![slot[s] - MagicTop].seen = @ \cup {t}]
        /\ torn' = (torn \/ raw)
  BY DEF Resolved, Views
<1> DEFINE r == [th[t] EXCEPT !.pc = IF th[t].need \subseteq {s} THEN "do" ELSE "resolve",
                              !.need = @ \ {s},
                              !.raw = IF s = "mutex" THEN raw ELSE @,
                              !.mutex = IF s = "mutex" THEN slot[s] ELSE @,
                              !.cond = IF s = "cond" THEN slot[s] ELSE @]
<1>2. th[t] \in ThreadStates /\ slot[s] \in Nat /\ Balanced(th[t])
  BY DEF TypeInv, TypeOK, MagicTop
<1>3. r \in ThreadStates /\ Balanced(r)
  BY <1>2 DEF ThreadStates, Balanced
<1>4. th' = [th EXCEPT ![t] = r]
  BY <1>1
<1> HIDE DEF r
<1>5. heap' \in Seq(Objects) /\ Len(heap') = Len(heap)
  <2> DEFINE i == slot[s] - MagicTop
             o == [heap[i] EXCEPT !.seen = @ \cup {t}]
  <2>1. heap \in Seq(Objects) /\ (heap' = heap \/ heap' = [heap EXCEPT ![i] = o])
    BY <1>1 DEF TypeInv, TypeOK
  <2>2. CASE i \in DOMAIN heap
    <3>0. heap[i] \in Objects
      BY <2>1, <2>2
    <3>1. o \in Objects
      BY <3>0 DEF Objects
    <3> HIDE DEF o
    <3> QED
      BY <2>1, <2>2, <3>1
  <2>3. CASE i \notin DOMAIN heap
    <3> HIDE DEF o, i
    <3> QED
      BY <2>1, <2>3, UpdateOutside
  <2> QED
    BY <2>2, <2>3
<1> QED
  BY <1>1, <1>3, <1>4, <1>5, TypesKept DEF TypeInv, TypeOK

\* FastRead, Reread and EnterG: the slots are only read.
LEMMA ReadTypes ==
  ASSUME TypeInv, NEW t \in Threads, FastRead(t) \/ Reread(t) \/ EnterG(t)
  PROVE  TypeInv'
<1>1. th[t] \in ThreadStates /\ Balanced(th[t])
  BY DEF TypeInv, TypeOK
<1>2. CASE Reread(t)
  BY <1>1, <1>2, ResolvedTypes DEF Reread, ThreadStates
<1>3. CASE EnterG(t)
  <2> DEFINE r == [th[t] EXCEPT !.pc = "inside"]
  <2>1. r \in ThreadStates /\ Balanced(r)
    BY <1>1, <1>3 DEF EnterG, ThreadStates, Balanced
  <2> QED
    BY <1>3, <2>1, TypesKept DEF EnterG, TypeInv, TypeOK
<1>4. CASE FastRead(t)
  <2>1. PICK s \in th[t].need :
          IF IS_HEAP_PTR(slot[s])
            THEN Resolved(t, s)
            ELSE /\ th' = [th EXCEPT ![t].pc = "enter", ![t].at = s]
                 /\ UNCHANGED <<heap, torn>>
    BY <1>4 DEF FastRead
  <2>2. /\ s \in Slots /\ th[t].pc = "resolve"
        /\ slot' = slot /\ g_lock' = g_lock /\ made' = made /\ fault' = fault
    BY <1>1, <1>4 DEF FastRead, ThreadStates
  <2>3. CASE IS_HEAP_PTR(slot[s])
    BY <2>1, <2>2, <2>3, ResolvedTypes
  <2>4. CASE ~IS_HEAP_PTR(slot[s])
    <3> DEFINE r == [th[t] EXCEPT !.pc = "enter", !.at = s]
    <3>1. r \in ThreadStates /\ Balanced(r)
      BY <1>1, <2>2 DEF ThreadStates, Balanced
    <3>2. th' = [th EXCEPT ![t] = r] /\ heap' = heap /\ torn' = torn
      BY <2>1, <2>4
    <3> HIDE DEF r
    <3> QED
      BY <2>2, <3>1, <3>2, TypesKept DEF TypeInv, TypeOK
  <2> QED
    BY <2>3, <2>4
<1> QED
  BY <1>2, <1>3, <1>4

\* The steps under g_lock: an object is made, or a slot emptied.
LEMMA InsideTypes ==
  ASSUME TypeInv, NEW t \in Threads,
         Create(t) \/ InitMutex(t) \/ ResetCond(t) \/ Destroy(t)
  PROVE  TypeInv'
<1> DEFINE r == [th[t] EXCEPT !.pc = "leave"]
<1>1. th[t] \in ThreadStates /\ th[t].at \in Slots /\ heap \in Seq(Objects)
  BY DEF TypeInv, TypeOK, ThreadStates
<1>2. r \in ThreadStates /\ Balanced(r)
  <2>1. th[t].pc = "inside" /\ Balanced(th[t])
    BY DEF Create, InitMutex, ResetCond, Destroy, TypeInv
  <2> QED
    BY <1>1, <2>1 DEF ThreadStates, Balanced
<1>3. /\ th' = [th EXCEPT ![t] = r] /\ g_lock' = g_lock /\ made' = made /\ torn' = torn
      /\ fault' \in BOOLEAN
  <2>1. fault \in BOOLEAN
    BY DEF TypeInv, TypeOK
  <2>2. CASE Create(t) \/ InitMutex(t) \/ ResetCond(t)
    BY <2>1, <2>2 DEF Create, InitMutex, ResetCond
  <2>3. CASE Destroy(t)
    BY <2>3 DEF Destroy
  <2> QED
    BY <2>2, <2>3
<1>4. /\ heap' \in Seq(Objects)
      /\ slot' \in [Slots -> 0..(MagicTop + Len(heap'))]
  <2>1. CASE slot' = slot /\ heap' = heap
    BY <2>1 DEF TypeInv, TypeOK
  <2>2. CASE heap' = heap /\ \E s \in Slots : slot' = [slot EXCEPT ![s] = 0]
    BY <2>2 DEF TypeInv, TypeOK, MagicTop
  <2>3. CASE \E s \in Slots : Made(t, s)
    <3>1. NewObject(t) \in Objects
      BY BridgeAssumption DEF NewObject, Objects
    <3>2. heap' \in Seq(Objects) /\ Len(heap') = Len(heap) + 1 /\ Len(heap) \in Nat
      BY <1>1, <2>3, <3>1 DEF Made
    <3>3. PICK s \in Slots : slot' = [slot EXCEPT ![s] = MagicTop + Len(heap) + 1]
      BY <2>3 DEF Made
    <3> QED
      BY <3>2, <3>3 DEF TypeInv, TypeOK, MagicTop
  <2> QED
    BY <1>1, <2>1, <2>2, <2>3 DEF Create, InitMutex, ResetCond, Destroy, Slots
<1> HIDE DEF r
<1> QED
  BY <1>2, <1>3, <1>4, TypesKept DEF TypeInv, TypeOK

\* LeaveG: also a store that lands late leaves an object.
LEMMA LeaveGTypes == ASSUME TypeInv, NEW t \in Threads, LeaveG(t) PROVE TypeInv'
<1>1. /\ th[t] \in ThreadStates /\ heap \in Seq(Objects) /\ made \subseteq Slots
      /\ slot' = slot /\ g_lock' = NoOne /\ fault' = fault
      /\ fault \in BOOLEAN /\ torn \in BOOLEAN /\ Balanced(th[t])
      /\ slot \in [Slots -> 0..(MagicTop + Len(heap))]
  BY DEF LeaveG, TypeInv, TypeOK
<1>2. PICK late \in BOOLEAN :
        /\ heap' = [i \in DOMAIN heap |->
                     Settled(IF late /\ ~heap[i].settled THEN NewObject(t) ELSE heap[i])]
        /\ torn' = (torn \/ late)
  BY DEF LeaveG
<1>3. heap' \in Seq(Objects) /\ Len(heap') = Len(heap)
  <2>1. NewObject(t) \in Objects /\ \A o \in Objects : Settled(o) \in Objects
    <3>1. NewObject(t) \in Objects
      BY BridgeAssumption DEF NewObject, Objects
    <3>2. ASSUME NEW o \in Objects PROVE Settled(o) \in Objects
      BY DEF Objects, Settled
    <3> QED
      BY <3>1, <3>2
  <2>2. DOMAIN heap = 1..Len(heap) /\ Len(heap) \in Nat /\ \A i \in DOMAIN heap : heap[i] \in Objects
    BY <1>1
  <2>3. \A i \in 1..Len(heap) : heap'[i] \in Objects
    BY <1>2, <2>1, <2>2
  <2>4. heap' = [i \in 1..Len(heap) |-> heap'[i]]
    BY <1>2, <2>2
  <2> QED
    BY <2>2, <2>3, <2>4
<1>4. \E r \in ThreadStates : Balanced(r) /\ th' = [th EXCEPT ![t] = r]
  <2>1. CASE th[t].op \in Resolving
    <3> DEFINE r == [th[t] EXCEPT !.pc = "reread"]
    <3>1. r \in ThreadStates /\ Balanced(r)
      BY <1>1, <2>1 DEF ThreadStates, Balanced, Resolving
    <3>2. th' = [th EXCEPT ![t] = r]
      BY <2>1 DEF LeaveG, Resolving
    <3> HIDE DEF r
    <3> QED
      BY <3>1, <3>2
  <2>2. CASE th[t].op = "cond_init"
    <3> DEFINE r == [th[t] EXCEPT !.pc = "resolve", !.op = "cond_lazy", !.need = {"cond"}]
    <3>1. r \in ThreadStates /\ Balanced(r)
      BY <1>1 DEF ThreadStates, Balanced, Resolving, Slots
    <3>2. th' = [th EXCEPT ![t] = r]
      BY <2>2 DEF LeaveG, Resolving
    <3> HIDE DEF r
    <3> QED
      BY <3>1, <3>2
  <2>3. CASE th[t].op \in {"mutex_init", "mutex_destroy", "cond_destroy"}
    <3>1. th' = [th EXCEPT ![t] = Returned(t)]
      BY <2>3 DEF LeaveG, Resolving
    <3>2. Returned(t) \in ThreadStates /\ Balanced(Returned(t))
      BY <1>1, ReturnedType DEF ThreadStates
    <3> QED
      BY <3>1, <3>2
  <2>4. th[t].op # "none"
    BY <1>1 DEF LeaveG, Balanced
  <2> QED
    BY <1>1, <2>1, <2>2, <2>3, <2>4 DEF ThreadStates, Remaking
<1>5. made' \subseteq Slots
  <2>1. th[t].op # "none"
    BY <1>1 DEF LeaveG, Balanced
  <2>2. CASE th[t].op \in Resolving \cup {"cond_init"}
    BY <1>1, <2>2 DEF LeaveG, Resolving
  <2>3. CASE th[t].op \in {"mutex_init", "mutex_destroy", "cond_destroy"}
    <3>1. made' = IF th[t].op = "mutex_init" THEN made \cup {"mutex"} ELSE made
      BY <2>3 DEF LeaveG, Resolving
    <3> QED
      BY <1>1, <3>1 DEF Slots
  <2> QED
    BY <1>1, <2>1, <2>2, <2>3 DEF ThreadStates, Remaking
<1>6. torn' \in BOOLEAN /\ g_lock' \in Threads \cup {NoOne} /\ fault' \in BOOLEAN
  BY <1>1, <1>2
<1>7. slot' \in [Slots -> 0..(MagicTop + Len(heap'))]
  BY <1>1, <1>3
<1> QED
  BY <1>3, <1>4, <1>5, <1>6, <1>7, TypesKept

\* Lock, Unlock, Wait and Relock: glibc works on the object.
LEMMA ObjectTypes ==
  ASSUME TypeInv, NEW t \in Threads, Lock(t) \/ Unlock(t) \/ Wait(t) \/ Relock(t)
  PROVE  TypeInv'
<1>1. th[t] \in ThreadStates /\ Balanced(th[t]) /\ th[t].holds \in Nat
  BY DEF TypeInv, TypeOK, ThreadStates
<1>2. /\ slot' = slot /\ g_lock' = g_lock /\ made' = made /\ fault' = fault /\ torn' = torn
  BY DEF Lock, Unlock, Wait, Relock, Quietly
<1>3. \/ SetMutex(t, Acquired(t, Mutex(t)))
      \/ SetMutex(t, Released(t, Mutex(t)))
  BY DEF Lock, Unlock, Wait, Relock
<1>4. heap' \in Seq(Objects) /\ Len(heap') = Len(heap)
  <2>1. CASE SetMutex(t, Acquired(t, Mutex(t)))
    BY <2>1, GlibcTypes, SetMutexType
  <2>2. CASE SetMutex(t, Released(t, Mutex(t)))
    BY <2>2, GlibcTypes, SetMutexType
  <2> QED
    BY <1>3, <2>1, <2>2
<1>5. \E r \in ThreadStates : Balanced(r) /\ th' = [th EXCEPT ![t] = r]
  <2>1. CASE Lock(t) \/ Unlock(t) \/ Relock(t)
    <3>1. PICK h \in Nat : th' = [th EXCEPT ![t] = [Returned(t) EXCEPT !.holds = h]]
      <4>1. Returned(t).holds = th[t].holds /\ Returned(t) \in ThreadStates
        BY <1>1, ReturnedType
      <4>2. CASE Lock(t)
        <5>1. [Returned(t) EXCEPT !.holds = @ + 1] = [Returned(t) EXCEPT !.holds = th[t].holds + 1]
          BY <4>1 DEF ThreadStates
        <5>2. th[t].holds + 1 \in Nat
          BY <1>1
        <5> QED
          BY <4>2, <5>1, <5>2 DEF Lock
      <4>3. CASE Unlock(t)
        <5>1. [Returned(t) EXCEPT !.holds = @ - 1] = [Returned(t) EXCEPT !.holds = th[t].holds - 1]
          BY <4>1 DEF ThreadStates
        <5>2. th[t].holds - 1 \in Nat
          BY <1>1, <4>3 DEF Unlock, Do, Balanced
        <5> QED
          BY <4>3, <5>1, <5>2 DEF Unlock
      <4>4. CASE Relock(t)
        BY <4>4 DEF Relock
      <4> QED
        BY <2>1, <4>2, <4>3, <4>4
    <3> QED
      BY <3>1, ReturnedType
  <2>2. CASE Wait(t)
    <3> DEFINE r == [th[t] EXCEPT !.pc = "blocked", !.holds = 0]
    <3>1. r \in ThreadStates /\ r.op = "wait"
      BY <1>1, <2>2 DEF ThreadStates, Wait, Do
    <3>2. th' = [th EXCEPT ![t] = r]
      BY <2>2 DEF Wait
    <3> HIDE DEF r
    <3> QED
      BY <3>1, <3>2 DEF Balanced
  <2> QED
    BY <2>1, <2>2
<1> QED
  BY <1>2, <1>4, <1>5, TypesKept DEF TypeInv, TypeOK

\* The rest leaves the objects alone.
LEMMA OtherTypes ==
  ASSUME TypeInv, NEW t \in Threads, TrylockFails(t) \/ WakeAlone(t) \/ CondReady(t)
  PROVE  TypeInv'
<1>1. th[t] \in ThreadStates /\ Balanced(th[t])
  BY DEF TypeInv, TypeOK
<1>2. Returned(t) \in ThreadStates /\ Balanced(Returned(t))
  BY <1>1, ReturnedType DEF ThreadStates
<1>3. CASE TrylockFails(t)
  BY <1>2, <1>3, TypesKept DEF TrylockFails, Quietly, TypeInv, TypeOK
<1>4. CASE CondReady(t)
  <2>1. made' \subseteq Slots
    BY <1>4 DEF CondReady, TypeInv, TypeOK, Slots
  <2> QED
    BY <1>2, <1>4, <2>1, TypesKept DEF CondReady, TypeInv, TypeOK
<1>5. CASE WakeAlone(t)
  <2> DEFINE r == [th[t] EXCEPT !.pc = "relock"]
  <2>1. r \in ThreadStates /\ Balanced(r)
    BY <1>1, <1>5 DEF WakeAlone, ThreadStates, Balanced
  <2>2. th' = [th EXCEPT ![t] = r]
    BY <1>5 DEF WakeAlone
  <2> HIDE DEF r
  <2> QED
    BY <1>5, <2>1, <2>2, TypesKept DEF WakeAlone, Quietly, TypeInv, TypeOK
<1> QED
  BY <1>3, <1>4, <1>5

\* Signal: several threads move at once.
LEMMA SignalTypes == ASSUME TypeInv, NEW t \in Threads, Signal(t) PROVE TypeInv'
<1>1. PICK W \in SUBSET Blocked(th[t].cond) :
        th' = [u \in Threads |->
                 IF u = t THEN Returned(t)
                 ELSE IF u \in W THEN [th[u] EXCEPT !.pc = "relock"]
                 ELSE th[u]]
  BY DEF Signal
<1>2. ASSUME NEW u \in Threads PROVE th'[u] \in ThreadStates /\ Balanced(th'[u])
  <2>1. th[u] \in ThreadStates /\ Balanced(th[u])
    BY DEF TypeInv, TypeOK
  <2>2. CASE u = t
    <3>1. Returned(t) \in ThreadStates /\ Balanced(Returned(t))
      BY <2>1, <2>2, ReturnedType DEF ThreadStates
    <3> QED
      BY <1>1, <2>2, <3>1
  <2>3. CASE u # t /\ u \in W
    <3>1. th[u].pc = "blocked"
      BY <2>3 DEF Blocked
    <3>2. th'[u] = [th[u] EXCEPT !.pc = "relock"]
      BY <1>1, <2>3
    <3> QED
      BY <2>1, <3>1, <3>2 DEF ThreadStates, Balanced
  <2>4. CASE u # t /\ u \notin W
    BY <1>1, <2>1, <2>4
  <2> QED
    BY <2>2, <2>3, <2>4
<1>3. th' \in [Threads -> ThreadStates]
  BY <1>1, <1>2
<1> QED
  BY <1>2, <1>3 DEF Signal, Quietly, TypeInv, TypeOK

-----------------------------------------------------------------------------
(* The theorems *)

\* The bridge keeps its variables to their types, whatever is torn and however
\* often a thread locks.
THEOREM TypeCorrect == Spec => []TypeOK
<1>1. Init => TypeInv
  <2> SUFFICES ASSUME Init PROVE TypeInv
    OBVIOUS
  <2>1. TypeOK
    BY InitEstablishes DEF IInv
  <2>2. \A t \in Threads : Balanced(th[t])
    BY DEF Init, Resting, Balanced
  <2> QED
    BY <2>1, <2>2 DEF TypeInv
<1>2. TypeInv /\ [Next]_vars => TypeInv'
  <2> SUFFICES ASSUME TypeInv, [Next]_vars PROVE TypeInv'
    OBVIOUS
  <2>1. CASE UNCHANGED vars
    BY <2>1 DEF vars, TypeInv, TypeOK
  <2>2. CASE Next
    <3>1. PICK t \in Threads :
            \/ Call(t) \/ FastRead(t) \/ EnterG(t) \/ Create(t) \/ InitMutex(t)
            \/ ResetCond(t) \/ CondReady(t) \/ Destroy(t) \/ LeaveG(t) \/ Reread(t)
            \/ Lock(t) \/ TrylockFails(t) \/ Unlock(t) \/ Wait(t) \/ WakeAlone(t)
            \/ Signal(t) \/ Relock(t)
      BY <2>2 DEF Next
    <3> QED
      BY <3>1, CallTypes, ReadTypes, InsideTypes, LeaveGTypes, ObjectTypes, OtherTypes,
         SignalTypes
  <2> QED
    BY <2>1, <2>2
<1>3. TypeInv => TypeOK
  BY DEF TypeInv
<1> QED
  BY <1>1, <1>2, <1>3, PTL DEF Spec

\* What was torn stays torn.
LEMMA TornStays == TypeOK /\ [Next]_vars /\ ~torn' => ~torn
<1> SUFFICES ASSUME TypeOK, [Next]_vars, ~torn' PROVE ~torn
  OBVIOUS
<1>1. CASE UNCHANGED vars
  BY <1>1 DEF vars
<1>2. CASE Next
  <2>1. PICK t \in Threads :
          \/ Call(t) \/ FastRead(t) \/ EnterG(t) \/ Create(t) \/ InitMutex(t)
          \/ ResetCond(t) \/ CondReady(t) \/ Destroy(t) \/ LeaveG(t) \/ Reread(t)
          \/ Lock(t) \/ TrylockFails(t) \/ Unlock(t) \/ Wait(t) \/ WakeAlone(t)
          \/ Signal(t) \/ Relock(t)
    BY <1>2 DEF Next
  <2>2. CASE LeaveG(t) \/ FastRead(t) \/ Reread(t)
    BY <2>2 DEF LeaveG, FastRead, Reread, Resolved
  <2>3. CASE \/ Call(t) \/ EnterG(t) \/ Create(t) \/ InitMutex(t) \/ ResetCond(t)
             \/ CondReady(t) \/ Destroy(t)
    BY <2>3 DEF Call, EnterG, Create, InitMutex, ResetCond, CondReady, Destroy
  <2>4. CASE \/ Lock(t) \/ TrylockFails(t) \/ Unlock(t) \/ Wait(t) \/ WakeAlone(t)
             \/ Signal(t) \/ Relock(t)
    BY <2>4 DEF Lock, TrylockFails, Unlock, Wait, WakeAlone, Signal, Relock, Quietly
  <2> QED
    BY <2>1, <2>2, <2>3, <2>4
<1> QED
  BY <1>1, <1>2

\* While every object was stored before it was used, the mutex in memory, its
\* glibc object and what the threads know of it agree.
Agreed == ~torn => IInv
THEOREM Invariant ==
  ASSUME MaxCalls < CountWrap
  PROVE  Spec => []Agreed
<1>1. Init => Agreed
  BY InitEstablishes DEF Agreed
<1>2. TypeOK /\ Agreed /\ [Next]_vars => Agreed'
  BY StepPreserves, TornStays DEF Agreed
<1>3. Spec => []TypeOK
  BY TypeCorrect
<1> QED
  BY <1>1, <1>2, <1>3, PTL DEF Spec

\* However first uses, initialisations and destructions of many threads meet,
\* two threads never hold the mutex of the game at once, until an object is
\* used before it is stored.
THEOREM MutexExcludes ==
  ASSUME MaxCalls < CountWrap
  PROVE  Spec => []MutualExclusion
<1>1. Agreed => MutualExclusion
  BY DEF Agreed, IInv, Parts, LockOK, MutualExclusion
<1>2. Spec => []Agreed
  BY Invariant
<1> QED
  BY <1>1, <1>2, PTL

\* A thread in no call that holds nothing owns no glibc mutex, not even one
\* that the bridge made earlier and no slot refers to any more, until an object
\* is used before it is stored.
THEOREM NothingStaysLocked ==
  ASSUME MaxCalls < CountWrap
  PROVE  Spec => []NothingLeftLocked
<1>1. Agreed => NothingLeftLocked
  BY DEF Agreed, IInv, Parts, LockOK, NothingLeftLocked, LazyInitIsSafe
<1>2. Spec => []Agreed
  BY Invariant
<1> QED
  BY <1>1, <1>2, PTL

\* The slot of the condition variable and what the threads know of it agree.
CondAgree == ~torn => CondInv
THEOREM CondAgreed ==
  ASSUME MaxCalls < CountWrap
  PROVE  Spec => []CondAgree
<1>1. Init => CondAgree
  BY DEF Init, CondAgree, CondInv, CondAlone, KnowsCond, UsesCond, CondOps, Resolving,
         Resting, Slots
<1>2. TypeOK /\ Agreed /\ CondAgree /\ [Next]_vars => CondAgree'
  BY CondStep, TornStays DEF Agreed, CondAgree
<1>3. Spec => []TypeOK /\ []Agreed
  BY TypeCorrect, Invariant, PTL
<1> QED
  BY <1>1, <1>2, <1>3, PTL DEF Spec

\* A signal or a broadcast wakes a thread that waits, if there is one, however
\* many threads use the condition variable for the first time at once, until an
\* object is used before it is stored.
THEOREM SignalsReachWaiters ==
  ASSUME MaxCalls < CountWrap
  PROVE  Spec => SignalWakes
<1>1. ASSUME IInv, CondInv, NEW t \in Threads, Signal(t), Waiting # {}
      PROVE  \E w \in Waiting : th'[w].pc = "relock"
  <2>1. ASSUME NEW u \in Threads,
               u \in Waiting \/ (th[u].pc = "do" /\ th[u].op \in {"signal", "broadcast"})
        PROVE  th[u].cond = slot["cond"]
    <3>1. Placed(th[u]) /\ KnowsCond(th[u], slot["cond"])
      BY <1>1, CondFacts
    <3> QED
      BY <2>1, <3>1
      DEF Placed, KnowsCond, UsesCond, CondOps, Resolving, Remaking, Waiting
  <2>2. th[t].pc = "do" /\ th[t].cond = slot["cond"]
    BY <1>1, <2>1 DEF Signal, Do
  <2>3. Blocked(th[t].cond) = Waiting
    BY <2>1, <2>2 DEF Blocked, Waiting
  <2>4. PICK W \in SUBSET Blocked(th[t].cond) :
          /\ W # {}
          /\ th' = [u \in Threads |->
                      IF u = t THEN Returned(t)
                      ELSE IF u \in W THEN [th[u] EXCEPT !.pc = "relock"]
                      ELSE th[u]]
    BY <1>1, <2>3 DEF Signal
  <2>5. PICK w \in W : w \in Waiting /\ w \in Threads /\ w # t
    BY <2>2, <2>3, <2>4 DEF Waiting
  <2>6. th'[w] = [th[w] EXCEPT !.pc = "relock"] /\ th[w] \in ThreadStates
    BY <1>1, <2>4, <2>5 DEF IInv, TypeOK
  <2>7. th'[w].pc = "relock"
    BY <2>6 DEF ThreadStates
  <2> QED
    BY <2>5, <2>7
<1>2. Agreed /\ CondAgree /\ [Next]_vars =>
        [\A t \in Threads :
           Signal(t) /\ Waiting # {} /\ ~torn => \E w \in Waiting : th'[w].pc = "relock"]_vars
  BY <1>1 DEF Agreed, CondAgree
<1>3. Spec => []Agreed /\ []CondAgree
  BY Invariant, CondAgreed, PTL
<1> QED
  BY <1>2, <1>3, PTL DEF Spec, SignalWakes
=============================================================================
