-------------------------- MODULE LauncherRunProofs --------------------------
(***************************************************************************)
(* For any number of launches, signals and killed launchers: games that    *)
(* their launchers wait for exclude each other, a launcher hands the       *)
(* screen back exactly once, and its exit status is that of its game.      *)
(***************************************************************************)
EXTENDS LauncherProofs

\* The commands from the fork to the last wait.
WithGame ==
  {"forked", "launched", "captured", "wait", "waited", "again", "grace", "kill",
   "rewait"}

\* The commands that run under the lock.
Holding == Owning \cup {"splashing", "adapter", "armed", "end"} \cup WithGame

\* pm_finish has been called if and only if NXBOOTSTRAP_FINISHED says so, and it
\* was cut short only by the trap of the time before the game, which leaves.
FinishInv(l) ==
  /\ pm[l].calls = IF sh[l].finished THEN 1 ELSE 0
  /\ pm[l].state = "cut" => sh[l].aborting
  /\ sh[l].aborting => sh[l].pc \in {"pm", "exit", "gone"} /\ ~sh[l].game_pid
  /\ sh[l].pc \in {"armed", "forked"} \/ sh[l].game_pid => sh[l].trap # "abort"
  /\ sh[l].pc = "gone" => ~sh[l].due
  /\ sh[l].pc = "gone" /\ l \notin killed => sh[l].finished

\* From the lock to the end of the game the shell has the lock, and a game whose
\* launcher was not killed has a launcher that waits for it.
HoldInv(l) ==
  /\ sh[l].pc \in Holding => lock = l /\ "shell" \in fds[l]
  /\ Running(l) /\ l \notin killed => sh[l].pc \in WithGame
  /\ l \in killed => sh[l].pc = "gone"

\* The launcher has the game's status.
Collected(l) == child[l].state = "reaped" /\ sh[l].status = child[l].code

\* Until a wait has returned the game's status the script knows that it has not:
\* its own is that of an interrupted wait, and a wait is left in the budget.
StatusInv(l) ==
  /\ sh[l].pc \in WithGame => sh[l].pc = "forked" \/ sh[l].game_pid
  /\ sh[l].shutdown => sh[l].count > 0
  /\ sh[l].pc \in {"waited", "grace", "kill"} =>
       Collected(l) \/ (sh[l].status = Interrupted /\ sh[l].shutdown)
  /\ sh[l].pc = "rewait" =>
       Collected(l) \/ (sh[l].status = Interrupted /\ sh[l].budget > 0)
  /\ sh[l].pc \in {"again", "end"} => Collected(l)
  /\ sh[l].pc \in {"pm", "exit", "gone"} /\ sh[l].game_pid /\ l \notin killed =>
       Collected(l)

RunInv == \A l \in Launchers : FinishInv(l) /\ HoldInv(l) /\ StatusInv(l)

-----------------------------------------------------------------------------

\* A step of one launch leaves every other as it is, and its lock with it.
Elsewhere(l) ==
  \A k \in Launchers \ {l} :
    /\ sh'[k] = sh[k] /\ child'[k] = child[k] /\ pm'[k] = pm[k]
    /\ fds'[k] = fds[k] /\ (k \in killed' <=> k \in killed)
    /\ lock = k => lock' = k

\* It is enough to look at the launch that takes the step.
LEMMA RunFrame ==
  ASSUME RunInv, NEW l \in Launchers, Elsewhere(l),
         FinishInv(l)', HoldInv(l)', StatusInv(l)'
  PROVE  RunInv'
<1> SUFFICES ASSUME NEW k \in Launchers, k # l
             PROVE  FinishInv(k)' /\ HoldInv(k)' /\ StatusInv(k)'
  BY DEF RunInv
<1>1. FinishInv(k) /\ HoldInv(k) /\ StatusInv(k)
  BY DEF RunInv
<1> QED
  BY <1>1 DEF Elsewhere, FinishInv, HoldInv, StatusInv, Collected, Running

\* What FinishAndExit assigns, when a status is collected or no game was started.
LEMMA FinishKeeps ==
  ASSUME TypeOK, RunInv, NEW l \in Launchers, NEW status \in Codes \cup {"failed"},
         FinishAndExit(l, status), UNCHANGED <<child, killed>>,
         \A k \in Launchers \ {l} : fds'[k] = fds[k] /\ (lock = k => lock' = k),
         sh[l].pc # "gone",  ~Running(l),
         sh[l].game_pid => child[l].state = "reaped" /\ status = child[l].code
  PROVE  RunInv'
<1>0. /\ sh \in [Launchers -> ShellRecord] /\ sh[l] \in ShellRecord
      /\ pm \in [Launchers -> PmRecord] /\ pm[l] \in PmRecord
      /\ FinishInv(l) /\ HoldInv(l) /\ StatusInv(l)
  BY DEF TypeOK, RunInv
<1>1. /\ \/ /\ sh[l].finished
            /\ sh'[l] = [sh[l] EXCEPT !.pc = "exit", !.status = status]
            /\ pm'[l] = pm[l]
         \/ /\ ~sh[l].finished
            /\ sh'[l] = [sh[l] EXCEPT !.pc = "pm", !.finished = TRUE, !.status = status]
            /\ pm'[l] = [calls |-> pm[l].calls + 1, state |-> "running"]
      /\ \A k \in Launchers \ {l} : sh'[k] = sh[k] /\ pm'[k] = pm[k]
  BY <1>0 DEF FinishAndExit, PmStart
<1>2. /\ sh'[l].pc \in {"exit", "pm"} /\ sh'[l].finished /\ sh'[l].status = status
      /\ sh'[l].aborting = sh[l].aborting /\ sh'[l].game_pid = sh[l].game_pid
      /\ sh'[l].trap = sh[l].trap
      /\ sh'[l].shutdown = sh[l].shutdown /\ sh'[l].count = sh[l].count
      /\ pm'[l].calls = 1
      /\ pm'[l].state = "cut" => pm[l].state = "cut"
  <2>1. CASE sh[l].finished
    <3>1. /\ sh'[l] = [sh[l] EXCEPT !.pc = "exit", !.status = status]
          /\ pm'[l] = pm[l]
      BY <1>1, <2>1
    <3>2. pm[l].calls = 1
      BY <1>0, <2>1 DEF FinishInv
    <3> QED
      BY <1>0, <2>1, <3>1, <3>2 DEF ShellRecord
  <2>2. CASE ~sh[l].finished
    <3>1. /\ sh'[l] = [sh[l] EXCEPT !.pc = "pm", !.finished = TRUE, !.status = status]
          /\ pm'[l] = [calls |-> pm[l].calls + 1, state |-> "running"]
      BY <1>1, <2>2
    <3>2. pm[l].calls = 0
      BY <1>0, <2>2 DEF FinishInv
    <3> QED
      BY <1>0, <3>1, <3>2 DEF ShellRecord
  <2> QED
    BY <2>1, <2>2
<1>3. Elsewhere(l)
  BY <1>1 DEF Elsewhere
<1>4. FinishInv(l)'
  BY <1>0, <1>2 DEF FinishInv
<1>5. HoldInv(l)'
  BY <1>0, <1>2 DEF HoldInv, Running, Holding, Owning, WithGame
<1>6. StatusInv(l)'
  BY <1>0, <1>2 DEF StatusInv, Collected, WithGame, HoldInv
<1> QED
  BY <1>3, <1>4, <1>5, <1>6, RunFrame

\* What most commands of the script leave alone.
Kept(l) ==
  /\ sh'[l].finished = sh[l].finished /\ sh'[l].aborting = sh[l].aborting
  /\ sh'[l].game_pid = sh[l].game_pid /\ sh'[l].status = sh[l].status
  /\ sh'[l].shutdown = sh[l].shutdown /\ sh'[l].count = sh[l].count
  /\ sh'[l].budget = sh[l].budget

\* The commands from the lock to the traps of the game.
Early == Owning \cup {"lock", "splashing", "adapter", "armed"}

\* A command that only goes on, before the game, beside it or after a wait.
LEMMA GoesOn ==
  ASSUME TypeOK, RunInv, NEW l \in Launchers, Kept(l), Elsewhere(l),
         UNCHANGED <<child, pm, killed>>,
         sh[l].pc # "gone",
         sh'[l].trap \in {sh[l].trap, "forward", "ignore"},
         sh'[l].pc = "armed" => sh'[l].trap # "abort",
         sh'[l].pc \in Holding => lock' = l /\ "shell" \in fds'[l],
         \/ sh'[l].pc = sh[l].pc
         \/ sh[l].pc \notin WithGame /\ sh'[l].pc \in Early /\ ~sh[l].aborting
         \/ sh[l].pc \in WithGame /\ sh[l].game_pid /\ sh'[l].pc \in {"captured", "wait"}
         \/ {sh[l].pc, sh'[l].pc} \subseteq {"waited", "grace", "kill"}
  PROVE  RunInv'
<1>0. FinishInv(l) /\ HoldInv(l) /\ StatusInv(l)
  BY DEF RunInv
<1>1. FinishInv(l)'
  <2>1. sh[l].aborting => sh'[l].pc \in {"pm", "exit", "gone"}
    BY <1>0 DEF FinishInv, WithGame
  <2>2. sh'[l].pc \in {"armed", "forked"} \/ sh[l].game_pid => sh'[l].trap # "abort"
    BY <1>0 DEF FinishInv, WithGame, Early, Owning
  <2>3. sh'[l].pc # "gone"
    BY DEF Early, Owning
  <2> QED
    BY <1>0, <2>1, <2>2, <2>3 DEF FinishInv, Kept
<1>2. HoldInv(l)'
  BY <1>0 DEF HoldInv, Running, WithGame
<1>3. StatusInv(l)'
  <2>1. Collected(l)' <=> Collected(l)
    BY DEF Collected, Kept
  <2> QED
    BY <1>0, <2>1 DEF StatusInv, Kept, WithGame, Early, Owning
<1> QED
  BY <1>1, <1>2, <1>3, RunFrame

\* The look at the game before a signal changes nothing that the invariant is about.
LEMMA SignalKeepsRun ==
  ASSUME TypeOK, RunInv, NEW l \in Launchers, NEW s \in ShellRecord,
         SignalChild(l, s), UNCHANGED <<child, pm, fds, lock, killed>>,
         sh[l].pc # "gone",
         s.finished = sh[l].finished, s.aborting = sh[l].aborting,
         s.game_pid = sh[l].game_pid, s.trap = sh[l].trap,
         s.budget = sh[l].budget, s.shutdown => s.count > 0,
         sh[l].shutdown => s.shutdown,
         \/ s.pc = sh[l].pc /\ s.status = sh[l].status
         \/ sh[l].pc \in WithGame /\ sh[l].game_pid /\ s.pc = "wait"
         \/ sh[l].pc = "wait" /\ s.pc = "waited" /\ s.status = Interrupted /\ s.shutdown
  PROVE  RunInv'
<1>0. /\ sh \in [Launchers -> ShellRecord] /\ sh[l] \in ShellRecord
      /\ child \in [Launchers -> GameRecord] /\ child[l] \in GameRecord
      /\ FinishInv(l) /\ HoldInv(l) /\ StatusInv(l)
  BY DEF TypeOK, RunInv
<1>1. /\ \A k \in Launchers \ {l} : sh'[k] = sh[k]
      /\ \/ sh'[l] = s
         \/ \E o : sh'[l] = [s EXCEPT !.starttime = o]
         \/ \E o, p : sh'[l] = [s EXCEPT !.starttime = o, !.term_sent = TRUE, !.aim = p]
  <2> DEFINE start == IF s.starttime = NoOne /\ s.game_pid
                        THEN child[l].pid ELSE s.starttime
  <2>1. CASE s.term_sent \/ ~s.game_pid
    BY <1>0, <2>1 DEF SignalChild
  <2>2. CASE ~(s.term_sent \/ ~s.game_pid) /\ ~Alive(l, start)
    BY <1>0, <2>2 DEF SignalChild
  <2>3. CASE ~(s.term_sent \/ ~s.game_pid) /\ Alive(l, start)
    <3>1. sh' = [sh EXCEPT ![l] = [s EXCEPT !.starttime = start, !.term_sent = TRUE,
                                            !.aim = child[l].pid]]
      BY <2>3 DEF SignalChild
    <3> QED
      BY <1>0, <3>1
  <2> QED
    BY <2>1, <2>2, <2>3
<1>2. /\ sh'[l].pc = s.pc /\ sh'[l].finished = s.finished
      /\ sh'[l].aborting = s.aborting /\ sh'[l].game_pid = s.game_pid
      /\ sh'[l].trap = s.trap /\ sh'[l].status = s.status
      /\ sh'[l].shutdown = s.shutdown /\ sh'[l].count = s.count
      /\ sh'[l].budget = s.budget
  <2>1. CASE sh'[l] = s
    BY <2>1
  <2>2. CASE \E o : sh'[l] = [s EXCEPT !.starttime = o]
    BY <2>2 DEF ShellRecord
  <2>3. CASE \E o, p : sh'[l] = [s EXCEPT !.starttime = o, !.term_sent = TRUE, !.aim = p]
    BY <2>3 DEF ShellRecord
  <2> QED
    BY <1>1, <2>1, <2>2, <2>3
<1>3. Elsewhere(l)
  BY <1>1 DEF Elsewhere
<1>4. FinishInv(l)'
  <2>1. s.pc # "gone"
    BY DEF WithGame
  <2>2. sh[l].pc \in WithGame => ~sh[l].aborting
    BY <1>0 DEF FinishInv, WithGame
  <2> QED
    BY <1>0, <1>2, <2>1, <2>2 DEF FinishInv, WithGame
<1>5. HoldInv(l)'
  BY <1>0, <1>1, <1>2 DEF HoldInv, Running, WithGame, Holding
<1>6. StatusInv(l)'
  <2>1. s.status = sh[l].status => (Collected(l)' <=> Collected(l))
    BY <1>1, <1>2 DEF Collected
  <2> QED
    BY <1>0, <1>2, <2>1 DEF StatusInv, WithGame
<1> QED
  BY <1>3, <1>4, <1>5, <1>6, RunFrame

\* Without a start time and a pid the launch is before its game.
LEMMA NoGameYet ==
  ASSUME SignalInv, RunInv, NEW l \in Launchers, sh[l].pc \in BeforePid \ {"forked"}
  PROVE  ~sh[l].game_pid /\ ~Running(l)
<1>1. ~sh[l].game_pid
  BY DEF SignalInv
<1>2. HoldInv(l)
  BY DEF RunInv
<1> QED
  BY <1>1, <1>2 DEF HoldInv, BeforePid, WithGame

\* Before the game a launch can be refused.
LEMMA RefuseKeeps ==
  ASSUME TypeOK, SignalInv, RunInv, NEW l \in Launchers,
         Refuse(l), sh[l].pc \in BeforePid \ {"forked"}
  PROVE  RunInv'
<1>1. /\ FinishAndExit(l, "failed") /\ UNCHANGED <<child, killed>>
      /\ \A k \in Launchers \ {l} : fds'[k] = fds[k] /\ (lock = k => lock' = k)
  BY DEF Refuse, Budgets
<1>2. ~sh[l].game_pid /\ ~Running(l)
  BY NoGameYet
<1>3. sh[l].pc # "gone"
  BY DEF BeforePid
<1> QED
  BY <1>1, <1>2, <1>3, FinishKeeps

\* The place and the status of a game that is waited for may change, if what the
\* script knows of it stays true.
LEMMA GameKeeps ==
  ASSUME TypeOK, RunInv, NEW l \in Launchers, UNCHANGED <<pm, killed>>,
         Kept(l), sh'[l].pc = sh[l].pc, sh'[l].trap = sh[l].trap, sh'[l].due = sh[l].due,
         \A k \in Launchers \ {l} :
           sh'[k] = sh[k] /\ child'[k] = child[k] /\ fds'[k] = fds[k] /\ (lock = k => lock' = k),
         "shell" \in fds[l] => "shell" \in fds'[l] /\ (lock = l => lock' = l),
         child'[l].state = "running" => child[l].state = "running",
         child[l].state = "reaped" =>
           child'[l].state = "reaped" /\ child'[l].code = child[l].code
  PROVE  RunInv'
<1>0. FinishInv(l) /\ HoldInv(l) /\ StatusInv(l)
  BY DEF RunInv
<1>1. Elsewhere(l)
  BY DEF Elsewhere
<1>2. FinishInv(l)'
  BY <1>0 DEF FinishInv, Kept
<1>3. HoldInv(l)'
  BY <1>0 DEF HoldInv, Running, Kept
<1>4. Collected(l) => Collected(l)'
  BY DEF Collected, Kept
<1>5. StatusInv(l)'
  BY <1>0, <1>4 DEF StatusInv, Kept
<1> QED
  BY <1>1, <1>2, <1>3, <1>5, RunFrame

\* The script has the status of its game: it takes it and goes on.
LEMMA StatusTaken ==
  ASSUME TypeOK, RunInv, NEW l \in Launchers, Elsewhere(l),
         UNCHANGED <<pm, fds, lock, killed>>, sh[l].pc \in WithGame, sh[l].game_pid,
         sh'[l].pc \in WithGame \cup {"end"},
         sh'[l].finished = sh[l].finished, sh'[l].aborting = sh[l].aborting,
         sh'[l].game_pid = sh[l].game_pid, sh'[l].trap = sh[l].trap,
         sh'[l].shutdown = sh[l].shutdown, sh'[l].count = sh[l].count,
         child'[l].state = "reaped", sh'[l].status = child'[l].code
  PROVE  RunInv'
<1>0. FinishInv(l) /\ HoldInv(l) /\ StatusInv(l)
  BY DEF RunInv
<1>2. FinishInv(l)'
  BY <1>0 DEF FinishInv, WithGame
<1>3. HoldInv(l)'
  BY <1>0 DEF HoldInv, Running, Holding, WithGame
<1>4. Collected(l)'
  BY DEF Collected
<1>5. StatusInv(l)'
  BY <1>0, <1>4 DEF StatusInv, WithGame
<1> QED
  BY <1>2, <1>3, <1>5, RunFrame

\* What a request to shut down writes into the variables of the script.
LEMMA ShutdownRecord ==
  ASSUME NEW r \in ShellRecord, NEW s,
         s = [r EXCEPT !.due = FALSE, !.shutdown = TRUE, !.count = r.count + 1]
  PROVE  /\ s \in ShellRecord
         /\ s.finished = r.finished /\ s.aborting = r.aborting
         /\ s.game_pid = r.game_pid /\ s.trap = r.trap
         /\ s.budget = r.budget /\ s.shutdown /\ s.count > 0
         /\ s.pc = r.pc /\ s.status = r.status
<1> DEFINE n == r.count + 1
<1>1. n \in Nat /\ n > 0
  BY DEF ShellRecord
<1> HIDE DEF n
<1>2. s = [r EXCEPT !.due = FALSE, !.shutdown = TRUE, !.count = n]
  BY DEF n
<1>3. s \in ShellRecord
  <2>1. [r EXCEPT !.due = FALSE, !.shutdown = TRUE, !.count = n] \in ShellRecord
    BY <1>1, ShellUpdates
  <2> QED
    BY <1>2, <2>1
<1>4. /\ s.finished = r.finished /\ s.aborting = r.aborting
      /\ s.game_pid = r.game_pid /\ s.trap = r.trap
      /\ s.budget = r.budget /\ s.shutdown /\ s.count = n
      /\ s.pc = r.pc /\ s.status = r.status
  BY <1>2 DEF ShellRecord
<1>5. s.count > 0
  BY <1>1, <1>4
<1> QED
  BY <1>3, <1>4, <1>5

\* Every step of a launcher, a tool, a game and the front end keeps the invariant.
LEMMA RunStep ==
  TypeOK /\ LockInv /\ SignalInv /\ RunInv /\ [Next]_vars => RunInv'
<1> SUFFICES ASSUME TypeOK, LockInv, SignalInv, RunInv, [Next]_vars
             PROVE  RunInv'
  OBVIOUS
<1>0. /\ TypeOK /\ LockInv /\ SignalInv /\ RunInv
      /\ sh \in [Launchers -> ShellRecord] /\ child \in [Launchers -> GameRecord]
      /\ \A l \in Launchers : sh[l] \in ShellRecord /\ child[l] \in GameRecord
  BY DEF TypeOK
<1>1. ASSUME NEW l \in Launchers, PmDone(l) PROVE RunInv'
  <2>1. /\ sh' = [sh EXCEPT ![l].pc = "exit"]
        /\ pm' = [pm EXCEPT ![l].state = "done"]
        /\ UNCHANGED <<child, tool, fds, lock, killed>> /\ sh[l].pc = "pm"
    BY <1>1 DEF PmDone, At, Budgets
  <2>2. FinishInv(l) /\ HoldInv(l) /\ StatusInv(l)
    BY <1>0 DEF RunInv
  <2>3. Kept(l) /\ Elsewhere(l) /\ sh'[l].pc = "exit" /\ sh'[l].trap = sh[l].trap
    BY <1>0, <2>1 DEF Kept, Elsewhere, ShellRecord
  <2>4. pm'[l].calls = pm[l].calls /\ pm'[l].state = "done"
    BY <1>0, <2>1 DEF TypeOK, PmRecord
  <2>5. FinishInv(l)'
    BY <2>1, <2>2, <2>3, <2>4 DEF FinishInv, Kept
  <2>6. HoldInv(l)'
    BY <2>1, <2>2, <2>3 DEF HoldInv, Running, Holding, Owning, WithGame
  <2>7. Collected(l)' <=> Collected(l)
    BY <2>1, <2>3 DEF Collected, Kept
  <2>8. StatusInv(l)'
    BY <2>1, <2>2, <2>3, <2>7 DEF StatusInv, Kept, WithGame
  <2> QED
    BY <1>0, <2>3, <2>5, <2>6, <2>8, RunFrame
<1>2. ASSUME NEW l \in Launchers, Leave(l) PROVE RunInv'
  <2>1. /\ sh[l].pc = "exit" /\ ~sh[l].due
        /\ UNCHANGED <<child, tool, killed>>
    BY <1>2 DEF Leave, At, Budgets
  <2>2. FinishInv(l) /\ HoldInv(l) /\ StatusInv(l)
    BY <1>0 DEF RunInv
  <2>3. CASE sh[l].finished
    <3>1. sh' = [sh EXCEPT ![l].pc = "gone"] /\ Closed(l, "shell") /\ pm' = pm
      BY <1>2, <2>3 DEF Leave
    <3>2. /\ Kept(l) /\ sh'[l].pc = "gone" /\ sh'[l].trap = sh[l].trap
          /\ sh'[l].due = sh[l].due
          /\ \A k \in Launchers \ {l} : sh'[k] = sh[k]
      BY <1>0, <3>1 DEF Kept, ShellRecord
    <3>3. Elsewhere(l)
      BY <1>0, <2>1, <3>1, <3>2 DEF Elsewhere, Closed, TypeOK
    <3>4. FinishInv(l)'
      BY <2>1, <2>2, <2>3, <3>1, <3>2 DEF FinishInv, Kept
    <3>5. HoldInv(l)'
      BY <2>1, <2>2, <3>2 DEF HoldInv, Running, Holding, Owning, WithGame
    <3>6. Collected(l)' <=> Collected(l)
      BY <2>1, <3>2 DEF Collected, Kept
    <3>7. StatusInv(l)'
      BY <2>1, <2>2, <3>2, <3>6 DEF StatusInv, Kept, WithGame
    <3> QED
      BY <1>0, <3>3, <3>4, <3>5, <3>7, RunFrame
  <2>4. CASE ~sh[l].finished
    <3>1. FinishAndExit(l, sh[l].status) /\ UNCHANGED <<fds, lock>>
      BY <1>2, <2>4 DEF Leave
    <3>2. /\ sh[l].status \in Codes \cup {"failed"}
          /\ l \notin killed /\ ~Running(l)
          /\ sh[l].game_pid => child[l].state = "reaped" /\ sh[l].status = child[l].code
      BY <1>0, <2>1, <2>2 DEF ShellRecord, HoldInv, StatusInv, Collected, WithGame
    <3> QED
      BY <1>0, <2>1, <3>1, <3>2, FinishKeeps
  <2> QED
    BY <2>3, <2>4
<1>3. ASSUME NEW l \in Launchers, AbortTrap(l) PROVE RunInv'
  <2>1. /\ sh[l].due /\ sh[l].trap = "abort"
        /\ UNCHANGED <<child, tool, fds, lock, killed>>
    BY <1>3 DEF AbortTrap, Budgets
  <2>2. FinishInv(l) /\ HoldInv(l) /\ StatusInv(l)
    BY <1>0 DEF RunInv
  <2>3. sh[l].pc # "gone" /\ ~sh[l].game_pid /\ sh[l].pc \notin WithGame
    BY <2>1, <2>2 DEF FinishInv, StatusInv
  <2>4. ~Running(l) /\ l \notin killed
    BY <2>2, <2>3 DEF HoldInv
  <2>5. CASE sh[l].aborting
    <3>1. sh' = [sh EXCEPT ![l].due = FALSE] /\ pm' = pm
      BY <1>3, <2>5 DEF AbortTrap
    <3>2. Kept(l) /\ Elsewhere(l) /\ sh'[l].pc = sh[l].pc /\ sh'[l].trap = sh[l].trap
      BY <1>0, <2>1, <3>1 DEF Kept, Elsewhere, ShellRecord
    <3>3. /\ sh'[l].pc = "armed" => sh'[l].trap # "abort"
          /\ sh'[l].pc \in Holding => lock' = l /\ "shell" \in fds'[l]
      BY <2>1, <2>2, <3>2 DEF FinishInv, HoldInv
    <3> QED
      BY <1>0, <2>1, <2>3, <3>1, <3>2, <3>3, GoesOn
  <2>6. CASE ~sh[l].aborting /\ sh[l].finished
    <3>1. /\ sh' = [sh EXCEPT ![l].due = FALSE, ![l].aborting = TRUE,
                              ![l].pc = "exit", ![l].status = Interrupted]
          /\ pm' = [pm EXCEPT ![l].state = IF @ = "running" THEN "cut" ELSE @]
      BY <1>3, <2>6 DEF AbortTrap
    <3>2. /\ sh'[l].pc = "exit" /\ sh'[l].aborting /\ sh'[l].finished
          /\ ~sh'[l].game_pid /\ sh'[l].shutdown = sh[l].shutdown
          /\ sh'[l].count = sh[l].count
          /\ \A k \in Launchers \ {l} : sh'[k] = sh[k]
      BY <1>0, <2>3, <2>6, <3>1 DEF ShellRecord
    <3>3. pm'[l].calls = pm[l].calls /\ \A k \in Launchers \ {l} : pm'[k] = pm[k]
      BY <1>0, <3>1 DEF TypeOK, PmRecord
    <3>4. Elsewhere(l)
      BY <2>1, <3>2, <3>3 DEF Elsewhere
    <3>5. FinishInv(l)'
      BY <2>2, <2>6, <3>2, <3>3 DEF FinishInv
    <3>6. HoldInv(l)'
      BY <2>1, <2>4, <3>2 DEF HoldInv, Running, Holding, Owning, WithGame
    <3>7. StatusInv(l)'
      BY <2>2, <3>2 DEF StatusInv, WithGame
    <3> QED
      BY <1>0, <3>4, <3>5, <3>6, <3>7, RunFrame
  <2>7. CASE ~sh[l].aborting /\ ~sh[l].finished
    <3>1. /\ sh' = [sh EXCEPT ![l].due = FALSE, ![l].aborting = TRUE,
                              ![l].finished = TRUE,
                              ![l].pc = "pm", ![l].status = Interrupted]
          /\ pm' = [pm EXCEPT ![l] = [calls |-> @.calls + 1, state |-> "running"]]
      BY <1>3, <2>7 DEF AbortTrap, PmStart
    <3>2. /\ sh'[l].pc = "pm" /\ sh'[l].aborting /\ sh'[l].finished
          /\ ~sh'[l].game_pid /\ sh'[l].shutdown = sh[l].shutdown
          /\ sh'[l].count = sh[l].count
          /\ \A k \in Launchers \ {l} : sh'[k] = sh[k]
      BY <1>0, <2>3, <3>1 DEF ShellRecord
    <3>3. pm'[l].calls = pm[l].calls + 1 /\ \A k \in Launchers \ {l} : pm'[k] = pm[k]
      BY <1>0, <3>1 DEF TypeOK, PmRecord
    <3>4. Elsewhere(l)
      BY <2>1, <3>2, <3>3 DEF Elsewhere
    <3>5. FinishInv(l)'
      BY <2>2, <2>7, <3>2, <3>3 DEF FinishInv
    <3>6. HoldInv(l)'
      BY <2>1, <2>4, <3>2 DEF HoldInv, Running, Holding, Owning, WithGame
    <3>7. StatusInv(l)'
      BY <2>2, <3>2 DEF StatusInv, WithGame
    <3> QED
      BY <1>0, <3>4, <3>5, <3>6, <3>7, RunFrame
  <2> QED
    BY <2>5, <2>6, <2>7
<1>4. ASSUME NEW l \in Launchers, Prepare(l) PROVE RunInv'
  <2>1. /\ sh' = [sh EXCEPT ![l].pc = "lock"]
        /\ UNCHANGED <<child, tool, lock, pm, killed>> /\ fds' = [fds EXCEPT ![l] = {"shell"}]
        /\ sh[l].pc = "start" 
    BY <1>4 DEF Prepare, At, Budgets
  <2>2. FinishInv(l) /\ HoldInv(l) /\ StatusInv(l)
    BY <1>0 DEF RunInv
  <2>3. Kept(l) /\ \A k \in Launchers \ {l} : sh'[k] = sh[k]
    BY <1>0, <2>1 DEF Kept, ShellRecord
  <2>4. /\ sh'[l].pc = "lock" /\ sh'[l].trap = sh[l].trap
        /\ ~sh[l].aborting
    BY <1>0, <2>1, <2>2 DEF ShellRecord, FinishInv
  <2>5. sh'[l].pc \in Holding => lock' = l /\ "shell" \in fds'[l]
    BY <1>0, <2>1, <2>2, <2>4 DEF Holding, Owning, WithGame, HoldInv, LockInv, TypeOK
  <2>6. Elsewhere(l)
    BY <1>0, <2>1, <2>3, LauncherAssumption DEF Elsewhere, TypeOK
  <2> QED
    BY <1>0, <2>1, <2>3, <2>4, <2>5, <2>6, GoesOn DEF Early, Owning, WithGame
<1>5. ASSUME NEW l \in Launchers, PrepareFails(l) PROVE RunInv'
  <2>1. sh[l].pc = "start" /\ UNCHANGED <<child, tool, fds, lock, killed>>
    BY <1>5 DEF PrepareFails, At, Budgets, Refuse
  <2>2. CASE Refuse(l)
    BY <1>0, <2>1, <2>2, RefuseKeeps DEF BeforePid
  <2>3. CASE sh' = [sh EXCEPT ![l].pc = "exit", ![l].status = "failed"] /\ UNCHANGED pm
    <3>1. FinishInv(l) /\ HoldInv(l) /\ StatusInv(l)
      BY <1>0 DEF RunInv
    <3>2. ~sh[l].game_pid /\ ~Running(l)
      BY <1>0, <2>1, NoGameYet DEF BeforePid
    <3>3. /\ sh'[l].pc = "exit" /\ sh'[l].finished = sh[l].finished
          /\ sh'[l].aborting = sh[l].aborting /\ ~sh'[l].game_pid
          /\ sh'[l].shutdown = sh[l].shutdown /\ sh'[l].count = sh[l].count
          /\ \A k \in Launchers \ {l} : sh'[k] = sh[k]
      BY <1>0, <2>3, <3>2 DEF ShellRecord
    <3>4. Elsewhere(l)
      BY <2>1, <2>3, <3>3 DEF Elsewhere
    <3>5. FinishInv(l)'
      BY <2>1, <2>3, <3>1, <3>3 DEF FinishInv
    <3>6. HoldInv(l)'
      BY <2>1, <3>1, <3>2, <3>3 DEF HoldInv, Running, Holding, Owning, WithGame
    <3>7. StatusInv(l)'
      BY <3>1, <3>3 DEF StatusInv, WithGame
    <3> QED
      BY <1>0, <3>4, <3>5, <3>6, <3>7, RunFrame
  <2> QED
    BY <1>5, <2>2, <2>3 DEF PrepareFails
<1>6. ASSUME NEW l \in Launchers, TakeLock(l) PROVE RunInv'
  <2>1. /\ sh' = [sh EXCEPT ![l].pc = "dialog"]
        /\ UNCHANGED <<child, tool, fds, pm, killed>> /\ lock = NoOne /\ lock' = l
        /\ sh[l].pc = "lock" 
    BY <1>6 DEF TakeLock, At, Budgets
  <2>2. FinishInv(l) /\ HoldInv(l) /\ StatusInv(l)
    BY <1>0 DEF RunInv
  <2>3. Kept(l) /\ \A k \in Launchers \ {l} : sh'[k] = sh[k]
    BY <1>0, <2>1 DEF Kept, ShellRecord
  <2>4. /\ sh'[l].pc = "dialog" /\ sh'[l].trap = sh[l].trap
        /\ ~sh[l].aborting
    BY <1>0, <2>1, <2>2 DEF ShellRecord, FinishInv
  <2>5. sh'[l].pc \in Holding => lock' = l /\ "shell" \in fds'[l]
    BY <1>0, <2>1, <2>2, <2>4 DEF Holding, Owning, WithGame, HoldInv, LockInv, TypeOK
  <2>6. Elsewhere(l)
    BY <1>0, <2>1, <2>3, LauncherAssumption DEF Elsewhere, TypeOK
  <2> QED
    BY <1>0, <2>1, <2>3, <2>4, <2>5, <2>6, GoesOn DEF Early, Owning, WithGame
<1>7. ASSUME NEW l \in Launchers, LockBusy(l) PROVE RunInv'
  <2>1. Refuse(l) /\ sh[l].pc = "lock"
    BY <1>7 DEF LockBusy, At
  <2> QED
    BY <1>0, <2>1, RefuseKeeps DEF BeforePid
<1>8. ASSUME NEW l \in Launchers, HandOff(l) PROVE RunInv'
  <2>1. sh[l].pc = "dialog"
    BY <1>8 DEF HandOff, At
  <2>2. CASE Refuse(l)
    BY <1>0, <2>1, <2>2, RefuseKeeps DEF BeforePid
  <2>3. CASE Proceed(l, "extract")
    <3>1. /\ sh' = [sh EXCEPT ![l].pc = "extract"]
          /\ UNCHANGED <<child, tool, fds, lock, pm, killed>>
      BY <2>3 DEF Proceed, Budgets
    <3>2. FinishInv(l) /\ HoldInv(l)
      BY <1>0 DEF RunInv
    <3>3. Kept(l) /\ Elsewhere(l) /\ sh'[l].pc = "extract" /\ sh'[l].trap = sh[l].trap
      BY <1>0, <3>1 DEF Kept, Elsewhere, ShellRecord
    <3>4. ~sh[l].aborting /\ lock' = l /\ "shell" \in fds'[l]
      BY <2>1, <3>1, <3>2 DEF FinishInv, HoldInv, Holding, Owning
    <3> QED
      BY <1>0, <2>1, <3>1, <3>3, <3>4, GoesOn DEF Early, Owning, WithGame
  <2> QED
    BY <1>8, <2>2, <2>3 DEF HandOff
<1>9. ASSUME NEW l \in Launchers, StartTool(l) PROVE RunInv'
  <2>1. /\ sh' = [sh EXCEPT ![l].pc = IF @ = "extract" THEN "extracting" ELSE "splashing"]
        /\ UNCHANGED <<child, lock, pm, killed>> /\ fds' = [fds EXCEPT ![l] = @ \cup {"tool"}]
        /\ sh[l].pc \in {"extract", "splash"} 
    BY <1>9 DEF StartTool, At, Budgets
  <2>2. FinishInv(l) /\ HoldInv(l) /\ StatusInv(l)
    BY <1>0 DEF RunInv
  <2>3. Kept(l) /\ \A k \in Launchers \ {l} : sh'[k] = sh[k]
    BY <1>0, <2>1 DEF Kept, ShellRecord
  <2>4. /\ sh'[l].pc \in {"extracting", "splashing"} /\ sh'[l].trap = sh[l].trap
        /\ lock = l /\ "shell" \in fds'[l] /\ ~sh[l].aborting
    BY <1>0, <2>1, <2>2 DEF ShellRecord, LockInv, Owning, TypeOK, FinishInv
  <2>5. sh'[l].pc \in Holding => lock' = l /\ "shell" \in fds'[l]
    BY <1>0, <2>1, <2>2, <2>4 DEF Holding, Owning, WithGame, HoldInv, LockInv, TypeOK
  <2>6. Elsewhere(l)
    BY <1>0, <2>1, <2>3, LauncherAssumption DEF Elsewhere, TypeOK
  <2> QED
    BY <1>0, <2>1, <2>3, <2>4, <2>5, <2>6, GoesOn DEF Early, Owning, WithGame
<1>10. ASSUME NEW l \in Launchers, Gate(l) PROVE RunInv'
  <2>1. sh[l].pc = "gate"
    BY <1>10 DEF Gate, At
  <2>2. CASE Refuse(l)
    BY <1>0, <2>1, <2>2, RefuseKeeps DEF BeforePid
  <2>3. CASE Proceed(l, "splash")
    <3>1. /\ sh' = [sh EXCEPT ![l].pc = "splash"]
          /\ UNCHANGED <<child, tool, fds, lock, pm, killed>>
      BY <2>3 DEF Proceed, Budgets
    <3>2. FinishInv(l) /\ HoldInv(l)
      BY <1>0 DEF RunInv
    <3>3. Kept(l) /\ Elsewhere(l) /\ sh'[l].pc = "splash" /\ sh'[l].trap = sh[l].trap
      BY <1>0, <3>1 DEF Kept, Elsewhere, ShellRecord
    <3>4. ~sh[l].aborting /\ lock' = l /\ "shell" \in fds'[l]
      BY <2>1, <3>1, <3>2 DEF FinishInv, HoldInv, Holding, Owning
    <3> QED
      BY <1>0, <2>1, <3>1, <3>3, <3>4, GoesOn DEF Early, Owning, WithGame
  <2> QED
    BY <1>10, <2>2, <2>3 DEF Gate
<1>11. ASSUME NEW l \in Launchers, ArmTraps(l) PROVE RunInv'
  <2>1. /\ sh' = [sh EXCEPT ![l].pc = "armed", ![l].trap = "forward"]
        /\ UNCHANGED <<child, tool, fds, lock, pm, killed>>
        /\ sh[l].pc = "adapter" 
    BY <1>11 DEF ArmTraps, At, Budgets
  <2>2. FinishInv(l) /\ HoldInv(l) /\ StatusInv(l)
    BY <1>0 DEF RunInv
  <2>3. Kept(l) /\ \A k \in Launchers \ {l} : sh'[k] = sh[k]
    BY <1>0, <2>1 DEF Kept, ShellRecord
  <2>4. /\ sh'[l].pc = "armed" /\ sh'[l].trap = "forward"
        /\ ~sh[l].aborting
    BY <1>0, <2>1, <2>2 DEF ShellRecord, FinishInv
  <2>5. sh'[l].pc \in Holding => lock' = l /\ "shell" \in fds'[l]
    BY <1>0, <2>1, <2>2, <2>4 DEF Holding, Owning, WithGame, HoldInv, LockInv, TypeOK
  <2>6. Elsewhere(l)
    BY <1>0, <2>1, <2>3, LauncherAssumption DEF Elsewhere, TypeOK
  <2> QED
    BY <1>0, <2>1, <2>3, <2>4, <2>5, <2>6, GoesOn DEF Early, Owning, WithGame
<1>12. ASSUME NEW l \in Launchers, Fork(l) PROVE RunInv'
  <2>1. /\ sh' = [sh EXCEPT ![l].pc = "forked"]
        /\ child' = [child EXCEPT ![l].state = "running", ![l].pid = "game"]
        /\ UNCHANGED <<tool, fds, lock, pm, killed>> /\ sh[l].pc = "armed"
    BY <1>12 DEF Fork, At, Budgets
  <2>2. FinishInv(l) /\ HoldInv(l) /\ StatusInv(l)
    BY <1>0 DEF RunInv
  <2>3. Kept(l) /\ Elsewhere(l) /\ sh'[l].pc = "forked" /\ sh'[l].trap = sh[l].trap
    BY <1>0, <2>1 DEF Kept, Elsewhere, ShellRecord
  <2>4. ~sh[l].game_pid
    BY <1>0, <2>1 DEF SignalInv, BeforePid
  <2>5. FinishInv(l)'
    BY <2>1, <2>2, <2>3 DEF FinishInv, Kept
  <2>6. HoldInv(l)'
    BY <2>1, <2>2, <2>3 DEF HoldInv, Holding, WithGame
  <2>7. StatusInv(l)'
    BY <2>2, <2>3, <2>4 DEF StatusInv, Kept, WithGame
  <2> QED
    BY <1>0, <2>3, <2>5, <2>6, <2>7, RunFrame
<1>13. ASSUME NEW l \in Launchers, KnowPid(l) PROVE RunInv'
  <2>1. /\ sh' = [sh EXCEPT ![l].pc = "launched", ![l].game_pid = TRUE]
        /\ UNCHANGED <<child, tool, fds, lock, pm, killed>> /\ sh[l].pc = "forked"
    BY <1>13 DEF KnowPid, At, Budgets
  <2>2. FinishInv(l) /\ HoldInv(l) /\ StatusInv(l)
    BY <1>0 DEF RunInv
  <2>3. /\ sh'[l].pc = "launched" /\ sh'[l].game_pid /\ sh'[l].trap = sh[l].trap
        /\ sh'[l].finished = sh[l].finished /\ sh'[l].aborting = sh[l].aborting
        /\ sh'[l].shutdown = sh[l].shutdown /\ sh'[l].count = sh[l].count
        /\ Elsewhere(l)
    BY <1>0, <2>1 DEF Elsewhere, ShellRecord
  <2>4. FinishInv(l)'
    BY <2>1, <2>2, <2>3 DEF FinishInv
  <2>5. HoldInv(l)'
    BY <2>1, <2>2, <2>3 DEF HoldInv, Running, Holding, WithGame
  <2>6. StatusInv(l)'
    BY <2>2, <2>3 DEF StatusInv, WithGame
  <2> QED
    BY <1>0, <2>3, <2>4, <2>5, <2>6, RunFrame
<1>14. ASSUME NEW l \in Launchers, CaptureStart(l) PROVE RunInv'
  <2>1. /\ sh' = [sh EXCEPT ![l].pc = "captured", ![l].starttime = child[l].pid]
        /\ UNCHANGED <<child, tool, fds, lock, pm, killed>>
        /\ sh[l].pc = "launched" 
    BY <1>14 DEF CaptureStart, At, Budgets
  <2>2. FinishInv(l) /\ HoldInv(l) /\ StatusInv(l)
    BY <1>0 DEF RunInv
  <2>3. Kept(l) /\ \A k \in Launchers \ {l} : sh'[k] = sh[k]
    BY <1>0, <2>1 DEF Kept, ShellRecord
  <2>4. /\ sh'[l].pc = "captured" /\ sh'[l].trap = sh[l].trap
        /\ ~sh[l].aborting
    BY <1>0, <2>1, <2>2 DEF ShellRecord, FinishInv
  <2>5. sh'[l].pc \in Holding => lock' = l /\ "shell" \in fds'[l]
    BY <1>0, <2>1, <2>2, <2>4 DEF Holding, Owning, WithGame, HoldInv, LockInv, TypeOK
  <2>6. Elsewhere(l)
    BY <1>0, <2>1, <2>3, LauncherAssumption DEF Elsewhere, TypeOK
  <2>7. sh[l].pc = "launched" => sh[l].game_pid
    BY <2>2 DEF StatusInv, WithGame
  <2> QED
    BY <1>0, <2>1, <2>3, <2>4, <2>5, <2>6, <2>7, GoesOn DEF Early, Owning, WithGame
<1>15. ASSUME NEW l \in Launchers, ForwardTrap(l) PROVE RunInv'
  <2> DEFINE s == [sh[l] EXCEPT !.due = FALSE, !.shutdown = TRUE, !.count = sh[l].count + 1]
  <2>1. SignalChild(l, s) /\ UNCHANGED <<child, pm, fds, lock, killed>> /\ sh[l].due
    BY <1>15 DEF ForwardTrap, RequestShutdown, Budgets
  <2>2. sh[l].pc # "gone"
    BY <1>0, <2>1 DEF RunInv, FinishInv
  <2>3. /\ s \in ShellRecord
        /\ s.finished = sh[l].finished /\ s.aborting = sh[l].aborting
        /\ s.game_pid = sh[l].game_pid /\ s.trap = sh[l].trap
        /\ s.budget = sh[l].budget /\ s.shutdown /\ s.count > 0
        /\ s.pc = sh[l].pc /\ s.status = sh[l].status
    BY <1>0, ShutdownRecord
  <2> HIDE DEF s
  <2> QED
    BY <1>0, <2>1, <2>2, <2>3, SignalKeepsRun
<1>16. ASSUME NEW l \in Launchers, Resend(l) PROVE RunInv'
  <2> DEFINE s == [sh[l] EXCEPT !.pc = "wait"]
  <2>1. UNCHANGED <<child, tool, pm, fds, lock, killed>> /\ sh[l].pc = "captured"
    BY <1>16 DEF Resend, At, Budgets
  <2>2. FinishInv(l) /\ HoldInv(l) /\ StatusInv(l)
    BY <1>0 DEF RunInv
  <2>3. sh[l].game_pid /\ (sh[l].shutdown => sh[l].count > 0)
    BY <2>1, <2>2 DEF StatusInv, WithGame
  <2>4. CASE SignalChild(l, s)
    <3>1. /\ s \in ShellRecord
          /\ s.finished = sh[l].finished /\ s.aborting = sh[l].aborting
          /\ s.game_pid = sh[l].game_pid /\ s.trap = sh[l].trap
          /\ s.budget = sh[l].budget /\ s.shutdown = sh[l].shutdown
          /\ s.count = sh[l].count /\ s.pc = "wait"
      BY <1>0 DEF ShellRecord, Labels
    <3> HIDE DEF s
    <3>2. sh[l].pc \in WithGame /\ sh[l].pc # "gone"
      BY <2>1 DEF WithGame
    <3> QED
      BY <1>0, <2>1, <2>3, <2>4, <3>1, <3>2, SignalKeepsRun
  <2>5. CASE sh' = [sh EXCEPT ![l].pc = "wait"]
    <3>1. Kept(l) /\ Elsewhere(l) /\ sh'[l].pc = "wait" /\ sh'[l].trap = sh[l].trap
      BY <1>0, <2>1, <2>5 DEF Kept, Elsewhere, ShellRecord
    <3>2. lock' = l /\ "shell" \in fds'[l]
      BY <2>1, <2>2 DEF HoldInv, Holding, WithGame
    <3> QED
      BY <1>0, <2>1, <2>3, <2>5, <3>1, <3>2, GoesOn DEF WithGame
  <2> QED
    BY <1>16, <2>4, <2>5 DEF Resend
<1>17. ASSUME NEW l \in Launchers, WaitReturns(l) PROVE RunInv'
  <2>1. /\ sh' = [sh EXCEPT ![l].pc = "waited", ![l].status = child[l].code]
        /\ Collect(l) /\ UNCHANGED <<pm, fds, lock, killed>> /\ sh[l].pc = "wait"
    BY <1>17 DEF WaitReturns, Budgets
  <2>2. FinishInv(l) /\ HoldInv(l) /\ StatusInv(l)
    BY <1>0 DEF RunInv
  <2>3. /\ sh'[l].pc = "waited" /\ sh'[l].status = child[l].code
        /\ sh'[l].game_pid = sh[l].game_pid /\ sh'[l].trap = sh[l].trap
        /\ sh'[l].finished = sh[l].finished /\ sh'[l].aborting = sh[l].aborting
        /\ sh'[l].shutdown = sh[l].shutdown /\ sh'[l].count = sh[l].count
        /\ \A k \in Launchers \ {l} : sh'[k] = sh[k]
    BY <1>0, <2>1 DEF ShellRecord
  <2>4. /\ child'[l].state = "reaped" /\ child'[l].code = child[l].code
        /\ \A k \in Launchers \ {l} : child'[k] = child[k]
    BY <1>0, <2>1 DEF Collect, GameRecord
  <2>5. Elsewhere(l)
    BY <2>1, <2>3, <2>4 DEF Elsewhere
  <2>6. sh[l].game_pid
    BY <2>1, <2>2 DEF StatusInv, WithGame
  <2> QED
    BY <1>0, <2>1, <2>3, <2>4, <2>5, <2>6, StatusTaken DEF WithGame
<1>18. ASSUME NEW l \in Launchers, WaitInterrupted(l) PROVE RunInv'
  <2> DEFINE r == [sh[l] EXCEPT !.pc = "waited", !.status = Interrupted]
             s == [r EXCEPT !.due = FALSE, !.shutdown = TRUE, !.count = r.count + 1]
  <2>1. SignalChild(l, s) /\ UNCHANGED <<child, pm, fds, lock, killed>> /\ sh[l].pc = "wait"
    BY <1>18 DEF WaitInterrupted, RequestShutdown, Budgets
  <2>2. /\ r \in ShellRecord
        /\ r.finished = sh[l].finished /\ r.aborting = sh[l].aborting
        /\ r.game_pid = sh[l].game_pid /\ r.trap = sh[l].trap
        /\ r.budget = sh[l].budget /\ r.pc = "waited" /\ r.status = Interrupted
    <3>1. r \in ShellRecord
      BY <1>0, ShellUpdates DEF Labels, Codes
    <3> QED
      BY <1>0, <3>1 DEF ShellRecord
  <2> HIDE DEF r
  <2>3. /\ s \in ShellRecord
        /\ s.finished = r.finished /\ s.aborting = r.aborting
        /\ s.game_pid = r.game_pid /\ s.trap = r.trap
        /\ s.budget = r.budget /\ s.shutdown /\ s.count > 0
        /\ s.pc = r.pc /\ s.status = r.status
    BY <2>2, ShutdownRecord
  <2> HIDE DEF s
  <2> QED
    BY <1>0, <2>1, <2>2, <2>3, SignalKeepsRun
<1>19. ASSUME NEW l \in Launchers, NoShutdown(l) PROVE RunInv'
  <2>1. /\ sh' = [sh EXCEPT ![l].pc = "again"]
        /\ UNCHANGED <<child, pm, fds, lock, killed>> /\ sh[l].pc = "waited"
    BY <1>19 DEF NoShutdown, At, Proceed, Budgets
  <2>2. FinishInv(l) /\ HoldInv(l) /\ StatusInv(l)
    BY <1>0 DEF RunInv
  <2>3. Kept(l) /\ Elsewhere(l) /\ sh'[l].pc = "again" /\ sh'[l].trap = sh[l].trap
    BY <1>0, <2>1 DEF Kept, Elsewhere, ShellRecord
  <2>4. sh[l].game_pid /\ Collected(l)
    BY <1>0, <1>19, <2>1, <2>2 DEF NoShutdown, StatusInv, WithGame, ShellRecord
  <2> QED
    BY <1>0, <2>1, <2>3, <2>4, StatusTaken DEF WithGame, Kept, Collected
<1>20. ASSUME NEW l \in Launchers, EnterGrace(l) PROVE RunInv'
  <2>1. /\ sh' = [sh EXCEPT ![l].pc = "grace", ![l].trap = "ignore", ![l].ticks = Ticks]
        /\ UNCHANGED <<child, tool, fds, lock, pm, killed>>
        /\ sh[l].pc = "waited" 
    BY <1>20 DEF EnterGrace, At, Budgets
  <2>2. FinishInv(l) /\ HoldInv(l) /\ StatusInv(l)
    BY <1>0 DEF RunInv
  <2>3. Kept(l) /\ \A k \in Launchers \ {l} : sh'[k] = sh[k]
    BY <1>0, <2>1 DEF Kept, ShellRecord
  <2>4. /\ sh'[l].pc = "grace" /\ sh'[l].trap = "ignore"
        /\ ~sh[l].aborting
    BY <1>0, <2>1, <2>2 DEF ShellRecord, FinishInv
  <2>5. sh'[l].pc \in Holding => lock' = l /\ "shell" \in fds'[l]
    BY <1>0, <2>1, <2>2, <2>4 DEF Holding, Owning, WithGame, HoldInv, LockInv, TypeOK
  <2>6. Elsewhere(l)
    BY <1>0, <2>1, <2>3, LauncherAssumption DEF Elsewhere, TypeOK
  <2> QED
    BY <1>0, <2>1, <2>3, <2>4, <2>5, <2>6, GoesOn DEF Early, Owning, WithGame
<1>21. ASSUME NEW l \in Launchers, Tick(l) PROVE RunInv'
  <2>1. /\ sh' = [sh EXCEPT ![l].ticks = @ - 1]
        /\ UNCHANGED <<child, tool, fds, lock, pm, killed>>
        /\ sh[l].pc = "grace" 
    BY <1>21 DEF Tick, At, Budgets
  <2>2. FinishInv(l) /\ HoldInv(l) /\ StatusInv(l)
    BY <1>0 DEF RunInv
  <2>3. Kept(l) /\ \A k \in Launchers \ {l} : sh'[k] = sh[k]
    BY <1>0, <2>1 DEF Kept, ShellRecord
  <2>4. /\ sh'[l].pc = "grace" /\ sh'[l].trap = sh[l].trap
        /\ ~sh[l].aborting
    BY <1>0, <2>1, <2>2 DEF ShellRecord, FinishInv
  <2>5. sh'[l].pc \in Holding => lock' = l /\ "shell" \in fds'[l]
    BY <1>0, <2>1, <2>2, <2>4 DEF Holding, Owning, WithGame, HoldInv, LockInv, TypeOK
  <2>6. Elsewhere(l)
    BY <1>0, <2>1, <2>3, LauncherAssumption DEF Elsewhere, TypeOK
  <2> QED
    BY <1>0, <2>1, <2>3, <2>4, <2>5, <2>6, GoesOn DEF Early, Owning, WithGame
<1>22. ASSUME NEW l \in Launchers, GraceOver(l) PROVE RunInv'
  <2>1. /\ sh' = [sh EXCEPT ![l].pc = "kill"]
        /\ UNCHANGED <<child, tool, fds, lock, pm, killed>>
        /\ sh[l].pc = "grace" 
    BY <1>22 DEF GraceOver, At, Budgets, Proceed
  <2>2. FinishInv(l) /\ HoldInv(l) /\ StatusInv(l)
    BY <1>0 DEF RunInv
  <2>3. Kept(l) /\ \A k \in Launchers \ {l} : sh'[k] = sh[k]
    BY <1>0, <2>1 DEF Kept, ShellRecord
  <2>4. /\ sh'[l].pc = "kill" /\ sh'[l].trap = sh[l].trap
        /\ ~sh[l].aborting
    BY <1>0, <2>1, <2>2 DEF ShellRecord, FinishInv
  <2>5. sh'[l].pc \in Holding => lock' = l /\ "shell" \in fds'[l]
    BY <1>0, <2>1, <2>2, <2>4 DEF Holding, Owning, WithGame, HoldInv, LockInv, TypeOK
  <2>6. Elsewhere(l)
    BY <1>0, <2>1, <2>3, LauncherAssumption DEF Elsewhere, TypeOK
  <2> QED
    BY <1>0, <2>1, <2>3, <2>4, <2>5, <2>6, GoesOn DEF Early, Owning, WithGame
<1>23. ASSUME NEW l \in Launchers, Kill(l) PROVE RunInv'
  <2>1. /\ \E o : sh' = [sh EXCEPT ![l].pc = "rewait", ![l].budget = sh[l].count, ![l].aim = o]
        /\ UNCHANGED <<child, tool, pm, fds, lock, killed>> /\ sh[l].pc = "kill"
    BY <1>23 DEF Kill, At, Budgets
  <2>2. FinishInv(l) /\ HoldInv(l) /\ StatusInv(l)
    BY <1>0 DEF RunInv
  <2>3. /\ sh'[l].pc = "rewait" /\ sh'[l].budget = sh[l].count
        /\ sh'[l].game_pid = sh[l].game_pid /\ sh'[l].trap = sh[l].trap
        /\ sh'[l].finished = sh[l].finished /\ sh'[l].aborting = sh[l].aborting
        /\ sh'[l].shutdown = sh[l].shutdown /\ sh'[l].count = sh[l].count
        /\ sh'[l].status = sh[l].status /\ \A k \in Launchers \ {l} : sh'[k] = sh[k]
    BY <1>0, <2>1 DEF ShellRecord
  <2>4. Elsewhere(l) /\ (Collected(l) => Collected(l)')
    BY <2>1, <2>3 DEF Collected, Elsewhere
  <2>5. FinishInv(l)'
    BY <2>1, <2>2, <2>3 DEF FinishInv
  <2>6. HoldInv(l)'
    BY <2>1, <2>2, <2>3 DEF HoldInv, Running, Holding, WithGame
  <2>7. StatusInv(l)'
    BY <2>1, <2>2, <2>3, <2>4 DEF StatusInv, WithGame
  <2> QED
    BY <1>0, <2>4, <2>5, <2>6, <2>7, RunFrame
<1>24. ASSUME NEW l \in Launchers, Rewait(l) PROVE RunInv'
  <2>1. /\ sh' = [sh EXCEPT ![l].budget = @ - 1, ![l].status = child[l].code]
        /\ Collect(l) /\ UNCHANGED <<pm, fds, lock, killed>> /\ sh[l].pc = "rewait"
    BY <1>24 DEF Rewait, At, Budgets
  <2>2. FinishInv(l) /\ HoldInv(l) /\ StatusInv(l)
    BY <1>0 DEF RunInv
  <2>3. /\ sh'[l].pc = "rewait" /\ sh'[l].status = child[l].code
        /\ sh'[l].game_pid = sh[l].game_pid /\ sh'[l].trap = sh[l].trap
        /\ sh'[l].finished = sh[l].finished /\ sh'[l].aborting = sh[l].aborting
        /\ sh'[l].shutdown = sh[l].shutdown /\ sh'[l].count = sh[l].count
        /\ \A k \in Launchers \ {l} : sh'[k] = sh[k]
    BY <1>0, <2>1 DEF ShellRecord
  <2>4. /\ child'[l].state = "reaped" /\ child'[l].code = child[l].code
        /\ \A k \in Launchers \ {l} : child'[k] = child[k]
    BY <1>0, <2>1 DEF Collect, GameRecord
  <2>5. Elsewhere(l)
    BY <2>1, <2>3, <2>4 DEF Elsewhere
  <2>6. sh[l].game_pid
    BY <2>1, <2>2 DEF StatusInv, WithGame
  <2> QED
    BY <1>0, <2>1, <2>3, <2>4, <2>5, <2>6, StatusTaken DEF WithGame
<1>25. ASSUME NEW l \in Launchers, RewaitDone(l) PROVE RunInv'
  <2>1. /\ sh' = [sh EXCEPT ![l].pc = "end"]
        /\ UNCHANGED <<child, pm, fds, lock, killed>> /\ sh[l].pc = "rewait"
    BY <1>25 DEF RewaitDone, At, Proceed, Budgets
  <2>2. FinishInv(l) /\ HoldInv(l) /\ StatusInv(l)
    BY <1>0 DEF RunInv
  <2>3. Kept(l) /\ Elsewhere(l) /\ sh'[l].pc = "end" /\ sh'[l].trap = sh[l].trap
    BY <1>0, <2>1 DEF Kept, Elsewhere, ShellRecord
  <2>4. sh[l].game_pid /\ Collected(l)
    BY <1>0, <1>25, <2>1, <2>2 DEF RewaitDone, StatusInv, WithGame, ShellRecord
  <2> QED
    BY <1>0, <2>1, <2>3, <2>4, StatusTaken DEF WithGame, Kept, Collected
<1>26. ASSUME NEW l \in Launchers, EndOfGame(l) PROVE RunInv'
  <2>1. /\ FinishAndExit(l, sh[l].status)
        /\ UNCHANGED <<child, tool, fds, lock, killed>> /\ sh[l].pc = "end"
    BY <1>26 DEF EndOfGame, At, Budgets
  <2>2. FinishInv(l) /\ HoldInv(l) /\ StatusInv(l)
    BY <1>0 DEF RunInv
  <2>3. /\ sh[l].status \in Codes \cup {"failed"} /\ Collected(l)
    BY <1>0, <2>1, <2>2 DEF ShellRecord, StatusInv
  <2> QED
    BY <1>0, <2>1, <2>3, FinishKeeps DEF Collected, Running
<1>27. ASSUME NEW l \in Launchers, ToolEnds(l) PROVE RunInv'
  <2>1. /\ Closed(l, "tool") /\ UNCHANGED <<child, killed>>
        /\ \A k \in Launchers \ {l} : fds'[k] = fds[k] /\ (lock = k => lock' = k)
        /\ "shell" \in fds[l] => "shell" \in fds'[l] /\ lock' = lock
    BY <1>0, <1>27 DEF ToolEnds, Budgets, Closed, TypeOK
  <2>2. FinishInv(l) /\ HoldInv(l) /\ StatusInv(l)
    BY <1>0 DEF RunInv
  <2>3. CASE FinishAndExit(l, "failed") /\ sh[l].pc \in Foreground
    <3>1. ~sh[l].game_pid /\ ~Running(l) /\ sh[l].pc # "gone"
      BY <1>0, <2>3, NoGameYet DEF Foreground, BeforePid
    <3> QED
      BY <1>0, <2>1, <2>3, <3>1, FinishKeeps
  <2>4. CASE /\ sh' = [sh EXCEPT ![l].pc =
                         IF @ = "extracting" THEN "gate" ELSE "adapter"]
             /\ UNCHANGED pm /\ sh[l].pc \in Foreground
    <3>1. /\ Kept(l) /\ Elsewhere(l) /\ sh'[l].pc \in {"gate", "adapter"}
          /\ sh'[l].trap = sh[l].trap
      BY <1>0, <2>1, <2>4 DEF Kept, Elsewhere, ShellRecord
    <3>2. ~sh[l].aborting /\ lock' = l /\ "shell" \in fds'[l]
      BY <2>1, <2>2, <2>4 DEF FinishInv, HoldInv, Holding, Owning, Foreground
    <3> QED
      BY <1>0, <2>1, <2>4, <3>1, <3>2, GoesOn DEF Early, Owning, WithGame, Foreground
  <2>5. CASE UNCHANGED <<sh, pm>>
    BY <1>0, <2>1, <2>5, GameKeeps DEF Kept
  <2> QED
    BY <1>27, <2>3, <2>4, <2>5 DEF ToolEnds
<1>28. ASSUME NEW l \in Launchers, GameEnds(l) PROVE RunInv'
  <2>1. /\ UNCHANGED <<sh, tool, pm, killed>> /\ Closed(l, "game")
        /\ child[l].state = "running"
        /\ \E code : child' = [child EXCEPT ![l].state = "zombie", ![l].code = code]
    BY <1>28 DEF GameEnds, Budgets
  <2>2. /\ \A k \in Launchers \ {l} : fds'[k] = fds[k] /\ (lock = k => lock' = k)
        /\ "shell" \in fds[l] => "shell" \in fds'[l] /\ lock' = lock
    BY <1>0, <2>1 DEF Closed, TypeOK
  <2>3. \A k \in Launchers \ {l} : child'[k] = child[k]
    BY <1>0, <2>1
  <2>4. child'[l].state = "zombie"
    BY <1>0, <2>1 DEF GameRecord
  <2> QED
    BY <1>0, <2>1, <2>2, <2>3, <2>4, GameKeeps DEF Kept
<1>29. ASSUME NEW l \in Launchers, Reap(l) PROVE RunInv'
  <2>1. Collect(l) /\ UNCHANGED <<sh, tool, fds, lock, pm, killed>> /\ child[l].state = "zombie"
    BY <1>29 DEF Reap, Budgets
  <2>2. child'[l].state = "reaped" /\ \A k \in Launchers \ {l} : child'[k] = child[k]
    BY <1>0, <2>1 DEF Collect, GameRecord
  <2> QED
    BY <1>0, <2>1, <2>2, GameKeeps DEF Kept
<1>30. ASSUME NEW l \in Launchers, PidReused(l) PROVE RunInv'
  <2>1. /\ \E o : child' = [child EXCEPT ![l].pid = o]
        /\ UNCHANGED <<sh, tool, fds, lock, pm, killed>>
    BY <1>30 DEF PidReused, Budgets
  <2>2. /\ child'[l].state = child[l].state /\ child'[l].code = child[l].code
        /\ \A k \in Launchers \ {l} : child'[k] = child[k]
    BY <1>0, <2>1 DEF GameRecord
  <2> QED
    BY <1>0, <2>1, <2>2, GameKeeps DEF Kept
<1>31. ASSUME NEW l \in Launchers, Signal(l) PROVE RunInv'
  <2>1. /\ sh' = [sh EXCEPT ![l].due = TRUE]
        /\ UNCHANGED <<child, tool, fds, lock, pm, killed>>
        /\ sh[l].pc # "gone"
    BY <1>31 DEF Signal, At, Budgets
  <2>2. FinishInv(l) /\ HoldInv(l) /\ StatusInv(l)
    BY <1>0 DEF RunInv
  <2>3. Kept(l) /\ \A k \in Launchers \ {l} : sh'[k] = sh[k]
    BY <1>0, <2>1 DEF Kept, ShellRecord
  <2>4. /\ sh'[l].pc = sh[l].pc /\ sh'[l].trap = sh[l].trap
        /\ sh'[l].pc = "armed" => sh'[l].trap # "abort"
    BY <1>0, <2>1, <2>2 DEF ShellRecord, FinishInv
  <2>5. sh'[l].pc \in Holding => lock' = l /\ "shell" \in fds'[l]
    BY <1>0, <2>1, <2>2, <2>4 DEF Holding, Owning, WithGame, HoldInv, LockInv, TypeOK
  <2>6. Elsewhere(l)
    BY <1>0, <2>1, <2>3, LauncherAssumption DEF Elsewhere, TypeOK
  <2> QED
    BY <1>0, <2>1, <2>3, <2>4, <2>5, <2>6, GoesOn DEF Early, Owning, WithGame
<1>32. ASSUME NEW l \in Launchers, KillLauncher(l) PROVE RunInv'
  <2>1. /\ sh' = [sh EXCEPT ![l].pc = "gone", ![l].due = FALSE, ![l].aim = NoOne]
        /\ Closed(l, "shell") /\ UNCHANGED <<child, tool, pm>>
        /\ killed' = killed \cup {l}
    BY <1>32 DEF KillLauncher
  <2>2. FinishInv(l) /\ HoldInv(l) /\ StatusInv(l)
    BY <1>0 DEF RunInv
  <2>3. /\ Kept(l) /\ sh'[l].pc = "gone" /\ ~sh'[l].due /\ sh'[l].trap = sh[l].trap
        /\ \A k \in Launchers \ {l} : sh'[k] = sh[k]
    BY <1>0, <2>1 DEF Kept, ShellRecord
  <2>4. Elsewhere(l)
    BY <1>0, <2>1, <2>3 DEF Elsewhere, Closed, TypeOK
  <2>5. FinishInv(l)'
    BY <2>1, <2>2, <2>3 DEF FinishInv, Kept
  <2>6. HoldInv(l)'
    BY <2>1, <2>3 DEF HoldInv, Holding, Owning, WithGame
  <2>7. StatusInv(l)'
    BY <2>1, <2>2, <2>3 DEF StatusInv, Kept, WithGame
  <2> QED
    BY <1>0, <2>4, <2>5, <2>6, <2>7, RunFrame
<1>34. ASSUME NEW l \in Launchers, Strike(l) PROVE RunInv'
  <2>1. /\ sh' = [sh EXCEPT ![l].aim = NoOne] /\ UNCHANGED <<tool, fds, lock, pm, killed>>
        /\ \/ child' = child
           \/ child' = [child EXCEPT ![l].termed = TRUE]
           \/ /\ child[l].state = "running"
              /\ child' = [child EXCEPT ![l].state = "zombie", ![l].code = "killed"]
    BY <1>34 DEF Strike, Budgets
  <2>2. /\ Kept(l) /\ sh'[l].pc = sh[l].pc /\ sh'[l].trap = sh[l].trap
        /\ sh'[l].due = sh[l].due /\ \A k \in Launchers \ {l} : sh'[k] = sh[k]
    BY <1>0, <2>1 DEF Kept, ShellRecord
  <2>3. /\ \A k \in Launchers \ {l} : child'[k] = child[k]
        /\ child'[l].state = "running" => child[l].state = "running"
        /\ child[l].state = "reaped" =>
             child'[l].state = "reaped" /\ child'[l].code = child[l].code
    BY <1>0, <2>1 DEF GameRecord
  <2> QED
    BY <1>0, <2>1, <2>2, <2>3, GameKeeps
<1>35. ASSUME NEW l \in Launchers, WaitAgain(l) PROVE RunInv'
  <2>1. /\ sh' = [sh EXCEPT ![l].status = child[l].code]
        /\ UNCHANGED <<child, tool, fds, lock, pm, killed>> /\ sh[l].pc = "again"
    BY <1>35 DEF WaitAgain, At, Budgets
  <2>2. sh[l].game_pid /\ child[l].state = "reaped"
    BY <1>0, <2>1 DEF RunInv, StatusInv, Collected, WithGame
  <2>3. /\ sh'[l].pc = "again" /\ sh'[l].status = child[l].code
        /\ sh'[l].game_pid = sh[l].game_pid /\ sh'[l].trap = sh[l].trap
        /\ sh'[l].finished = sh[l].finished /\ sh'[l].aborting = sh[l].aborting
        /\ sh'[l].shutdown = sh[l].shutdown /\ sh'[l].count = sh[l].count
        /\ \A k \in Launchers \ {l} : sh'[k] = sh[k]
    BY <1>0, <2>1 DEF ShellRecord
  <2>4. Elsewhere(l)
    BY <2>1, <2>3 DEF Elsewhere
  <2> QED
    BY <1>0, <2>1, <2>2, <2>3, <2>4, StatusTaken DEF WithGame
<1>36. ASSUME NEW l \in Launchers, TruthKnown(l) PROVE RunInv'
  <2>1. /\ sh' = [sh EXCEPT ![l].pc = "end"]
        /\ UNCHANGED <<child, pm, fds, lock, killed>> /\ sh[l].pc = "again"
    BY <1>36 DEF TruthKnown, At, Proceed, Budgets
  <2>2. sh[l].game_pid /\ Collected(l)
    BY <1>0, <2>1 DEF RunInv, StatusInv, WithGame
  <2>3. Kept(l) /\ Elsewhere(l) /\ sh'[l].pc = "end" /\ sh'[l].trap = sh[l].trap
    BY <1>0, <2>1 DEF Kept, Elsewhere, ShellRecord
  <2> QED
    BY <1>0, <2>1, <2>2, <2>3, StatusTaken DEF WithGame, Kept, Collected
<1>33. CASE UNCHANGED vars
  BY <1>0, <1>33 DEF vars, RunInv, FinishInv, HoldInv, StatusInv, Collected, Running
<1> QED
  BY <1>1, <1>2, <1>3, <1>4, <1>5, <1>6, <1>7, <1>8, <1>9, <1>10, <1>11, <1>12, <1>13, <1>14, <1>15, <1>16, <1>17, <1>18, <1>19, <1>20, <1>21, <1>22, <1>23, <1>24, <1>25, <1>26, <1>27, <1>28, <1>29, <1>30, <1>31, <1>32, <1>33,
     <1>34, <1>35, <1>36
  DEF Next, Shell

-----------------------------------------------------------------------------

\* The invariant holds in every state of every run.
THEOREM RunCorrect == Spec => []RunInv
<1>1. Init => RunInv
  <2> SUFFICES ASSUME Init, NEW l \in Launchers
               PROVE  FinishInv(l) /\ HoldInv(l) /\ StatusInv(l)
    BY DEF RunInv
  <2>1. /\ sh[l].pc = "start" /\ ~sh[l].due /\ ~sh[l].finished /\ ~sh[l].aborting
        /\ ~sh[l].game_pid /\ ~sh[l].shutdown
        /\ child[l].state = "none" /\ pm[l].calls = 0 /\ pm[l].state = "idle"
        /\ killed = {}
    BY DEF Init
  <2> QED
    BY <2>1 DEF FinishInv, HoldInv, StatusInv, Running, Holding, Owning, WithGame
<1>2. TypeOK /\ LockInv /\ SignalInv /\ RunInv /\ [Next]_vars => RunInv'
  BY RunStep
<1> QED
  BY <1>1, <1>2, TypeCorrect, CoreCorrect, PTL DEF Spec

\* Two games run at once only if the launcher of one of them was killed: a
\* launcher that lives keeps the lock for as long as its game runs.
THEOREM OneGameAtATime == Spec => []OneGame
<1>1. RunInv => OneGame
  BY DEF RunInv, HoldInv, OneGame, Holding
<1> QED
  BY <1>1, RunCorrect, PTL

\* A launcher that leaves has called pm_finish once, whatever signals came when.
THEOREM HandedBackOnce == Spec => []FinishedOnce
<1>1. RunInv => FinishedOnce
  BY DEF RunInv, FinishInv, FinishedOnce
<1> QED
  BY <1>1, RunCorrect, PTL

\* A launcher that started a game leaves with the status of that game, however
\* often its waiting was interrupted.
THEOREM GamesStatusReported == Spec => []StatusIsGames
<1>1. RunInv => StatusIsGames
  BY DEF RunInv, StatusInv, Collected, StatusIsGames
<1> QED
  BY <1>1, RunCorrect, PTL
=============================================================================
