------------------------------- MODULE Launcher -------------------------------
(***************************************************************************)
(* Magic Rampage.sh: the instance lock, the owner-data phase, the game as  *)
(* a child process, the signals of the front end and the hand-over of the  *)
(* screen (pm_finish).                                                     *)
(*                                                                         *)
(* A step is one command of the script.  Bash runs a trap between two      *)
(* commands, after a foreground program has ended, and at once when it     *)
(* interrupts wait; so no command runs while a trap is due.  A launcher    *)
(* runs once; several launchers are several launches of the port.          *)
(***************************************************************************)
EXTENDS Naturals

CONSTANTS
  Launchers,   \* the launches of the port
  Ticks,       \* NXBOOTSTRAP_SHUTDOWN_TICKS, seconds before the game is killed
  MaxSignals,  \* bound: signals the front end sends
  Reuses,      \* bound: strangers that are given the pid of a game, 1 or 2
  MaxKills     \* bound: launchers that die without running their traps

NoOne == "none"

ASSUME LauncherAssumption ==
  /\ Ticks \in Nat
  /\ MaxSignals \in Nat
  /\ MaxKills \in Nat
  /\ Reuses \in {1, 2}
  /\ NoOne \notin Launchers

VARIABLES
  sh,       \* the variables of each launcher
  child,    \* the game that each launcher started, and who has its pid
  tool,     \* each launcher's extractor or splash is running
  fds,      \* the processes that hold the launcher's open lock file
  lock,     \* the launcher whose open file has the flock
  pm,       \* pm_finish of each launcher: calls and progress
  killed,   \* launchers that died without running their traps
  taken,    \* <<launcher, process>>: taken for the game when that was signalled
  signalsLeft, killsLeft

vars == <<sh, child, tool, fds, lock, pm, killed, taken, signalsLeft, killsLeft>>

\* bash reports an interrupted wait as 128+n; so does a game that such a
\* signal ended: INT, TERM and HUP are one value here.
Interrupted == "signal"

Init ==
  /\ sh = [l \in Launchers |->
            [pc |-> "start", trap |-> "abort", due |-> FALSE,
             finished |-> FALSE, aborting |-> FALSE, status |-> "ok",
             shutdown |-> FALSE, count |-> 0, term_sent |-> FALSE,
             game_pid |-> FALSE, starttime |-> NoOne, aim |-> NoOne,
             ticks |-> 0, budget |-> 0]]
  /\ child \in [Launchers ->
                  [state : {"none"}, code : {"ok"}, pid : {NoOne},
                   termed : {FALSE}, deaf : BOOLEAN]]
  /\ tool = [l \in Launchers |-> FALSE]
  /\ fds = [l \in Launchers |-> {}]
  /\ lock = NoOne
  /\ pm = [l \in Launchers |-> [calls |-> 0, state |-> "idle"]]
  /\ killed = {}
  /\ taken = {}
  /\ signalsLeft = MaxSignals
  /\ killsLeft = MaxKills

\* No trap is due, and no kill is to follow a check that has just succeeded.
At(l, label) == sh[l].pc = label /\ ~sh[l].due /\ sh[l].aim = NoOne
Budgets == UNCHANGED <<signalsLeft, killsLeft, killed>>

\* The flock goes with the last process that holds the open file.
Closed(l, who) ==
  /\ fds' = [fds EXCEPT ![l] = @ \ {who}]
  /\ lock' = IF lock = l /\ fds[l] \subseteq {who} THEN NoOne ELSE lock

-----------------------------------------------------------------------------
(* nxbootstrap_finish, exit and the early traps *)

PmStart(l) ==
  pm' = [pm EXCEPT ![l] = [calls |-> @.calls + 1, state |-> "running"]]

\* Mutant: nxbootstrap_finish has no NXBOOTSTRAP_FINISHED.
FinishAndExitAgain(l, status) ==
  /\ sh' = [sh EXCEPT ![l].pc = "pm", ![l].status = status]
  /\ PmStart(l)

\* nxbootstrap_finish; exit status
FinishAndExit(l, status) ==
  IF sh[l].finished
    THEN /\ sh' = [sh EXCEPT ![l].pc = "exit", ![l].status = status]
         /\ UNCHANGED pm
    ELSE /\ sh' = [sh EXCEPT ![l].pc = "pm", ![l].finished = TRUE,
                             ![l].status = status]
         /\ PmStart(l)

PmDone(l) ==
  /\ At(l, "pm")
  /\ pm' = [pm EXCEPT ![l].state = "done"]
  /\ sh' = [sh EXCEPT ![l].pc = "exit"]
  /\ UNCHANGED <<child, tool, fds, lock, taken>>
  /\ Budgets

\* The EXIT trap, nxbootstrap_on_exit.
Leave(l) ==
  /\ At(l, "exit")
  /\ IF sh[l].finished
       THEN /\ sh' = [sh EXCEPT ![l].pc = "gone"]
            /\ Closed(l, "shell")
            /\ UNCHANGED pm
       ELSE /\ FinishAndExit(l, sh[l].status)
            /\ UNCHANGED <<fds, lock>>
  /\ UNCHANGED <<child, tool, taken>>
  /\ Budgets

Foreground == {"extracting", "splashing"}

\* nxbootstrap_abort_before_game leaves the script from where it is, from
\* within pm_finish too.
AbortTrap(l) ==
  /\ sh[l].due /\ sh[l].trap = "abort"
  /\ sh[l].pc \notin Foreground
  /\ IF sh[l].aborting
       THEN /\ sh' = [sh EXCEPT ![l].due = FALSE]
            /\ UNCHANGED pm
     ELSE IF sh[l].finished
       THEN /\ sh' = [sh EXCEPT ![l].due = FALSE, ![l].aborting = TRUE,
                                ![l].pc = "exit", ![l].status = Interrupted]
            /\ pm' = [pm EXCEPT ![l].state = IF @ = "running" THEN "cut" ELSE @]
     ELSE /\ sh' = [sh EXCEPT ![l].due = FALSE, ![l].aborting = TRUE,
                              ![l].finished = TRUE,
                              ![l].pc = "pm", ![l].status = Interrupted]
          /\ PmStart(l)
  /\ UNCHANGED <<child, tool, fds, lock, taken>>
  /\ Budgets

-----------------------------------------------------------------------------
(* From the first command to the game *)

Refuse(l) ==
  /\ FinishAndExit(l, "failed")
  /\ UNCHANGED <<child, tool, fds, lock, taken>>
  /\ Budgets

Proceed(l, label) ==
  /\ sh' = [sh EXCEPT ![l].pc = label]
  /\ UNCHANGED <<child, tool, fds, lock, pm, taken>>
  /\ Budgets

\* Control files, the log, the executable and the lock directory; the lock
\* file is opened as descriptor 9.
Prepare(l) ==
  /\ At(l, "start")
  /\ fds' = [fds EXCEPT ![l] = {"shell"}]
  /\ sh' = [sh EXCEPT ![l].pc = "lock"]
  /\ UNCHANGED <<child, tool, lock, pm, taken>>
  /\ Budgets

\* One of those is missing or unsafe; a few places leave by a plain exit.
PrepareFails(l) ==
  /\ At(l, "start")
  /\ \/ Refuse(l)
     \/ /\ sh' = [sh EXCEPT ![l].pc = "exit", ![l].status = "failed"]
        /\ UNCHANGED <<child, tool, fds, lock, pm, taken>>
        /\ Budgets

\* Mutant: whether the lock was obtained is not looked at.
TakeLockAnyway(l) ==
  /\ At(l, "lock")
  /\ lock' = IF lock = NoOne THEN l ELSE lock
  /\ sh' = [sh EXCEPT ![l].pc = "dialog"]
  /\ UNCHANGED <<child, tool, fds, pm, taken>>
  /\ Budgets

\* flock -n 9
TakeLock(l) ==
  /\ At(l, "lock")
  /\ lock = NoOne
  /\ lock' = l
  /\ sh' = [sh EXCEPT ![l].pc = "dialog"]
  /\ UNCHANGED <<child, tool, fds, pm, taken>>
  /\ Budgets

LockBusy(l) ==
  /\ At(l, "lock")
  /\ lock # NoOne
  /\ Refuse(l)

\* The platform helper may fail, the dialog of PortMaster has to be closed.
HandOff(l) ==
  /\ At(l, "dialog")
  /\ \/ Proceed(l, "extract")
     \/ Refuse(l)

\* Mutant: descriptor 9 is closed in the tools, as it is in the game.
StartToolUnlocked(l) ==
  /\ At(l, "extract") \/ At(l, "splash")
  /\ sh' = [sh EXCEPT ![l].pc =
              IF @ = "extract" THEN "extracting" ELSE "splashing"]
  /\ tool' = [tool EXCEPT ![l] = TRUE]
  /\ UNCHANGED <<child, fds, lock, pm, taken>>
  /\ Budgets

\* The extractor and the splash run in the foreground and inherit the lock.
StartTool(l) ==
  /\ At(l, "extract") \/ At(l, "splash")
  /\ sh' = [sh EXCEPT ![l].pc =
              IF @ = "extract" THEN "extracting" ELSE "splashing"]
  /\ tool' = [tool EXCEPT ![l] = TRUE]
  /\ fds' = [fds EXCEPT ![l] = @ \cup {"tool"}]
  /\ UNCHANGED <<child, lock, pm, taken>>
  /\ Budgets

\* A tool ends, under its launcher or after it.
ToolEnds(l) ==
  /\ tool[l]
  /\ tool' = [tool EXCEPT ![l] = FALSE]
  /\ Closed(l, "tool")
  /\ IF sh[l].pc \in Foreground
       THEN \/ /\ sh' = [sh EXCEPT ![l].pc =
                           IF @ = "extracting" THEN "gate" ELSE "adapter"]
               /\ UNCHANGED pm
            \/ FinishAndExit(l, "failed")
       ELSE UNCHANGED <<sh, pm>>
  /\ UNCHANGED <<child, taken>>
  /\ Budgets

\* port-env.sh, then the files a launch needs.
Gate(l) ==
  /\ At(l, "gate")
  /\ \/ Proceed(l, "splash")
     \/ Refuse(l)

-----------------------------------------------------------------------------
(* The game and the signals it is sent *)

\* From here on a signal asks for a shutdown and does not leave the script.
ArmTraps(l) ==
  /\ At(l, "adapter")
  /\ sh' = [sh EXCEPT ![l].pc = "armed", ![l].trap = "forward"]
  /\ UNCHANGED <<child, tool, fds, lock, pm, taken>>
  /\ Budgets

\* Mutant: the game inherits descriptor 9.
ForkLocked(l) ==
  /\ At(l, "armed")
  /\ child' = [child EXCEPT ![l].state = "running", ![l].pid = "game"]
  /\ fds' = [fds EXCEPT ![l] = @ \cup {"game"}]
  /\ sh' = [sh EXCEPT ![l].pc = "forked"]
  /\ UNCHANGED <<tool, lock, pm, taken>>
  /\ Budgets

\* "$BIN" "$GAMEDIR" "$@" 9>&- &
Fork(l) ==
  /\ At(l, "armed")
  /\ child' = [child EXCEPT ![l].state = "running", ![l].pid = "game"]
  /\ sh' = [sh EXCEPT ![l].pc = "forked"]
  /\ UNCHANGED <<tool, fds, lock, pm, taken>>
  /\ Budgets

KnowPid(l) ==
  /\ At(l, "forked")
  /\ sh' = [sh EXCEPT ![l].pc = "launched", ![l].game_pid = TRUE]
  /\ UNCHANGED <<child, tool, fds, lock, pm, taken>>
  /\ Budgets

\* nxbootstrap_capture_child_starttime: of the process that has the pid.
CaptureStart(l) ==
  /\ At(l, "launched")
  /\ sh' = [sh EXCEPT ![l].pc = "captured", ![l].starttime = child[l].pid]
  /\ UNCHANGED <<child, tool, fds, lock, pm, taken>>
  /\ Budgets

\* Mutant: the start time is not compared.
AliveByPid(l, starttime) ==
  /\ starttime # NoOne
  /\ child[l].pid # NoOne
  /\ child[l].pid = "game" => child[l].state = "running"

\* nxbootstrap_child_alive: a process has the pid, it started when the game
\* did and is no zombie.
Alive(l, starttime) ==
  /\ starttime # NoOne
  /\ child[l].pid = starttime
  /\ starttime = "game" => child[l].state = "running"

\* nxbootstrap_signal_child up to the kill; it may have to read the start time
\* first.
SignalChild(l, s) ==
  LET start == IF s.starttime = NoOne /\ s.game_pid
                 THEN child[l].pid ELSE s.starttime
  IN  sh' = [sh EXCEPT ![l] =
               IF s.term_sent \/ ~s.game_pid THEN s
               ELSE IF ~Alive(l, start) THEN [s EXCEPT !.starttime = start]
               ELSE [s EXCEPT !.starttime = start, !.term_sent = TRUE,
                              !.aim = child[l].pid]]

\* kill -TERM, and kill -KILL after the deadline: whoever has the pid by now is
\* sent the signal.  A trap that comes due meanwhile runs after it.
Strike(l) ==
  /\ sh[l].aim # NoOne
  /\ sh' = [sh EXCEPT ![l].aim = NoOne]
  /\ taken' = taken \cup {<<l, sh[l].aim>>}
  /\ child' =
       IF child[l].pid # "game" THEN child
       ELSE IF sh[l].pc # "rewait" THEN [child EXCEPT ![l].termed = TRUE]
       ELSE IF child[l].state # "running" THEN child
       ELSE [child EXCEPT ![l].state = "zombie", ![l].code = "killed"]
  /\ UNCHANGED <<tool, fds, lock, pm>>
  /\ Budgets

\* nxbootstrap_request_shutdown
RequestShutdown(l, s) ==
  SignalChild(l, [s EXCEPT !.due = FALSE, !.shutdown = TRUE,
                           !.count = s.count + 1])

ForwardTrap(l) ==
  /\ sh[l].due /\ sh[l].trap = "forward"
  /\ sh[l].pc # "wait" /\ sh[l].aim = NoOne
  /\ RequestShutdown(l, sh[l])
  /\ UNCHANGED <<child, tool, fds, lock, pm, taken>>
  /\ Budgets

\* Mutant: a shutdown asked for while the pid was unknown is forgotten.
ResendForgotten(l) ==
  /\ At(l, "captured")
  /\ sh' = [sh EXCEPT ![l].pc = "wait"]
  /\ UNCHANGED <<child, tool, fds, lock, pm, taken>>
  /\ Budgets

\* A shutdown asked for before the pid was known is passed on now.
Resend(l) ==
  /\ At(l, "captured")
  /\ IF sh[l].shutdown
       THEN SignalChild(l, [sh[l] EXCEPT !.pc = "wait"])
       ELSE sh' = [sh EXCEPT ![l].pc = "wait"]
  /\ UNCHANGED <<child, tool, fds, lock, pm, taken>>
  /\ Budgets

\* The game is over: wait collects it, or remembers that bash already has.
Ended(l) == child[l].state \in {"zombie", "reaped"}
Collect(l) ==
  child' = [child EXCEPT ![l].state = "reaped",
                         ![l].pid = IF @ = "game" THEN NoOne ELSE @]

WaitReturns(l) ==
  /\ sh[l].pc = "wait" /\ sh[l].aim = NoOne
  /\ Ended(l)
  /\ sh' = [sh EXCEPT ![l].pc = "waited", ![l].status = child[l].code]
  /\ Collect(l)
  /\ UNCHANGED <<tool, fds, lock, pm, taken>>
  /\ Budgets

\* wait returns 128+n and the trap runs at once.
WaitInterrupted(l) ==
  /\ sh[l].pc = "wait" /\ sh[l].due /\ sh[l].aim = NoOne
  /\ RequestShutdown(l, [sh[l] EXCEPT !.pc = "waited", !.status = Interrupted])
  /\ UNCHANGED <<child, tool, fds, lock, pm, taken>>
  /\ Budgets

-----------------------------------------------------------------------------
(* After wait *)

NoShutdown(l) ==
  /\ At(l, "waited")
  /\ ~sh[l].shutdown
  /\ Proceed(l, "again")

\* The loop for a status above 128, which a crash may have.  The game has ended:
\* only a trapped signal interrupts wait, and its trap asks for a shutdown.  So
\* the loop goes round as long as a stranger lives whose start time was
\* recorded; wait returns the status that bash keeps.
Above128 == {"crashed", "killed", Interrupted}
WaitAgain(l) ==
  /\ At(l, "again")
  /\ sh[l].status \in Above128 /\ Alive(l, sh[l].starttime)
  /\ Ended(l)
  /\ sh' = [sh EXCEPT ![l].status = child[l].code]
  /\ UNCHANGED <<child, tool, fds, lock, pm, taken>>
  /\ Budgets

TruthKnown(l) ==
  /\ At(l, "again")
  /\ \/ sh[l].status \notin {"killed", Interrupted}
     \/ ~Alive(l, sh[l].starttime)
  /\ Proceed(l, "end")

EnterGrace(l) ==
  /\ At(l, "waited")
  /\ sh[l].shutdown
  /\ sh' = [sh EXCEPT ![l].pc = "grace", ![l].trap = "ignore",
                      ![l].ticks = Ticks]
  /\ UNCHANGED <<child, tool, fds, lock, pm, taken>>
  /\ Budgets

\* Mutant: the seconds left are not looked at.
TickPast(l) ==
  /\ At(l, "grace")
  /\ Alive(l, sh[l].starttime)
  /\ sh' = [sh EXCEPT ![l].ticks = @ - 1]
  /\ UNCHANGED <<child, tool, fds, lock, pm, taken>>
  /\ Budgets

Tick(l) ==
  /\ At(l, "grace")
  /\ sh[l].ticks > 0 /\ Alive(l, sh[l].starttime)
  /\ sh' = [sh EXCEPT ![l].ticks = @ - 1]
  /\ UNCHANGED <<child, tool, fds, lock, pm, taken>>
  /\ Budgets

GraceOver(l) ==
  /\ At(l, "grace")
  /\ sh[l].ticks = 0 \/ ~Alive(l, sh[l].starttime)
  /\ Proceed(l, "kill")

\* Mutant: the expired deadline is not enforced.
KillNot(l) ==
  /\ At(l, "kill")
  /\ sh' = [sh EXCEPT ![l].pc = "rewait", ![l].budget = sh[l].count]
  /\ UNCHANGED <<child, tool, fds, lock, pm, taken>>
  /\ Budgets

\* The deadline has expired if the game is alive still; Strike kills it.
Kill(l) ==
  /\ At(l, "kill")
  /\ sh' = [sh EXCEPT ![l].pc = "rewait", ![l].budget = sh[l].count,
                      ![l].aim = IF Alive(l, sh[l].starttime) THEN child[l].pid ELSE NoOne]
  /\ UNCHANGED <<child, tool, fds, lock, pm, taken>>
  /\ Budgets

\* Each handled signal may have cost one wait.
Rewait(l) ==
  /\ At(l, "rewait")
  /\ sh[l].budget > 0 /\ sh[l].status = Interrupted
  /\ Ended(l)
  /\ sh' = [sh EXCEPT ![l].budget = @ - 1, ![l].status = child[l].code]
  /\ Collect(l)
  /\ UNCHANGED <<tool, fds, lock, pm, taken>>
  /\ Budgets

\* Mutant: the interrupted wait's status is kept.
RewaitNever(l) ==
  /\ At(l, "rewait")
  /\ Proceed(l, "end")

RewaitDone(l) ==
  /\ At(l, "rewait")
  /\ sh[l].budget = 0 \/ sh[l].status # Interrupted
  /\ Proceed(l, "end")

EndOfGame(l) ==
  /\ At(l, "end")
  /\ FinishAndExit(l, sh[l].status)
  /\ UNCHANGED <<child, tool, fds, lock, taken>>
  /\ Budgets

-----------------------------------------------------------------------------
(* The game, the system and the front end *)

\* The game ends by itself, or because it was asked to.
GameEnds(l) ==
  /\ child[l].state = "running"
  /\ \E code \in {"ok", "crashed"}
                   \cup (IF child[l].termed /\ ~child[l].deaf
                           THEN {Interrupted} ELSE {}) :
       child' = [child EXCEPT ![l].state = "zombie", ![l].code = code]
  /\ Closed(l, "game")
  /\ UNCHANGED <<sh, tool, pm, taken>>
  /\ Budgets

\* Bash reaps its child on SIGCHLD, before wait asks for it.
Reap(l) ==
  /\ child[l].state = "zombie"
  /\ Collect(l)
  /\ UNCHANGED <<sh, tool, fds, lock, pm, taken>>
  /\ Budgets

\* A stranger is given the pid, and another one when that one has ended.
PidReused(l) ==
  /\ child[l].state = "reaped"
  /\ \/ /\ child[l].pid = NoOne
        /\ child' = [child EXCEPT ![l].pid = "stranger"]
     \/ /\ child[l].pid = "stranger" /\ Reuses > 1
        /\ child' = [child EXCEPT ![l].pid = "another"]
  /\ UNCHANGED <<sh, tool, fds, lock, pm, taken>>
  /\ Budgets

\* INT, TERM or HUP from the front end.
Signal(l) ==
  /\ signalsLeft > 0
  /\ sh[l].pc # "gone" /\ ~sh[l].due /\ sh[l].trap # "ignore"
  /\ sh' = [sh EXCEPT ![l].due = TRUE]
  /\ signalsLeft' = signalsLeft - 1
  /\ UNCHANGED <<child, tool, fds, lock, pm, killed, taken, killsLeft>>

\* SIGKILL, or the system out of memory.
KillLauncher(l) ==
  /\ killsLeft > 0
  /\ sh[l].pc # "gone"
  /\ sh' = [sh EXCEPT ![l].pc = "gone", ![l].due = FALSE, ![l].aim = NoOne]
  /\ Closed(l, "shell")
  /\ killed' = killed \cup {l}
  /\ killsLeft' = killsLeft - 1
  /\ UNCHANGED <<child, tool, pm, taken, signalsLeft>>

-----------------------------------------------------------------------------

Shell(l) ==
  \/ PmDone(l) \/ Leave(l) \/ AbortTrap(l)
  \/ Prepare(l) \/ PrepareFails(l) \/ TakeLock(l) \/ LockBusy(l)
  \/ HandOff(l) \/ StartTool(l) \/ Gate(l)
  \/ ArmTraps(l) \/ Fork(l) \/ KnowPid(l) \/ CaptureStart(l)
  \/ ForwardTrap(l) \/ Resend(l) \/ WaitReturns(l) \/ WaitInterrupted(l)
  \/ Strike(l) \/ NoShutdown(l) \/ WaitAgain(l) \/ TruthKnown(l)
  \/ EnterGrace(l) \/ Tick(l) \/ GraceOver(l) \/ Kill(l)
  \/ Rewait(l) \/ RewaitDone(l) \/ EndOfGame(l)

\* A game that was asked to end and listens does so.
GameObeys(l) == child[l].termed /\ ~child[l].deaf /\ GameEnds(l)

Next ==
  \E l \in Launchers :
    \/ Shell(l) \/ ToolEnds(l) \/ GameEnds(l) \/ Reap(l) \/ PidReused(l)
    \/ Signal(l) \/ KillLauncher(l)

Spec == Init /\ [][Next]_vars

FairSpec ==
  /\ Spec
  /\ \A l \in Launchers :
       WF_vars(Shell(l)) /\ WF_vars(ToolEnds(l)) /\ WF_vars(GameObeys(l))

-----------------------------------------------------------------------------
(* Properties *)

Labels ==
  {"start", "lock", "dialog", "extract", "extracting", "gate", "splash",
   "splashing", "adapter", "armed", "forked", "launched", "captured", "wait",
   "waited", "again", "grace", "kill", "rewait", "end", "pm", "exit", "gone"}
Strangers == {"stranger", "another"}
Owners == {NoOne, "game"} \cup Strangers
Codes == {"ok", "crashed", "killed", Interrupted}

ShellRecord ==
  [pc : Labels, trap : {"abort", "forward", "ignore"}, due : BOOLEAN,
   finished : BOOLEAN, aborting : BOOLEAN, status : Codes \cup {"failed"},
   shutdown : BOOLEAN, count : Nat, term_sent : BOOLEAN,
   game_pid : BOOLEAN, starttime : Owners, aim : Owners,
   ticks : Nat, budget : Nat]
GameRecord ==
  [state : {"none", "running", "zombie", "reaped"}, code : Codes,
   pid : Owners, termed : BOOLEAN, deaf : BOOLEAN]
PmRecord == [calls : Nat, state : {"idle", "running", "done", "cut"}]

\* Every variable keeps to the values the script and the system give it.
TypeOK ==
  /\ sh \in [Launchers -> ShellRecord]
  /\ child \in [Launchers -> GameRecord]
  /\ tool \in [Launchers -> BOOLEAN]
  /\ fds \in [Launchers -> SUBSET {"shell", "tool", "game"}]
  /\ lock \in Launchers \cup {NoOne}
  /\ pm \in [Launchers -> PmRecord]
  /\ killed \subseteq Launchers
  /\ taken \subseteq (Launchers \X Owners)
  /\ signalsLeft \in Nat
  /\ killsLeft \in Nat

Running(l) == child[l].state = "running"

\* Two games do not "fight for fb0/audio/input": a second one starts only when
\* the launcher of the first was killed and could not wait for it.
OneGame ==
  \A k, l \in Launchers :
    k # l /\ Running(k) /\ Running(l) => killed \cap {k, l} # {}

\* The extractor keeps the lock when its launcher dies, so that the next launch
\* does not start a second extractor over the same workspace.
OneTool == \A k, l \in Launchers : k # l => ~(tool[k] /\ tool[l])

\* A game that outlives its launcher does not "block the next launch".
OrphanHoldsNoLock ==
  \A l \in Launchers : sh[l].pc = "gone" /\ ~tool[l] => lock # l

\* A launcher that leaves has called pm_finish exactly once, on every path; it
\* was cut short only by a signal of the time before the game.
FinishedOnce ==
  \A l \in Launchers :
    sh[l].pc = "gone" /\ l \notin killed =>
      /\ pm[l].calls = 1
      /\ pm[l].state = "cut" => sh[l].aborting /\ ~sh[l].game_pid

\* The exit status of a launcher that started the game is that of the game,
\* however many signals interrupted its waiting.
StatusIsGames ==
  \A l \in Launchers :
    sh[l].pc = "gone" /\ l \notin killed /\ sh[l].game_pid =>
      child[l].state = "reaped" /\ sh[l].status = child[l].code

\* Once the script knows the start time of the game, it takes no process that
\* was given the pid for the game, neither in the trap nor after the deadline.
\* (The kill goes to the pid: who is given it after that look can be hit.)
OnlyTheRecorded ==
  \A l \in Launchers :
    sh[l].starttime = "game" =>
      \A who \in Strangers : <<l, who>> \notin taken

\* A shutdown the front end asked for ends the launcher, if the game listens;
\* except that a stranger whose start time was read for the game's keeps the
\* loop after wait going for as long as it lives.
ShutdownEnds ==
  \A l \in Launchers :
    sh[l].shutdown /\ ~child[l].deaf
      ~> sh[l].pc = "gone" \/ sh[l].starttime \in Strangers

\* A signal that finds the launcher waiting ends it even if the game is deaf:
\* the game is killed when the deadline expires.
DeadlineEnforced ==
  \A l \in Launchers :
    sh[l].pc = "wait" /\ sh[l].due ~> sh[l].pc = "gone"

\* A signal before the game starts still hands the screen back to the front end.
ScreenHandedBack ==
  \A l \in Launchers :
    sh[l].pc = "gone" /\ l \notin killed => pm[l].state = "done"
=============================================================================
