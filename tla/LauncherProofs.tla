---------------------------- MODULE LauncherProofs ----------------------------
(***************************************************************************)
(* For any number of launches, signals and killed launchers: the variables *)
(* keep their types, one extractor works at a time, an orphaned game holds *)
(* no lock, and a reused pid is not taken for the game.                    *)
(***************************************************************************)
EXTENDS Launcher, TLAPS

\* The commands between the lock and the splash.
Owning == {"dialog", "extract", "extracting", "gate", "splash"}

\* The flock belongs to who holds the open file: the shell until it is gone, and
\* the tool it started while it had the lock.
LockInv ==
  \A l \in Launchers :
    /\ fds[l] \subseteq {"shell", "tool"}
    /\ tool[l] <=> "tool" \in fds[l]
    /\ tool[l] => lock = l
    /\ lock = l => fds[l] # {}
    /\ sh[l].pc = "start" => fds[l] = {}
    /\ sh[l].pc = "gone" => "shell" \notin fds[l]
    /\ sh[l].pc = "lock" => "shell" \in fds[l]
    /\ sh[l].pc \in Owning => lock = l /\ "shell" \in fds[l]

\* The commands up to the one that learns the pid of the game.
BeforePid ==
  {"start", "lock", "dialog", "extract", "extracting", "gate", "splash",
   "splashing", "adapter", "armed", "forked"}

\* The start time is read after the pid is known; a stranger is taken for the
\* game only if the start time was read when a stranger had the pid, and strangers
\* keep the pid from then on.
SignalInv ==
  \A l \in Launchers :
    /\ sh[l].pc \in BeforePid =>
         ~sh[l].game_pid /\ sh[l].starttime = NoOne /\ sh[l].aim = NoOne
    /\ \A who \in Strangers :
         sh[l].aim = who \/ <<l, who>> \in taken =>
           sh[l].starttime \in Strangers /\ child[l].pid \in Strangers

-----------------------------------------------------------------------------
(* Types *)

\* What the commands of the script assign to the variables of a launcher keeps
\* their types.
LEMMA ShellUpdates ==
  ASSUME NEW s \in ShellRecord
  PROVE  /\ \A pc \in Labels, trap \in {"abort", "forward", "ignore"} :
              [s EXCEPT !.pc = pc, !.trap = trap] \in ShellRecord
         /\ \A pc \in Labels, trap \in {"abort", "forward", "ignore"}, n \in Nat :
              [s EXCEPT !.pc = pc, !.trap = trap, !.ticks = n] \in ShellRecord
         /\ \A pc \in Labels, b \in BOOLEAN :
              [s EXCEPT !.pc = pc, !.game_pid = b] \in ShellRecord
         /\ \A pc \in Labels, o \in Owners :
              [s EXCEPT !.pc = pc, !.starttime = o] \in ShellRecord
         /\ \A pc \in Labels, n \in Nat, o \in Owners :
              [s EXCEPT !.pc = pc, !.budget = n, !.aim = o] \in ShellRecord
         /\ \A pc \in Labels, b \in BOOLEAN, o \in Owners :
              [s EXCEPT !.pc = pc, !.due = b, !.aim = o] \in ShellRecord
         /\ \A o \in Owners : [s EXCEPT !.aim = o] \in ShellRecord
         /\ \A n \in Nat, code \in Codes :
              [s EXCEPT !.budget = n, !.status = code] \in ShellRecord
         /\ \A pc \in Labels, code \in Codes \cup {"failed"} :
              [s EXCEPT !.pc = pc, !.status = code] \in ShellRecord
         /\ \A pc \in Labels, b \in BOOLEAN, code \in Codes \cup {"failed"} :
              [s EXCEPT !.pc = pc, !.finished = b, !.status = code] \in ShellRecord
         /\ \A b \in BOOLEAN : [s EXCEPT !.due = b] \in ShellRecord
         /\ \A b, c \in BOOLEAN, n \in Nat :
              [s EXCEPT !.due = b, !.shutdown = c, !.count = n] \in ShellRecord
  BY DEF ShellRecord

\* A signal before the game changes them so.
LEMMA AbortUpdates ==
  ASSUME NEW s \in ShellRecord, NEW pc \in Labels
  PROVE  /\ [s EXCEPT !.due = FALSE] \in ShellRecord
         /\ [s EXCEPT !.due = FALSE, !.aborting = TRUE, !.pc = pc,
                      !.status = Interrupted] \in ShellRecord
         /\ [s EXCEPT !.due = FALSE, !.aborting = TRUE, !.finished = TRUE,
                      !.pc = pc, !.status = Interrupted] \in ShellRecord
  BY DEF ShellRecord, Codes

\* nxbootstrap_finish and exit keep the types, whichever status they carry.
LEMMA FinishTyped ==
  ASSUME TypeOK, NEW l \in Launchers, NEW status \in Codes \cup {"failed"},
         FinishAndExit(l, status)
  PROVE  sh' \in [Launchers -> ShellRecord] /\ pm' \in [Launchers -> PmRecord]
<1>1. CASE sh[l].finished
  BY <1>1 DEF FinishAndExit, TypeOK, ShellRecord, Labels
<1>2. CASE ~sh[l].finished
  <2>1. [sh[l] EXCEPT !.pc = "pm", !.finished = TRUE, !.status = status] \in ShellRecord
    BY ShellUpdates DEF TypeOK, Labels
  <2>2. sh' \in [Launchers -> ShellRecord]
    BY <1>2, <2>1 DEF FinishAndExit, TypeOK
  <2>3. pm' \in [Launchers -> PmRecord]
    BY <1>2 DEF FinishAndExit, PmStart, TypeOK, PmRecord
  <2> QED
    BY <2>2, <2>3
<1> QED
  BY <1>1, <1>2

\* Looking at the game before a signal keeps the types of what it changes.
LEMMA SignalTyped ==
  ASSUME TypeOK, NEW l \in Launchers, NEW s \in ShellRecord, SignalChild(l, s)
  PROVE  sh' \in [Launchers -> ShellRecord]
<1> DEFINE start == IF s.starttime = NoOne /\ s.game_pid
                      THEN child[l].pid ELSE s.starttime
<1>1. start \in Owners /\ child[l].pid \in Owners
  BY DEF TypeOK, ShellRecord, GameRecord
<1>2. CASE s.term_sent \/ ~s.game_pid
  BY <1>2 DEF SignalChild, TypeOK
<1>3. CASE ~(s.term_sent \/ ~s.game_pid) /\ ~Alive(l, start)
  <2>1. [s EXCEPT !.starttime = start] \in ShellRecord
    BY <1>1 DEF ShellRecord
  <2> QED
    BY <1>3, <2>1 DEF SignalChild, TypeOK
<1>4. CASE ~(s.term_sent \/ ~s.game_pid) /\ Alive(l, start)
  <2>1. [s EXCEPT !.starttime = start, !.term_sent = TRUE, !.aim = child[l].pid]
          \in ShellRecord
    BY <1>1 DEF ShellRecord
  <2> QED
    BY <1>4, <2>1 DEF SignalChild, TypeOK
<1> QED
  BY <1>2, <1>3, <1>4

\* A game that ends keeps its type, whatever ended it.
LEMMA KillTyped ==
  ASSUME child \in [Launchers -> GameRecord], NEW l \in Launchers
  PROVE  /\ \A code \in Codes :
              [child EXCEPT ![l].state = "zombie", ![l].code = code]
                \in [Launchers -> GameRecord]
         /\ [child EXCEPT ![l].state = "zombie", ![l].code = "killed"]
              \in [Launchers -> GameRecord]
<1>1. \A code \in Codes :
        [child[l] EXCEPT !.state = "zombie", !.code = code] \in GameRecord
  BY DEF GameRecord
<1>2. "killed" \in Codes
  BY DEF Codes
<1> QED
  BY <1>1, <1>2

\* Collecting the game keeps the type of what is known of it.
LEMMA CollectTyped ==
  ASSUME TypeOK, NEW l \in Launchers, Collect(l)
  PROVE  child' \in [Launchers -> GameRecord]
<1>1. child \in [Launchers -> GameRecord]
  BY DEF TypeOK
<1>2. \/ child' = [child EXCEPT ![l].state = "reaped", ![l].pid = NoOne]
      \/ child' = [child EXCEPT ![l].state = "reaped", ![l].pid = child[l].pid]
  BY DEF Collect
<1>3. NoOne \in Owners /\ child[l].pid \in Owners
  BY <1>1 DEF GameRecord, Owners
<1> QED
  BY <1>1, <1>2, <1>3 DEF GameRecord

\* Closing descriptor 9 keeps the types.
LEMMA ClosedTyped ==
  ASSUME TypeOK, NEW l \in Launchers, NEW who, Closed(l, who)
  PROVE  /\ fds' \in [Launchers -> SUBSET {"shell", "tool", "game"}]
         /\ lock' \in Launchers \cup {NoOne}
  BY DEF Closed, TypeOK

\* Every step of a launcher, a tool, a game and the front end keeps the types.
LEMMA TypeStep == TypeOK /\ [Next]_vars => TypeOK'
<1> SUFFICES ASSUME TypeOK, [Next]_vars PROVE TypeOK'
  OBVIOUS
<1>0. /\ sh \in [Launchers -> ShellRecord]
      /\ child \in [Launchers -> GameRecord]
  BY DEF TypeOK
<1>1. ASSUME NEW l \in Launchers, PmDone(l) PROVE TypeOK'
  <2>1. sh' = [sh EXCEPT ![l].pc = "exit"]
    BY <1>1 DEF PmDone
  <2>2. sh' \in [Launchers -> ShellRecord]
    BY <1>0, <2>1 DEF ShellRecord, Labels
  <2>3. pm' \in [Launchers -> PmRecord]
    BY <1>1 DEF PmDone, TypeOK, PmRecord
  <2> QED
    BY <1>1, <2>1, <2>2, <2>3 DEF PmDone, At, Budgets, TypeOK
<1>2. ASSUME NEW l \in Launchers, Leave(l) PROVE TypeOK'
  <2>1. CASE sh[l].finished
    <3>1. sh' = [sh EXCEPT ![l].pc = "gone"] /\ Closed(l, "shell") /\ UNCHANGED pm
      BY <1>2, <2>1 DEF Leave
    <3>2. sh' \in [Launchers -> ShellRecord]
      BY <1>0, <3>1 DEF ShellRecord, Labels
    <3> QED
      BY <1>2, <3>1, <3>2, ClosedTyped DEF Leave, Budgets, TypeOK
  <2>2. CASE ~sh[l].finished
    <3>1. FinishAndExit(l, sh[l].status) /\ UNCHANGED <<fds, lock>>
      BY <1>2, <2>2 DEF Leave
    <3>2. sh[l].status \in Codes \cup {"failed"}
      BY <1>0 DEF ShellRecord
    <3>3. sh' \in [Launchers -> ShellRecord] /\ pm' \in [Launchers -> PmRecord]
      BY <3>1, <3>2, FinishTyped
    <3> QED
      BY <1>2, <3>1, <3>3 DEF Leave, Budgets, TypeOK
  <2> QED
    BY <2>1, <2>2
<1>3. ASSUME NEW l \in Launchers, AbortTrap(l) PROVE TypeOK'
  <2>1. \/ sh' = [sh EXCEPT ![l].due = FALSE]
        \/ sh' = [sh EXCEPT ![l].due = FALSE, ![l].aborting = TRUE, ![l].pc = "exit",
                            ![l].status = Interrupted]
        \/ sh' = [sh EXCEPT ![l].due = FALSE, ![l].aborting = TRUE, ![l].finished = TRUE,
                            ![l].pc = "pm", ![l].status = Interrupted]
    BY <1>3 DEF AbortTrap
  <2>2. "exit" \in Labels /\ "pm" \in Labels
    BY DEF Labels
  <2>3. /\ [sh[l] EXCEPT !.due = FALSE] \in ShellRecord
        /\ [sh[l] EXCEPT !.due = FALSE, !.aborting = TRUE, !.pc = "exit",
                       !.status = Interrupted] \in ShellRecord
        /\ [sh[l] EXCEPT !.due = FALSE, !.aborting = TRUE, !.finished = TRUE,
                       !.pc = "pm", !.status = Interrupted] \in ShellRecord
    BY <1>0, <2>2, AbortUpdates
  <2>4. sh' \in [Launchers -> ShellRecord]
    BY <1>0, <2>1, <2>3
  <2>5. \/ pm' = pm
        \/ pm' = [pm EXCEPT ![l].state = IF @ = "running" THEN "cut" ELSE @]
        \/ pm' = [pm EXCEPT ![l] = [calls |-> @.calls + 1, state |-> "running"]]
    BY <1>3 DEF AbortTrap, PmStart
  <2>6. pm' \in [Launchers -> PmRecord]
    BY <2>5 DEF TypeOK, PmRecord
  <2> QED
    BY <1>3, <2>1, <2>2, <2>3, <2>4, <2>5, <2>6 DEF AbortTrap, Budgets, TypeOK
<1>4. ASSUME NEW l \in Launchers, Prepare(l) PROVE TypeOK'
  <2>1. sh' = [sh EXCEPT ![l].pc = "lock"]
    BY <1>4 DEF Prepare
  <2>2. sh' \in [Launchers -> ShellRecord]
    BY <1>0, <2>1 DEF ShellRecord, Labels
  <2> QED
    BY <1>4, <2>1, <2>2 DEF Prepare, At, Budgets, TypeOK
<1>5. ASSUME NEW l \in Launchers, PrepareFails(l) PROVE TypeOK'
  <2>1. \/ FinishAndExit(l, "failed")
        \/ sh' = [sh EXCEPT ![l].pc = "exit", ![l].status = "failed"] /\ UNCHANGED pm
    BY <1>5 DEF PrepareFails, Refuse
  <2>2. ASSUME sh' = [sh EXCEPT ![l].pc = "exit", ![l].status = "failed"] PROVE sh' \in [Launchers -> ShellRecord]
    <3>1. [sh[l] EXCEPT !.pc = "exit", !.status = "failed"] \in ShellRecord
      BY <1>0, ShellUpdates DEF Labels
    <3> QED
      BY <1>0, <2>2, <3>1
  <2>3. sh' \in [Launchers -> ShellRecord] /\ pm' \in [Launchers -> PmRecord]
    BY <2>1, <2>2, FinishTyped DEF TypeOK
  <2> QED
    BY <1>5, <2>1, <2>2, <2>3 DEF PrepareFails, At, Budgets, Refuse, TypeOK
<1>6. ASSUME NEW l \in Launchers, TakeLock(l) PROVE TypeOK'
  <2>1. sh' = [sh EXCEPT ![l].pc = "dialog"]
    BY <1>6 DEF TakeLock
  <2>2. sh' \in [Launchers -> ShellRecord]
    BY <1>0, <2>1 DEF ShellRecord, Labels
  <2> QED
    BY <1>6, <2>1, <2>2 DEF TakeLock, At, Budgets, TypeOK
<1>7. ASSUME NEW l \in Launchers, LockBusy(l) PROVE TypeOK'
  <2>1. sh' \in [Launchers -> ShellRecord] /\ pm' \in [Launchers -> PmRecord]
    BY <1>7, FinishTyped DEF LockBusy, Refuse
  <2> QED
    BY <1>7, <2>1 DEF LockBusy, At, Budgets, Refuse, TypeOK
<1>8. ASSUME NEW l \in Launchers, HandOff(l) PROVE TypeOK'
  <2>1. \/ FinishAndExit(l, "failed")
        \/ sh' = [sh EXCEPT ![l].pc = "extract"] /\ UNCHANGED pm
    BY <1>8 DEF HandOff, Refuse, Proceed
  <2>2. ASSUME sh' = [sh EXCEPT ![l].pc = "extract"] PROVE sh' \in [Launchers -> ShellRecord]
    BY <1>0, <2>2 DEF ShellRecord, Labels
  <2>3. sh' \in [Launchers -> ShellRecord] /\ pm' \in [Launchers -> PmRecord]
    BY <2>1, <2>2, FinishTyped DEF Codes, TypeOK
  <2> QED
    BY <1>8, <2>1, <2>2, <2>3 DEF HandOff, At, Budgets, Proceed, Refuse, TypeOK
<1>9. ASSUME NEW l \in Launchers, StartTool(l) PROVE TypeOK'
  <2>1. sh' = [sh EXCEPT ![l].pc = IF @ = "extract" THEN "extracting" ELSE "splashing"]
    BY <1>9 DEF StartTool
  <2>2. sh' \in [Launchers -> ShellRecord]
    BY <1>0, <2>1 DEF ShellRecord, Labels
  <2> QED
    BY <1>9, <2>1, <2>2 DEF StartTool, At, Budgets, TypeOK
<1>10. ASSUME NEW l \in Launchers, Gate(l) PROVE TypeOK'
  <2>1. \/ FinishAndExit(l, "failed")
        \/ sh' = [sh EXCEPT ![l].pc = "splash"] /\ UNCHANGED pm
    BY <1>10 DEF Gate, Refuse, Proceed
  <2>2. ASSUME sh' = [sh EXCEPT ![l].pc = "splash"] PROVE sh' \in [Launchers -> ShellRecord]
    BY <1>0, <2>2 DEF ShellRecord, Labels
  <2>3. sh' \in [Launchers -> ShellRecord] /\ pm' \in [Launchers -> PmRecord]
    BY <2>1, <2>2, FinishTyped DEF Codes, TypeOK
  <2> QED
    BY <1>10, <2>1, <2>2, <2>3 DEF Gate, At, Budgets, Proceed, Refuse, TypeOK
<1>11. ASSUME NEW l \in Launchers, ArmTraps(l) PROVE TypeOK'
  <2>1. sh' = [sh EXCEPT ![l].pc = "armed", ![l].trap = "forward"]
    BY <1>11 DEF ArmTraps
  <2>2. [sh[l] EXCEPT !.pc = "armed", !.trap = "forward"] \in ShellRecord
    BY <1>0, ShellUpdates DEF Labels
  <2>3. sh' \in [Launchers -> ShellRecord]
    BY <1>0, <2>1, <2>2
  <2> QED
    BY <1>11, <2>1, <2>2, <2>3 DEF ArmTraps, At, Budgets, TypeOK
<1>12. ASSUME NEW l \in Launchers, Fork(l) PROVE TypeOK'
  <2>1. sh' = [sh EXCEPT ![l].pc = "forked"]
    BY <1>12 DEF Fork
  <2>2. sh' \in [Launchers -> ShellRecord]
    BY <1>0, <2>1 DEF ShellRecord, Labels
  <2>3. child' = [child EXCEPT ![l].state = "running", ![l].pid = "game"]
    BY <1>12 DEF Fork
  <2>4. child' \in [Launchers -> GameRecord]
    BY <1>0, <2>3 DEF GameRecord, Owners
  <2> QED
    BY <1>12, <2>1, <2>2, <2>3, <2>4 DEF Fork, At, Budgets, TypeOK
<1>13. ASSUME NEW l \in Launchers, KnowPid(l) PROVE TypeOK'
  <2>1. sh' = [sh EXCEPT ![l].pc = "launched", ![l].game_pid = TRUE]
    BY <1>13 DEF KnowPid
  <2>2. [sh[l] EXCEPT !.pc = "launched", !.game_pid = TRUE] \in ShellRecord
    BY <1>0, ShellUpdates DEF Labels
  <2>3. sh' \in [Launchers -> ShellRecord]
    BY <1>0, <2>1, <2>2
  <2> QED
    BY <1>13, <2>1, <2>2, <2>3 DEF KnowPid, At, Budgets, TypeOK
<1>14. ASSUME NEW l \in Launchers, CaptureStart(l) PROVE TypeOK'
  <2>1. sh' = [sh EXCEPT ![l].pc = "captured", ![l].starttime = child[l].pid]
    BY <1>14 DEF CaptureStart
  <2>2. child[l].pid \in Owners
    BY <1>0 DEF GameRecord
  <2>3. [sh[l] EXCEPT !.pc = "captured", !.starttime = child[l].pid] \in ShellRecord
    BY <1>0, <2>2, ShellUpdates DEF Labels
  <2>4. sh' \in [Launchers -> ShellRecord]
    BY <1>0, <2>1, <2>3
  <2> QED
    BY <1>14, <2>1, <2>2, <2>3, <2>4 DEF CaptureStart, At, Budgets, TypeOK
<1>15. ASSUME NEW l \in Launchers, ForwardTrap(l) PROVE TypeOK'
  <2>1. sh[l].count + 1 \in Nat
    BY <1>0 DEF ShellRecord
  <2>2. [sh[l] EXCEPT !.due = FALSE, !.shutdown = TRUE, !.count = sh[l].count + 1] \in ShellRecord
    BY <1>0, <2>1, ShellUpdates
  <2>3. SignalChild(l, [sh[l] EXCEPT !.due = FALSE, !.shutdown = TRUE, !.count = sh[l].count + 1])
    BY <1>15 DEF ForwardTrap, RequestShutdown
  <2>4. sh' \in [Launchers -> ShellRecord]
    BY <2>2, <2>3, SignalTyped
  <2> QED
    BY <1>15, <2>1, <2>2, <2>3, <2>4 DEF ForwardTrap, Budgets, TypeOK
<1>16. ASSUME NEW l \in Launchers, Resend(l) PROVE TypeOK'
  <2>1. [sh[l] EXCEPT !.pc = "wait"] \in ShellRecord
    BY <1>0 DEF ShellRecord, Labels
  <2>2. \/ SignalChild(l, [sh[l] EXCEPT !.pc = "wait"])
        \/ sh' = [sh EXCEPT ![l].pc = "wait"] /\ UNCHANGED <<child, taken>>
    BY <1>16 DEF Resend
  <2>3. ASSUME sh' = [sh EXCEPT ![l].pc = "wait"] PROVE sh' \in [Launchers -> ShellRecord]
    BY <1>0, <2>3 DEF ShellRecord, Labels
  <2>4. sh' \in [Launchers -> ShellRecord]
    BY <2>1, <2>2, <2>3, SignalTyped DEF TypeOK
  <2> QED
    BY <1>16, <2>1, <2>2, <2>3, <2>4 DEF Resend, At, Budgets, TypeOK
<1>17. ASSUME NEW l \in Launchers, WaitReturns(l) PROVE TypeOK'
  <2>1. sh' = [sh EXCEPT ![l].pc = "waited", ![l].status = child[l].code]
    BY <1>17 DEF WaitReturns
  <2>2. child[l].code \in Codes
    BY <1>0 DEF GameRecord
  <2>3. [sh[l] EXCEPT !.pc = "waited", !.status = child[l].code] \in ShellRecord
    BY <1>0, <2>2, ShellUpdates DEF Labels
  <2>4. sh' \in [Launchers -> ShellRecord]
    BY <1>0, <2>1, <2>3
  <2>5. child' \in [Launchers -> GameRecord]
    BY <1>17, CollectTyped DEF WaitReturns
  <2> QED
    BY <1>17, <2>1, <2>2, <2>3, <2>4, <2>5 DEF WaitReturns, Budgets, TypeOK
<1>18. ASSUME NEW l \in Launchers, WaitInterrupted(l) PROVE TypeOK'
  <2>1. [sh[l] EXCEPT !.pc = "waited", !.status = Interrupted] \in ShellRecord
    BY <1>0, ShellUpdates DEF Labels, Codes
  <2>2. ASSUME NEW s \in ShellRecord
        PROVE  [s EXCEPT !.due = FALSE, !.shutdown = TRUE, !.count = s.count + 1] \in ShellRecord
    <3>1. s.count + 1 \in Nat
      BY <2>2 DEF ShellRecord
    <3> QED
      BY <2>2, <3>1, ShellUpdates
  <2>3. \E s \in ShellRecord : SignalChild(l, s)
    BY <1>18, <2>1, <2>2 DEF WaitInterrupted, RequestShutdown
  <2>4. sh' \in [Launchers -> ShellRecord]
    BY <2>3, SignalTyped
  <2> QED
    BY <1>18, <2>1, <2>2, <2>3, <2>4 DEF WaitInterrupted, Budgets, TypeOK
<1>19. ASSUME NEW l \in Launchers, NoShutdown(l) PROVE TypeOK'
  <2>1. sh' = [sh EXCEPT ![l].pc = "again"]
    BY <1>19 DEF NoShutdown, Proceed
  <2>2. sh' \in [Launchers -> ShellRecord]
    BY <1>0, <2>1 DEF ShellRecord, Labels
  <2> QED
    BY <1>19, <2>1, <2>2 DEF NoShutdown, At, Budgets, Proceed, TypeOK
<1>20. ASSUME NEW l \in Launchers, EnterGrace(l) PROVE TypeOK'
  <2>1. sh' = [sh EXCEPT ![l].pc = "grace", ![l].trap = "ignore", ![l].ticks = Ticks]
    BY <1>20 DEF EnterGrace
  <2>2. Ticks \in Nat
    BY LauncherAssumption
  <2>3. [sh[l] EXCEPT !.pc = "grace", !.trap = "ignore", !.ticks = Ticks] \in ShellRecord
    BY <1>0, <2>2, ShellUpdates DEF Labels
  <2>4. sh' \in [Launchers -> ShellRecord]
    BY <1>0, <2>1, <2>3
  <2> QED
    BY <1>20, <2>1, <2>2, <2>3, <2>4 DEF EnterGrace, At, Budgets, TypeOK
<1>21. ASSUME NEW l \in Launchers, Tick(l) PROVE TypeOK'
  <2>1. sh' = [sh EXCEPT ![l].ticks = @ - 1]
    BY <1>21 DEF Tick
  <2>2. sh[l].ticks > 0
    BY <1>21 DEF Tick
  <2>3. sh' \in [Launchers -> ShellRecord]
    BY <1>0, <2>1, <2>2 DEF ShellRecord
  <2> QED
    BY <1>21, <2>1, <2>2, <2>3 DEF Tick, At, Budgets, TypeOK
<1>22. ASSUME NEW l \in Launchers, GraceOver(l) PROVE TypeOK'
  <2>1. sh' = [sh EXCEPT ![l].pc = "kill"]
    BY <1>22 DEF GraceOver, Proceed
  <2>2. sh' \in [Launchers -> ShellRecord]
    BY <1>0, <2>1 DEF ShellRecord, Labels
  <2> QED
    BY <1>22, <2>1, <2>2 DEF GraceOver, At, Budgets, Proceed, TypeOK
<1>23. ASSUME NEW l \in Launchers, Kill(l) PROVE TypeOK'
  <2>1. PICK o \in Owners :
          sh' = [sh EXCEPT ![l].pc = "rewait", ![l].budget = sh[l].count, ![l].aim = o]
    <3>1. child[l].pid \in Owners /\ NoOne \in Owners
      BY <1>0 DEF GameRecord, Owners
    <3> QED
      BY <1>23, <3>1 DEF Kill
  <2>2. sh[l].count \in Nat
    BY <1>0 DEF ShellRecord
  <2>3. [sh[l] EXCEPT !.pc = "rewait", !.budget = sh[l].count, !.aim = o] \in ShellRecord
    BY <1>0, <2>2, ShellUpdates DEF Labels
  <2>4. sh' \in [Launchers -> ShellRecord]
    BY <1>0, <2>1, <2>3
  <2> QED
    BY <1>23, <2>4 DEF Kill, At, Budgets, TypeOK
<1>24. ASSUME NEW l \in Launchers, Rewait(l) PROVE TypeOK'
  <2>1. sh' = [sh EXCEPT ![l].budget = @ - 1, ![l].status = child[l].code]
    BY <1>24 DEF Rewait
  <2>2. child[l].code \in Codes
    BY <1>0 DEF GameRecord
  <2>3. sh[l].budget - 1 \in Nat
    BY <1>0, <1>24 DEF Rewait, ShellRecord
  <2>4. [sh[l] EXCEPT !.budget = sh[l].budget - 1, !.status = child[l].code] \in ShellRecord
    BY <1>0, <2>2, <2>3, ShellUpdates
  <2>5. sh' \in [Launchers -> ShellRecord]
    BY <1>0, <2>1, <2>4
  <2>6. child' \in [Launchers -> GameRecord]
    BY <1>24, CollectTyped DEF Rewait
  <2> QED
    BY <1>24, <2>1, <2>2, <2>3, <2>4, <2>5, <2>6 DEF Rewait, At, Budgets, TypeOK
<1>25. ASSUME NEW l \in Launchers, RewaitDone(l) PROVE TypeOK'
  <2>1. sh' = [sh EXCEPT ![l].pc = "end"]
    BY <1>25 DEF RewaitDone, Proceed
  <2>2. sh' \in [Launchers -> ShellRecord]
    BY <1>0, <2>1 DEF ShellRecord, Labels
  <2> QED
    BY <1>25, <2>1, <2>2 DEF RewaitDone, At, Budgets, Proceed, TypeOK
<1>26. ASSUME NEW l \in Launchers, EndOfGame(l) PROVE TypeOK'
  <2>1. sh[l].status \in Codes \cup {"failed"}
    BY <1>0 DEF ShellRecord
  <2>2. sh' \in [Launchers -> ShellRecord] /\ pm' \in [Launchers -> PmRecord]
    BY <1>26, <2>1, FinishTyped DEF EndOfGame
  <2> QED
    BY <1>26, <2>1, <2>2 DEF EndOfGame, At, Budgets, TypeOK
<1>27. ASSUME NEW l \in Launchers, ToolEnds(l) PROVE TypeOK'
  <2>1. \/ FinishAndExit(l, "failed")
        \/ UNCHANGED <<sh, pm>>
        \/ /\ sh' = [sh EXCEPT ![l].pc = IF @ = "extracting" THEN "gate" ELSE "adapter"]
           /\ UNCHANGED pm
    BY <1>27 DEF ToolEnds
  <2>2. ASSUME sh' = [sh EXCEPT ![l].pc = IF @ = "extracting" THEN "gate" ELSE "adapter"]
        PROVE  sh' \in [Launchers -> ShellRecord]
    BY <1>0, <2>2 DEF ShellRecord, Labels
  <2>3. sh' \in [Launchers -> ShellRecord] /\ pm' \in [Launchers -> PmRecord]
    BY <2>1, <2>2, FinishTyped DEF TypeOK
  <2>4. fds' \in [Launchers -> SUBSET {"shell", "tool", "game"}] /\ lock' \in Launchers \cup {NoOne}
    BY <1>27, ClosedTyped DEF ToolEnds
  <2>5. tool' \in [Launchers -> BOOLEAN]
    BY <1>27 DEF ToolEnds, TypeOK
  <2>6. UNCHANGED <<child, killed, taken, signalsLeft, killsLeft>>
    BY <1>27 DEF ToolEnds, Budgets
  <2> QED
    BY <2>3, <2>4, <2>5, <2>6 DEF TypeOK
<1>28. ASSUME NEW l \in Launchers, GameEnds(l) PROVE TypeOK'
  <2>1. \E code \in Codes : child' = [child EXCEPT ![l].state = "zombie", ![l].code = code]
    BY <1>28 DEF GameEnds, Codes
  <2>2. child' \in [Launchers -> GameRecord]
    <3>1. PICK code \in Codes : child' = [child EXCEPT ![l].state = "zombie", ![l].code = code]
      BY <2>1
    <3>2. [child EXCEPT ![l].state = "zombie", ![l].code = code] \in [Launchers -> GameRecord]
      BY <1>0, KillTyped
    <3> QED
      BY <3>1, <3>2
  <2>3. fds' \in [Launchers -> SUBSET {"shell", "tool", "game"}] /\ lock' \in Launchers \cup {NoOne}
    BY <1>28, ClosedTyped DEF GameEnds
  <2> QED
    BY <1>28, <2>1, <2>2, <2>3 DEF GameEnds, Budgets, TypeOK
<1>29. ASSUME NEW l \in Launchers, Reap(l) PROVE TypeOK'
  <2>1. child' \in [Launchers -> GameRecord]
    BY <1>29, CollectTyped DEF Reap
  <2> QED
    BY <1>29, <2>1 DEF Reap, Budgets, TypeOK
<1>30. ASSUME NEW l \in Launchers, PidReused(l) PROVE TypeOK'
  <2>1. \E o \in Strangers : child' = [child EXCEPT ![l].pid = o]
    BY <1>30 DEF PidReused, Strangers
  <2>2. child' \in [Launchers -> GameRecord]
    BY <1>0, <2>1 DEF GameRecord, Owners
  <2> QED
    BY <1>30, <2>1, <2>2 DEF PidReused, Budgets, TypeOK
<1>31. ASSUME NEW l \in Launchers, Signal(l) PROVE TypeOK'
  <2>1. sh' = [sh EXCEPT ![l].due = TRUE]
    BY <1>31 DEF Signal
  <2>2. [sh[l] EXCEPT !.due = TRUE] \in ShellRecord
    BY <1>0, ShellUpdates
  <2>3. sh' \in [Launchers -> ShellRecord]
    BY <1>0, <2>1, <2>2
  <2> QED
    BY <1>31, <2>1, <2>2, <2>3 DEF Signal, TypeOK
<1>32. ASSUME NEW l \in Launchers, KillLauncher(l) PROVE TypeOK'
  <2>1. sh' = [sh EXCEPT ![l].pc = "gone", ![l].due = FALSE, ![l].aim = NoOne]
    BY <1>32 DEF KillLauncher
  <2>2. [sh[l] EXCEPT !.pc = "gone", !.due = FALSE, !.aim = NoOne] \in ShellRecord
    BY <1>0, ShellUpdates DEF Labels, Owners
  <2>3. sh' \in [Launchers -> ShellRecord]
    BY <1>0, <2>1, <2>2
  <2>4. fds' \in [Launchers -> SUBSET {"shell", "tool", "game"}] /\ lock' \in Launchers \cup {NoOne}
    BY <1>32, ClosedTyped DEF KillLauncher
  <2> QED
    BY <1>32, <2>3, <2>4 DEF KillLauncher, TypeOK
<1>34. ASSUME NEW l \in Launchers, Strike(l) PROVE TypeOK'
  <2>1. sh' = [sh EXCEPT ![l].aim = NoOne] /\ NoOne \in Owners
    BY <1>34 DEF Strike, Owners
  <2>2. [sh[l] EXCEPT !.aim = NoOne] \in ShellRecord
    BY <1>0, <2>1, ShellUpdates
  <2>3. sh' \in [Launchers -> ShellRecord]
    BY <1>0, <2>1, <2>2
  <2>4. \/ child' = child
        \/ child' = [child EXCEPT ![l].termed = TRUE]
        \/ child' = [child EXCEPT ![l].state = "zombie", ![l].code = "killed"]
    BY <1>34 DEF Strike
  <2>5. [child[l] EXCEPT !.termed = TRUE] \in GameRecord
    BY <1>0 DEF GameRecord
  <2>6. child' \in [Launchers -> GameRecord]
    BY <1>0, <2>4, <2>5, KillTyped
  <2>7. taken' \subseteq (Launchers \X Owners)
    <3>1. sh[l].aim \in Owners
      BY <1>0 DEF ShellRecord
    <3> QED
      BY <1>34, <3>1 DEF Strike, TypeOK
  <2> QED
    BY <1>34, <2>3, <2>6, <2>7 DEF Strike, Budgets, TypeOK
<1>35. ASSUME NEW l \in Launchers, WaitAgain(l) PROVE TypeOK'
  <2>1. sh' = [sh EXCEPT ![l].status = child[l].code] /\ child[l].code \in Codes
    BY <1>0, <1>35 DEF WaitAgain, GameRecord
  <2>2. sh' \in [Launchers -> ShellRecord]
    BY <1>0, <2>1 DEF ShellRecord
  <2> QED
    BY <1>35, <2>2 DEF WaitAgain, At, Budgets, TypeOK
<1>36. ASSUME NEW l \in Launchers, TruthKnown(l) PROVE TypeOK'
  <2>1. sh' = [sh EXCEPT ![l].pc = "end"]
    BY <1>36 DEF TruthKnown, Proceed
  <2>2. sh' \in [Launchers -> ShellRecord]
    BY <1>0, <2>1 DEF ShellRecord, Labels
  <2> QED
    BY <1>36, <2>2 DEF TruthKnown, At, Budgets, Proceed, TypeOK
<1>33. CASE UNCHANGED vars
  BY <1>33 DEF vars, TypeOK
<1> QED
  BY <1>1, <1>2, <1>3, <1>4, <1>5, <1>6, <1>7, <1>8, <1>9, <1>10, <1>11, <1>12, <1>13, <1>14, <1>15, <1>16,
     <1>17, <1>18, <1>19, <1>20, <1>21, <1>22, <1>23, <1>24, <1>25, <1>26, <1>27, <1>28, <1>29, <1>30, <1>31, <1>32, <1>33, <1>34, <1>35, <1>36
  DEF Next, Shell

-----------------------------------------------------------------------------
(* What a step leaves alone *)

\* A step of launcher l that neither opens nor closes descriptor 9, and enters
\* no command that LockInv speaks of except one where l owns the lock anyway.
LockAlone(l) ==
  /\ UNCHANGED <<tool, fds, lock>>
  /\ \A k \in Launchers \ {l} : sh'[k].pc = sh[k].pc
  /\ \/ sh'[l].pc = sh[l].pc
     \/ sh'[l].pc \notin Owning \cup {"start", "gone", "lock"}
     \/ sh'[l].pc \in Owning /\ sh[l].pc \in Owning

\* A step that signals nobody and leaves alone what is known of the game's pid.
PidAlone(l) ==
  /\ taken' = taken
  /\ \A k \in Launchers : child[k].pid \in Strangers => child'[k].pid \in Strangers
  /\ \A k \in Launchers \ {l} : sh'[k] = sh[k]
  /\ sh'[l].game_pid = sh[l].game_pid
  /\ sh'[l].starttime = sh[l].starttime
  /\ sh'[l].aim = sh[l].aim \/ sh'[l].aim = NoOne
  /\ sh'[l].pc \in BeforePid => sh[l].pc \in BeforePid

\* Steps of these two kinds keep the two invariants.
LEMMA LockFrame ==
  ASSUME LockInv, NEW l \in Launchers, LockAlone(l)
  PROVE  LockInv'
<1> SUFFICES ASSUME NEW k \in Launchers
             PROVE  /\ fds[k] \subseteq {"shell", "tool"}
                    /\ tool[k] <=> "tool" \in fds[k]
                    /\ tool[k] => lock = k
                    /\ lock = k => fds[k] # {}
                    /\ sh'[k].pc = "start" => fds[k] = {}
                    /\ sh'[k].pc = "gone" => "shell" \notin fds[k]
                    /\ sh'[k].pc = "lock" => "shell" \in fds[k]
                    /\ sh'[k].pc \in Owning => lock = k /\ "shell" \in fds[k]
  BY DEF LockInv, LockAlone
<1>1. CASE k = l
  BY <1>1 DEF LockInv, LockAlone, Owning
<1>2. CASE k # l
  BY <1>2 DEF LockInv, LockAlone, Owning
<1> QED
  BY <1>1, <1>2

LEMMA PidFrame ==
  ASSUME SignalInv, NEW l \in Launchers, PidAlone(l)
  PROVE  SignalInv'
<1>1. NoOne \notin Strangers
  BY DEF NoOne, Strangers
<1> SUFFICES ASSUME NEW k \in Launchers
             PROVE  /\ sh'[k].pc \in BeforePid =>
                         ~sh'[k].game_pid /\ sh'[k].starttime = NoOne /\ sh'[k].aim = NoOne
                    /\ \A who \in Strangers :
                         sh'[k].aim = who \/ <<k, who>> \in taken' =>
                           sh'[k].starttime \in Strangers /\ child'[k].pid \in Strangers
  BY DEF SignalInv
<1>2. CASE k = l
  BY <1>1, <1>2 DEF SignalInv, PidAlone
<1>3. CASE k # l
  BY <1>3 DEF SignalInv, PidAlone
<1> QED
  BY <1>2, <1>3

\* nxbootstrap_finish and exit leave the game and the other launchers alone.
LEMMA FinishEffect ==
  ASSUME TypeOK, NEW l \in Launchers, NEW status, FinishAndExit(l, status)
  PROVE  /\ sh'[l].pc \in {"pm", "exit"}
         /\ sh'[l].game_pid = sh[l].game_pid
         /\ sh'[l].starttime = sh[l].starttime /\ sh'[l].aim = sh[l].aim
         /\ \A k \in Launchers \ {l} : sh'[k] = sh[k]
<1>1. CASE sh[l].finished
  BY <1>1 DEF FinishAndExit, TypeOK, ShellRecord
<1>2. CASE ~sh[l].finished
  BY <1>2 DEF FinishAndExit, TypeOK, ShellRecord
<1> QED
  BY <1>1, <1>2

\* So does the trap of the time before the game.
LEMMA AbortEffect ==
  ASSUME TypeOK, NEW l \in Launchers, AbortTrap(l)
  PROVE  /\ sh'[l].pc \in {sh[l].pc, "pm", "exit"}
         /\ sh'[l].game_pid = sh[l].game_pid
         /\ sh'[l].starttime = sh[l].starttime /\ sh'[l].aim = sh[l].aim
         /\ \A k \in Launchers \ {l} : sh'[k] = sh[k]
<1>0. sh \in [Launchers -> ShellRecord]
  BY DEF TypeOK
<1>1. ASSUME NEW s \in ShellRecord
      PROVE  /\ [s EXCEPT !.due = FALSE].pc = s.pc
             /\ [s EXCEPT !.due = FALSE].game_pid = s.game_pid
             /\ [s EXCEPT !.due = FALSE].starttime = s.starttime /\ [s EXCEPT !.due = FALSE].aim = s.aim
  BY DEF ShellRecord
<1>2. ASSUME NEW s \in ShellRecord,
             NEW t, t = [s EXCEPT !.due = FALSE, !.aborting = TRUE, !.pc = "exit",
                                  !.status = Interrupted]
      PROVE  t.pc = "exit" /\ t.game_pid = s.game_pid /\ t.starttime = s.starttime /\ t.aim = s.aim
  BY <1>2 DEF ShellRecord
<1>3. ASSUME NEW s \in ShellRecord,
             NEW t, t = [s EXCEPT !.due = FALSE, !.aborting = TRUE,
                                  !.finished = TRUE, !.pc = "pm",
                                  !.status = Interrupted]
      PROVE  t.pc = "pm" /\ t.game_pid = s.game_pid /\ t.starttime = s.starttime /\ t.aim = s.aim
  BY <1>3 DEF ShellRecord
<1>4. \E t : /\ sh' = [sh EXCEPT ![l] = t]
             /\ \/ t = [sh[l] EXCEPT !.due = FALSE]
                \/ t = [sh[l] EXCEPT !.due = FALSE, !.aborting = TRUE,
                                     !.pc = "exit", !.status = Interrupted]
                \/ t = [sh[l] EXCEPT !.due = FALSE, !.aborting = TRUE,
                                     !.finished = TRUE, !.pc = "pm",
                                     !.status = Interrupted]
  BY DEF AbortTrap
<1>5. PICK t : /\ sh' = [sh EXCEPT ![l] = t]
               /\ \/ t = [sh[l] EXCEPT !.due = FALSE]
                  \/ t = [sh[l] EXCEPT !.due = FALSE, !.aborting = TRUE,
                                       !.pc = "exit", !.status = Interrupted]
                  \/ t = [sh[l] EXCEPT !.due = FALSE, !.aborting = TRUE,
                                       !.finished = TRUE, !.pc = "pm",
                                       !.status = Interrupted]
  BY <1>4
<1>6. sh'[l] = t /\ \A k \in Launchers \ {l} : sh'[k] = sh[k]
  BY <1>0, <1>5
<1>7. sh[l] \in ShellRecord
  BY <1>0
<1>8. /\ t.pc \in {sh[l].pc, "pm", "exit"}
      /\ t.game_pid = sh[l].game_pid
      /\ t.starttime = sh[l].starttime /\ t.aim = sh[l].aim
  <2>1. CASE t = [sh[l] EXCEPT !.due = FALSE]
    BY <1>1, <1>7, <2>1
  <2>2. CASE t = [sh[l] EXCEPT !.due = FALSE, !.aborting = TRUE,
                               !.pc = "exit", !.status = Interrupted]
    BY <1>2, <1>7, <2>2
  <2>3. CASE t = [sh[l] EXCEPT !.due = FALSE, !.aborting = TRUE,
                               !.finished = TRUE, !.pc = "pm",
                               !.status = Interrupted]
    BY <1>3, <1>7, <2>3
  <2> QED
    BY <1>5, <2>1, <2>2, <2>3
<1> QED
  BY <1>6, <1>8

\* Looking at the game before a signal: who is aimed at has the start time that
\* was recorded.
LEMMA SignalEffect ==
  ASSUME TypeOK, NEW l \in Launchers, NEW s \in ShellRecord, SignalChild(l, s)
  PROVE  /\ sh'[l].pc = s.pc /\ sh'[l].game_pid = s.game_pid
         /\ s.starttime # NoOne \/ ~s.game_pid => sh'[l].starttime = s.starttime
         /\ \A k \in Launchers \ {l} : sh'[k] = sh[k]
         /\ \/ sh'[l].aim = s.aim
            \/ /\ s.game_pid /\ sh'[l].aim = child[l].pid
               /\ sh'[l].starttime = child[l].pid
<1> DEFINE start == IF s.starttime = NoOne /\ s.game_pid
                      THEN child[l].pid ELSE s.starttime
<1>0. sh \in [Launchers -> ShellRecord] /\ child \in [Launchers -> GameRecord]
  BY DEF TypeOK
<1>1. CASE s.term_sent \/ ~s.game_pid
  BY <1>0, <1>1 DEF SignalChild
<1>2. CASE ~(s.term_sent \/ ~s.game_pid) /\ ~Alive(l, start)
  <2>1. sh' = [sh EXCEPT ![l] = [s EXCEPT !.starttime = start]]
    BY <1>2 DEF SignalChild
  <2>2. sh'[l] = [s EXCEPT !.starttime = start]
        /\ \A k \in Launchers \ {l} : sh'[k] = sh[k]
    BY <1>0, <2>1
  <2>3. /\ sh'[l].pc = s.pc /\ sh'[l].game_pid = s.game_pid
        /\ sh'[l].starttime = start /\ sh'[l].aim = s.aim
    BY <2>2 DEF ShellRecord
  <2> QED
    BY <2>1, <2>2, <2>3
<1>3. CASE ~(s.term_sent \/ ~s.game_pid) /\ Alive(l, start)
  <2>1. sh' = [sh EXCEPT ![l] = [s EXCEPT !.starttime = start, !.term_sent = TRUE,
                                          !.aim = child[l].pid]]
    BY <1>3 DEF SignalChild
  <2>2. sh'[l] = [s EXCEPT !.starttime = start, !.term_sent = TRUE, !.aim = child[l].pid]
        /\ \A k \in Launchers \ {l} : sh'[k] = sh[k]
    BY <1>0, <2>1
  <2>3. /\ sh'[l].pc = s.pc /\ sh'[l].game_pid = s.game_pid
        /\ sh'[l].starttime = start /\ sh'[l].aim = child[l].pid
    BY <2>2 DEF ShellRecord
  <2>4. start = child[l].pid
    BY <1>3 DEF Alive
  <2> QED
    BY <1>3, <2>2, <2>3, <2>4
<1> QED
  BY <1>1, <1>2, <1>3

\* That look leaves the invariant of the signals as it was.
LEMMA SignalKeeps ==
  ASSUME TypeOK, SignalInv, NEW l \in Launchers, NEW s \in ShellRecord,
         SignalChild(l, s), UNCHANGED <<child, taken>>, s.game_pid = sh[l].game_pid,
         s.starttime = sh[l].starttime, s.aim = sh[l].aim,
         s.pc \in BeforePid => sh[l].pc \in BeforePid
  PROVE  SignalInv'
<1> SUFFICES ASSUME NEW k \in Launchers
             PROVE  /\ sh'[k].pc \in BeforePid =>
                         ~sh'[k].game_pid /\ sh'[k].starttime = NoOne /\ sh'[k].aim = NoOne
                    /\ \A who \in Strangers :
                         sh'[k].aim = who \/ <<k, who>> \in taken =>
                           sh'[k].starttime \in Strangers /\ child[k].pid \in Strangers
  BY DEF SignalInv
<1>1. CASE k # l
  BY <1>1, SignalEffect DEF SignalInv
<1>2. CASE k = l
  <2>1. sh'[l].pc \in BeforePid =>
          ~sh'[l].game_pid /\ sh'[l].starttime = NoOne /\ sh'[l].aim = NoOne
    BY SignalEffect DEF SignalInv
  <2>2. ASSUME NEW who \in Strangers, sh'[l].aim = who \/ <<l, who>> \in taken
        PROVE  sh'[l].starttime \in Strangers /\ child[l].pid \in Strangers
    <3>1. NoOne \notin Strangers
      BY DEF NoOne, Strangers
    <3>2. CASE sh[l].aim = who \/ <<l, who>> \in taken
      BY <3>1, <3>2, SignalEffect DEF SignalInv
    <3>3. CASE ~(sh[l].aim = who \/ <<l, who>> \in taken)
      BY <2>2, <3>3, SignalEffect
    <3> QED
      BY <3>2, <3>3
  <2> QED
    BY <1>2, <2>1, <2>2
<1> QED
  BY <1>1, <1>2

\* What nxbootstrap_request_shutdown, the resend and an interrupted wait hand to
\* nxbootstrap_signal_child.
LEMMA Requests ==
  ASSUME TypeOK, NEW l \in Launchers, NEW s \in ShellRecord, RequestShutdown(l, s)
  PROVE  \E t \in ShellRecord :
           /\ SignalChild(l, t) /\ t.pc = s.pc /\ t.aim = s.aim
           /\ t.game_pid = s.game_pid /\ t.starttime = s.starttime
<1> DEFINE t == [s EXCEPT !.due = FALSE, !.shutdown = TRUE, !.count = s.count + 1]
<1>1. s.count + 1 \in Nat
  BY DEF ShellRecord
<1>2. t \in ShellRecord
  BY <1>1, ShellUpdates
<1>3. t.pc = s.pc /\ t.game_pid = s.game_pid /\ t.starttime = s.starttime /\ t.aim = s.aim
  BY DEF ShellRecord
<1>4. SignalChild(l, t)
  BY DEF RequestShutdown
<1> QED
  BY <1>2, <1>3, <1>4

\* Such a call keeps both invariants.
LEMMA SignalKeepsBoth ==
  ASSUME TypeOK, LockInv, SignalInv, NEW l \in Launchers,
         UNCHANGED <<child, tool, fds, lock, taken>>,
         \E t \in ShellRecord :
           /\ SignalChild(l, t) /\ t.pc \in {sh[l].pc, "wait", "waited"}
           /\ t.game_pid = sh[l].game_pid /\ t.starttime = sh[l].starttime /\ t.aim = sh[l].aim
  PROVE  LockInv' /\ SignalInv'
<1>1. PICK t \in ShellRecord :
           /\ SignalChild(l, t) /\ t.pc \in {sh[l].pc, "wait", "waited"}
           /\ t.game_pid = sh[l].game_pid /\ t.starttime = sh[l].starttime /\ t.aim = sh[l].aim
  OBVIOUS
<1>2. SignalInv'
  BY <1>1, SignalKeeps DEF BeforePid
<1>3. LockAlone(l)
  BY <1>1, SignalEffect DEF LockAlone, Owning
<1> QED
  BY <1>2, <1>3, LockFrame

\* When descriptor 9 is closed by a shell that is gone, or by a tool that ended,
\* the lock goes with the last of the two.
LEMMA ShellCloses ==
  ASSUME TypeOK, LockInv, NEW l \in Launchers, Closed(l, "shell"), UNCHANGED tool,
         sh'[l].pc = "gone", \A k \in Launchers \ {l} : sh'[k] = sh[k]
  PROVE  LockInv'
<1>1. /\ fds'[l] = fds[l] \ {"shell"}
      /\ \A k \in Launchers \ {l} : fds'[k] = fds[k]
  BY DEF Closed, TypeOK
<1>2. lock' = IF lock = l /\ fds[l] \subseteq {"shell"} THEN NoOne ELSE lock
  BY DEF Closed
<1>3. ASSUME NEW k \in Launchers \ {l}
      PROVE  (lock' = k) <=> (lock = k)
  BY <1>2, LauncherAssumption
<1>4. /\ fds'[l] \subseteq {"shell", "tool"}
      /\ tool[l] <=> "tool" \in fds'[l]
      /\ tool[l] => lock' = l
      /\ lock' = l => fds'[l] # {}
      /\ "shell" \notin fds'[l]
  BY <1>1, <1>2, LauncherAssumption DEF LockInv
<1> QED
  BY <1>1, <1>3, <1>4 DEF LockInv, Owning

LEMMA ToolCloses ==
  ASSUME TypeOK, LockInv, NEW l \in Launchers, Closed(l, "tool"),
         tool[l], tool' = [tool EXCEPT ![l] = FALSE],
         \A k \in Launchers \ {l} : sh'[k] = sh[k],
         \/ sh'[l].pc = sh[l].pc
         \/ sh'[l].pc \notin Owning \cup {"start", "gone", "lock"}
         \/ sh'[l].pc \in Owning /\ sh[l].pc \in Owning
  PROVE  LockInv'
<1>1. /\ fds'[l] = fds[l] \ {"tool"} /\ ~tool'[l]
      /\ \A k \in Launchers \ {l} : fds'[k] = fds[k] /\ tool'[k] = tool[k]
  BY DEF Closed, TypeOK
<1>2. lock' = IF lock = l /\ fds[l] \subseteq {"tool"} THEN NoOne ELSE lock
  BY DEF Closed
<1>3. ASSUME NEW k \in Launchers \ {l}
      PROVE  (lock' = k) <=> (lock = k)
  BY <1>2, LauncherAssumption DEF LockInv
<1>4. /\ fds'[l] \subseteq {"shell", "tool"}
      /\ "tool" \notin fds'[l]
      /\ lock' = l => fds'[l] # {}
      /\ "shell" \in fds[l] => "shell" \in fds'[l] /\ lock' = lock
      /\ "shell" \notin fds[l] => "shell" \notin fds'[l]
  BY <1>1, <1>2, LauncherAssumption DEF LockInv
<1>5. /\ sh'[l].pc = "start" => fds'[l] = {}
      /\ sh'[l].pc = "gone" => "shell" \notin fds'[l]
      /\ sh'[l].pc = "lock" => "shell" \in fds'[l]
      /\ sh'[l].pc \in Owning => lock' = l /\ "shell" \in fds'[l]
  BY <1>1, <1>4 DEF LockInv, Owning
<1>6. ASSUME NEW k \in Launchers \ {l}
      PROVE  /\ fds'[k] \subseteq {"shell", "tool"}
             /\ tool'[k] <=> "tool" \in fds'[k]
             /\ tool'[k] => lock' = k
             /\ lock' = k => fds'[k] # {}
             /\ sh'[k].pc = "start" => fds'[k] = {}
             /\ sh'[k].pc = "gone" => "shell" \notin fds'[k]
             /\ sh'[k].pc = "lock" => "shell" \in fds'[k]
             /\ sh'[k].pc \in Owning => lock' = k /\ "shell" \in fds'[k]
  BY <1>1, <1>3 DEF LockInv
<1> QED
  BY <1>1, <1>4, <1>5, <1>6 DEF LockInv

\* Every step keeps the lock with who holds the open file, and strangers spared.
LEMMA CoreStep ==
  TypeOK /\ LockInv /\ SignalInv /\ [Next]_vars => LockInv' /\ SignalInv'
<1> SUFFICES ASSUME TypeOK, LockInv, SignalInv, [Next]_vars
             PROVE  LockInv' /\ SignalInv'
  OBVIOUS
<1>0. /\ sh \in [Launchers -> ShellRecord]
      /\ child \in [Launchers -> GameRecord]
  BY DEF TypeOK
<1>1. ASSUME NEW l \in Launchers, PmDone(l) PROVE LockInv' /\ SignalInv'
  <2>1. /\ sh' = [sh EXCEPT ![l].pc = "exit"]
        /\ UNCHANGED <<child, tool, fds, lock, taken>>
    BY <1>1 DEF PmDone, Proceed, At
  <2>2. /\ sh'[l].pc = "exit" /\ sh'[l].game_pid = sh[l].game_pid /\ sh'[l].starttime = sh[l].starttime /\ sh'[l].aim = sh[l].aim
        /\ \A k \in Launchers \ {l} : sh'[k] = sh[k]
    BY <1>0, <2>1 DEF ShellRecord
  <2>3. LockAlone(l) /\ PidAlone(l)
    BY <2>1, <2>2 DEF LockAlone, PidAlone, Owning, BeforePid
  <2> QED
    BY <2>3, LockFrame, PidFrame
<1>2. ASSUME NEW l \in Launchers, Leave(l) PROVE LockInv' /\ SignalInv'
  <2>1. CASE sh[l].finished
    <3>1. /\ sh' = [sh EXCEPT ![l].pc = "gone"]
          /\ Closed(l, "shell") /\ UNCHANGED <<child, tool, taken>>
      BY <1>2, <2>1 DEF Leave
    <3>2. /\ sh'[l].pc = "gone" /\ \A k \in Launchers \ {l} : sh'[k] = sh[k]
          /\ sh'[l].game_pid = sh[l].game_pid /\ sh'[l].starttime = sh[l].starttime /\ sh'[l].aim = sh[l].aim
      BY <1>0, <3>1 DEF ShellRecord
    <3>3. PidAlone(l)
      BY <3>1, <3>2 DEF PidAlone, BeforePid
    <3> QED
      BY <3>1, <3>2, <3>3, ShellCloses, PidFrame
  <2>2. CASE ~sh[l].finished
    <3>1. FinishAndExit(l, sh[l].status) /\ UNCHANGED <<child, tool, fds, lock, taken>>
      BY <1>2, <2>2 DEF Leave
    <3>2. LockAlone(l)
      BY <3>1, FinishEffect DEF LockAlone, Owning
    <3>3. PidAlone(l)
      BY <3>1, FinishEffect DEF PidAlone, BeforePid
    <3> QED
      BY <3>2, <3>3, LockFrame, PidFrame
  <2> QED
    BY <2>1, <2>2
<1>3. ASSUME NEW l \in Launchers, AbortTrap(l) PROVE LockInv' /\ SignalInv'
  <2>1. UNCHANGED <<child, tool, fds, lock, taken>>
    BY <1>3 DEF AbortTrap
  <2>2. LockAlone(l)
    BY <1>3, <2>1, AbortEffect DEF LockAlone, Owning
  <2>3. PidAlone(l)
    BY <1>3, <2>1, AbortEffect DEF PidAlone, BeforePid
  <2> QED
    BY <2>2, <2>3, LockFrame, PidFrame
<1>4. ASSUME NEW l \in Launchers, Prepare(l) PROVE LockInv' /\ SignalInv'
  <2>1. /\ sh' = [sh EXCEPT ![l].pc = "lock"]
        /\ sh[l].pc = "start" /\ UNCHANGED <<child, taken>>
        /\ fds' = [fds EXCEPT ![l] = {"shell"}] /\ UNCHANGED <<tool, lock>>
    BY <1>4 DEF Prepare, At
  <2>2. /\ sh'[l].pc = "lock"
        /\ \A k \in Launchers \ {l} : sh'[k] = sh[k]
        /\ sh'[l].game_pid = sh[l].game_pid /\ sh'[l].starttime = sh[l].starttime /\ sh'[l].aim = sh[l].aim
    BY <1>0, <2>1 DEF ShellRecord
  <2>3. PidAlone(l)
    BY <2>1, <2>2 DEF PidAlone, BeforePid
  <2>4. \A k \in Launchers \ {l} : fds'[k] = fds[k] /\ tool'[k] = tool[k]
    BY <2>1 DEF TypeOK
  <2>5. fds'[l] = {"shell"} /\ tool'[l] = tool[l]
    BY <2>1 DEF TypeOK
  <2>6. LockInv'
    BY <2>1, <2>2, <2>4, <2>5, LauncherAssumption DEF LockInv, Owning
  <2> QED
    BY <2>3, <2>6, PidFrame
<1>5. ASSUME NEW l \in Launchers, PrepareFails(l) PROVE LockInv' /\ SignalInv'
  <2>1. /\ FinishAndExit(l, "failed") \/ sh' = [sh EXCEPT ![l].pc = "exit", ![l].status = "failed"]
        /\ UNCHANGED <<child, tool, fds, lock, taken>>
        /\ sh[l].pc = "start"
    BY <1>5 DEF PrepareFails, Refuse, Proceed, At
  <2>2. CASE FinishAndExit(l, "failed")
    <3>1. LockAlone(l)
      BY <2>1, <2>2, FinishEffect DEF LockAlone, Owning
    <3>2. PidAlone(l)
      BY <2>1, <2>2, FinishEffect DEF PidAlone, BeforePid
    <3> QED
      BY <3>1, <3>2, LockFrame, PidFrame
  <2>3. CASE sh' = [sh EXCEPT ![l].pc = "exit", ![l].status = "failed"]
    <3>1. /\ sh'[l].pc = "exit" /\ \A k \in Launchers \ {l} : sh'[k] = sh[k]
          /\ sh'[l].game_pid = sh[l].game_pid /\ sh'[l].starttime = sh[l].starttime /\ sh'[l].aim = sh[l].aim
      BY <1>0, <2>3 DEF ShellRecord
    <3>2. LockAlone(l)
      BY <2>1, <3>1 DEF LockAlone, Owning
    <3>3. PidAlone(l)
      BY <2>1, <3>1 DEF PidAlone, BeforePid
    <3> QED
      BY <3>2, <3>3, LockFrame, PidFrame
  <2> QED
    BY <2>1, <2>2, <2>3
<1>6. ASSUME NEW l \in Launchers, TakeLock(l) PROVE LockInv' /\ SignalInv'
  <2>1. /\ sh' = [sh EXCEPT ![l].pc = "dialog"]
        /\ sh[l].pc = "lock" /\ UNCHANGED <<child, taken>>
        /\ lock = NoOne /\ lock' = l /\ UNCHANGED <<tool, fds>>
    BY <1>6 DEF TakeLock, At
  <2>2. /\ sh'[l].pc = "dialog"
        /\ \A k \in Launchers \ {l} : sh'[k] = sh[k]
        /\ sh'[l].game_pid = sh[l].game_pid /\ sh'[l].starttime = sh[l].starttime /\ sh'[l].aim = sh[l].aim
    BY <1>0, <2>1 DEF ShellRecord
  <2>3. PidAlone(l)
    BY <2>1, <2>2 DEF PidAlone, BeforePid
  <2>4. \A k \in Launchers \ {l} : fds'[k] = fds[k] /\ tool'[k] = tool[k]
    BY <2>1 DEF TypeOK
  <2>5. fds'[l] = fds[l] /\ tool'[l] = tool[l]
    BY <2>1 DEF TypeOK
  <2>6. LockInv'
    BY <2>1, <2>2, <2>4, <2>5, LauncherAssumption DEF LockInv, Owning
  <2> QED
    BY <2>3, <2>6, PidFrame
<1>7. ASSUME NEW l \in Launchers, LockBusy(l) PROVE LockInv' /\ SignalInv'
  <2>1. /\ \E status : FinishAndExit(l, status)
        /\ UNCHANGED <<child, tool, fds, lock, taken>>
    BY <1>7 DEF LockBusy, Refuse
  <2>2. LockAlone(l)
    BY <2>1, FinishEffect DEF LockAlone, Owning
  <2>3. PidAlone(l)
    BY <2>1, FinishEffect DEF PidAlone, BeforePid
  <2> QED
    BY <2>2, <2>3, LockFrame, PidFrame
<1>8. ASSUME NEW l \in Launchers, HandOff(l) PROVE LockInv' /\ SignalInv'
  <2>1. /\ FinishAndExit(l, "failed") \/ sh' = [sh EXCEPT ![l].pc = "extract"]
        /\ UNCHANGED <<child, tool, fds, lock, taken>>
        /\ sh[l].pc = "dialog"
    BY <1>8 DEF HandOff, Refuse, Proceed, At
  <2>2. CASE FinishAndExit(l, "failed")
    <3>1. LockAlone(l)
      BY <2>1, <2>2, FinishEffect DEF LockAlone, Owning
    <3>2. PidAlone(l)
      BY <2>1, <2>2, FinishEffect DEF PidAlone, BeforePid
    <3> QED
      BY <3>1, <3>2, LockFrame, PidFrame
  <2>3. CASE sh' = [sh EXCEPT ![l].pc = "extract"]
    <3>1. /\ sh'[l].pc = "extract" /\ \A k \in Launchers \ {l} : sh'[k] = sh[k]
          /\ sh'[l].game_pid = sh[l].game_pid /\ sh'[l].starttime = sh[l].starttime /\ sh'[l].aim = sh[l].aim
      BY <1>0, <2>3 DEF ShellRecord
    <3>2. LockAlone(l)
      BY <2>1, <3>1 DEF LockAlone, Owning
    <3>3. PidAlone(l)
      BY <2>1, <3>1 DEF PidAlone, BeforePid
    <3> QED
      BY <3>2, <3>3, LockFrame, PidFrame
  <2> QED
    BY <2>1, <2>2, <2>3
<1>9. ASSUME NEW l \in Launchers, StartTool(l) PROVE LockInv' /\ SignalInv'
  <2>1. /\ sh' = [sh EXCEPT ![l].pc = IF @ = "extract" THEN "extracting" ELSE "splashing"]
        /\ sh[l].pc \in {"extract", "splash"} /\ UNCHANGED <<child, taken>>
        /\ fds' = [fds EXCEPT ![l] = @ \cup {"tool"}]
        /\ tool' = [tool EXCEPT ![l] = TRUE] /\ UNCHANGED lock
    BY <1>9 DEF StartTool, At
  <2>2. /\ sh'[l].pc = IF sh[l].pc = "extract" THEN "extracting" ELSE "splashing"
        /\ \A k \in Launchers \ {l} : sh'[k] = sh[k]
        /\ sh'[l].game_pid = sh[l].game_pid /\ sh'[l].starttime = sh[l].starttime /\ sh'[l].aim = sh[l].aim
    BY <1>0, <2>1 DEF ShellRecord
  <2>3. PidAlone(l)
    BY <2>1, <2>2 DEF PidAlone, BeforePid
  <2>4. \A k \in Launchers \ {l} : fds'[k] = fds[k] /\ tool'[k] = tool[k]
    BY <2>1 DEF TypeOK
  <2>5. fds'[l] = fds[l] \cup {"tool"} /\ tool'[l] = TRUE
    BY <2>1 DEF TypeOK
  <2>6. LockInv'
    BY <2>1, <2>2, <2>4, <2>5, LauncherAssumption DEF LockInv, Owning
  <2> QED
    BY <2>3, <2>6, PidFrame
<1>10. ASSUME NEW l \in Launchers, Gate(l) PROVE LockInv' /\ SignalInv'
  <2>1. /\ FinishAndExit(l, "failed") \/ sh' = [sh EXCEPT ![l].pc = "splash"]
        /\ UNCHANGED <<child, tool, fds, lock, taken>>
        /\ sh[l].pc = "gate"
    BY <1>10 DEF Gate, Refuse, Proceed, At
  <2>2. CASE FinishAndExit(l, "failed")
    <3>1. LockAlone(l)
      BY <2>1, <2>2, FinishEffect DEF LockAlone, Owning
    <3>2. PidAlone(l)
      BY <2>1, <2>2, FinishEffect DEF PidAlone, BeforePid
    <3> QED
      BY <3>1, <3>2, LockFrame, PidFrame
  <2>3. CASE sh' = [sh EXCEPT ![l].pc = "splash"]
    <3>1. /\ sh'[l].pc = "splash" /\ \A k \in Launchers \ {l} : sh'[k] = sh[k]
          /\ sh'[l].game_pid = sh[l].game_pid /\ sh'[l].starttime = sh[l].starttime /\ sh'[l].aim = sh[l].aim
      BY <1>0, <2>3 DEF ShellRecord
    <3>2. LockAlone(l)
      BY <2>1, <3>1 DEF LockAlone, Owning
    <3>3. PidAlone(l)
      BY <2>1, <3>1 DEF PidAlone, BeforePid
    <3> QED
      BY <3>2, <3>3, LockFrame, PidFrame
  <2> QED
    BY <2>1, <2>2, <2>3
<1>11. ASSUME NEW l \in Launchers, ArmTraps(l) PROVE LockInv' /\ SignalInv'
  <2>1. /\ sh' = [sh EXCEPT ![l].pc = "armed", ![l].trap = "forward"]
        /\ UNCHANGED <<child, tool, fds, lock, taken>> /\ sh[l].pc = "adapter"
    BY <1>11 DEF ArmTraps, Proceed, At
  <2>2. /\ sh'[l].pc = "armed" /\ sh'[l].game_pid = sh[l].game_pid /\ sh'[l].starttime = sh[l].starttime /\ sh'[l].aim = sh[l].aim
        /\ \A k \in Launchers \ {l} : sh'[k] = sh[k]
    BY <1>0, <2>1 DEF ShellRecord
  <2>3. LockAlone(l) /\ PidAlone(l)
    BY <2>1, <2>2 DEF LockAlone, PidAlone, Owning, BeforePid
  <2> QED
    BY <2>3, LockFrame, PidFrame
<1>12. ASSUME NEW l \in Launchers, Fork(l) PROVE LockInv' /\ SignalInv'
  <2>1. /\ sh' = [sh EXCEPT ![l].pc = "forked"] /\ sh[l].pc = "armed"
        /\ child' = [child EXCEPT ![l].state = "running", ![l].pid = "game"]
        /\ UNCHANGED <<tool, fds, lock, taken>>
    BY <1>12 DEF Fork, At
  <2>2. /\ sh'[l].pc = "forked" /\ sh'[l].game_pid = sh[l].game_pid /\ sh'[l].starttime = sh[l].starttime /\ sh'[l].aim = sh[l].aim
        /\ \A k \in Launchers \ {l} : sh'[k] = sh[k] /\ child'[k] = child[k]
    BY <1>0, <2>1 DEF ShellRecord
  <2>3. LockAlone(l)
    BY <2>1, <2>2 DEF LockAlone, Owning
  <2>4. /\ \A who \in Strangers : <<l, who>> \notin taken
        /\ sh[l].aim = NoOne /\ NoOne \notin Strangers
    BY <2>1 DEF SignalInv, BeforePid, NoOne, Strangers
  <2>5. SignalInv'
    <3>1. sh[l].pc \in BeforePid /\ taken' = taken
      BY <2>1 DEF BeforePid
    <3>2. \A k \in Launchers \ {l} : sh'[k] = sh[k] /\ child'[k] = child[k]
      BY <2>2
    <3>3. /\ ~sh'[l].game_pid /\ sh'[l].starttime = NoOne /\ sh'[l].aim = NoOne
          /\ \A who \in Strangers : ~(sh'[l].aim = who \/ <<l, who>> \in taken')
      BY <2>2, <2>4, <3>1 DEF SignalInv
    <3> QED
      BY <3>1, <3>2, <3>3 DEF SignalInv
  <2> QED
    BY <2>3, <2>5, LockFrame
<1>13. ASSUME NEW l \in Launchers, KnowPid(l) PROVE LockInv' /\ SignalInv'
  <2>1. /\ sh' = [sh EXCEPT ![l].pc = "launched", ![l].game_pid = TRUE]
        /\ UNCHANGED <<child, tool, fds, lock, taken>>
    BY <1>13 DEF KnowPid
  <2>2. /\ sh'[l].pc = "launched" /\ sh'[l].starttime = sh[l].starttime /\ sh'[l].aim = sh[l].aim
        /\ \A k \in Launchers \ {l} : sh'[k] = sh[k]
    BY <1>0, <2>1 DEF ShellRecord
  <2>3. LockAlone(l)
    BY <2>1, <2>2 DEF LockAlone, Owning
  <2>4. SignalInv'
    <3>1. \A k \in Launchers \ {l} : sh'[k] = sh[k]
      BY <2>2
    <3>2. child' = child /\ taken' = taken /\ sh'[l].pc \notin BeforePid
      BY <2>1, <2>2 DEF BeforePid
    <3>3. ASSUME NEW who \in Strangers, sh'[l].aim = who \/ <<l, who>> \in taken
          PROVE  sh'[l].starttime \in Strangers /\ child[l].pid \in Strangers
      BY <2>2, <3>3 DEF SignalInv
    <3> QED
      BY <3>1, <3>2, <3>3 DEF SignalInv
  <2> QED
    BY <2>3, <2>4, LockFrame
<1>14. ASSUME NEW l \in Launchers, CaptureStart(l) PROVE LockInv' /\ SignalInv'
  <2>1. /\ sh' = [sh EXCEPT ![l].pc = "captured", ![l].starttime = child[l].pid]
        /\ UNCHANGED <<child, tool, fds, lock, taken>>
    BY <1>14 DEF CaptureStart
  <2>2. /\ sh'[l].pc = "captured" /\ sh'[l].starttime = child[l].pid /\ sh'[l].aim = sh[l].aim
        /\ \A k \in Launchers \ {l} : sh'[k] = sh[k]
    BY <1>0, <2>1 DEF ShellRecord
  <2>3. LockAlone(l)
    BY <2>1, <2>2 DEF LockAlone, Owning
  <2>4. SignalInv'
    <3>1. \A k \in Launchers \ {l} : sh'[k] = sh[k]
      BY <2>2
    <3>2. child' = child /\ taken' = taken /\ sh'[l].pc \notin BeforePid
      BY <2>1, <2>2 DEF BeforePid
    <3>3. ASSUME NEW who \in Strangers, sh'[l].aim = who \/ <<l, who>> \in taken
          PROVE  sh'[l].starttime \in Strangers /\ child[l].pid \in Strangers
      BY <2>2, <3>3 DEF SignalInv
    <3> QED
      BY <3>1, <3>2, <3>3 DEF SignalInv
  <2> QED
    BY <2>3, <2>4, LockFrame
<1>15. ASSUME NEW l \in Launchers, ForwardTrap(l) PROVE LockInv' /\ SignalInv'
  <2>1. RequestShutdown(l, sh[l]) /\ UNCHANGED <<child, tool, fds, lock, taken>>
    BY <1>15 DEF ForwardTrap
  <2>2. sh[l] \in ShellRecord
    BY <1>0
  <2> QED
    BY <2>1, <2>2, Requests, SignalKeepsBoth
<1>16. ASSUME NEW l \in Launchers, Resend(l) PROVE LockInv' /\ SignalInv'
  <2> DEFINE s == [sh[l] EXCEPT !.pc = "wait"]
  <2>1. /\ \/ SignalChild(l, s)
           \/ sh' = [sh EXCEPT ![l].pc = "wait"]
        /\ UNCHANGED <<child, tool, fds, lock, taken>>
    BY <1>16 DEF Resend
  <2>2. s \in ShellRecord
    BY <1>0 DEF ShellRecord, Labels
  <2>3. s.pc = "wait" /\ s.game_pid = sh[l].game_pid /\ s.starttime = sh[l].starttime /\ s.aim = sh[l].aim
    BY <1>0 DEF ShellRecord
  <2>4. CASE SignalChild(l, s)
    <3> HIDE DEF s
    <3> QED
      BY <2>1, <2>2, <2>3, <2>4, SignalKeepsBoth
  <2>5. CASE sh' = [sh EXCEPT ![l].pc = "wait"]
    <3>1. sh'[l] = s /\ \A k \in Launchers \ {l} : sh'[k] = sh[k]
      BY <1>0, <2>5
    <3>2. LockAlone(l)
      BY <2>1, <2>3, <3>1 DEF LockAlone, Owning
    <3>3. PidAlone(l)
      BY <2>1, <2>3, <2>5, <3>1 DEF PidAlone, BeforePid
    <3> QED
      BY <3>2, <3>3, LockFrame, PidFrame
  <2> QED
    BY <2>1, <2>4, <2>5
<1>17. ASSUME NEW l \in Launchers, WaitReturns(l) PROVE LockInv' /\ SignalInv'
  <2>1. /\ sh' = [sh EXCEPT ![l].pc = "waited", ![l].status = child[l].code]
        /\ Collect(l) /\ UNCHANGED <<tool, fds, lock, taken>>
    BY <1>17 DEF WaitReturns
  <2>2. /\ sh'[l].pc = "waited" /\ sh'[l].game_pid = sh[l].game_pid /\ sh'[l].starttime = sh[l].starttime /\ sh'[l].aim = sh[l].aim
        /\ \A k \in Launchers \ {l} : sh'[k] = sh[k]
    BY <1>0, <2>1 DEF ShellRecord
  <2>3. \A k \in Launchers : child[k].pid \in Strangers => child'[k].pid \in Strangers
    BY <1>0, <2>1 DEF Collect, GameRecord
  <2>4. LockAlone(l)
    BY <2>1, <2>2 DEF LockAlone, Owning
  <2>5. PidAlone(l)
    BY <2>1, <2>2, <2>3 DEF PidAlone, BeforePid
  <2> QED
    BY <2>4, <2>5, LockFrame, PidFrame
<1>18. ASSUME NEW l \in Launchers, WaitInterrupted(l) PROVE LockInv' /\ SignalInv'
  <2> DEFINE s == [sh[l] EXCEPT !.pc = "waited", !.status = Interrupted]
  <2>1. RequestShutdown(l, s) /\ UNCHANGED <<child, tool, fds, lock, taken>>
    BY <1>18 DEF WaitInterrupted
  <2>2. s \in ShellRecord
    BY <1>0, ShellUpdates DEF Labels, Codes
  <2>3. s.pc = "waited" /\ s.game_pid = sh[l].game_pid /\ s.starttime = sh[l].starttime /\ s.aim = sh[l].aim
    BY <1>0 DEF ShellRecord
  <2> HIDE DEF s
  <2> QED
    BY <2>1, <2>2, <2>3, Requests, SignalKeepsBoth
<1>19. ASSUME NEW l \in Launchers, NoShutdown(l) PROVE LockInv' /\ SignalInv'
  <2>1. /\ sh' = [sh EXCEPT ![l].pc = "again"]
        /\ UNCHANGED <<child, tool, fds, lock, taken>>
    BY <1>19 DEF NoShutdown, Proceed, At
  <2>2. /\ sh'[l].pc = "again" /\ sh'[l].game_pid = sh[l].game_pid /\ sh'[l].starttime = sh[l].starttime /\ sh'[l].aim = sh[l].aim
        /\ \A k \in Launchers \ {l} : sh'[k] = sh[k]
    BY <1>0, <2>1 DEF ShellRecord
  <2>3. LockAlone(l) /\ PidAlone(l)
    BY <2>1, <2>2 DEF LockAlone, PidAlone, Owning, BeforePid
  <2> QED
    BY <2>3, LockFrame, PidFrame
<1>20. ASSUME NEW l \in Launchers, EnterGrace(l) PROVE LockInv' /\ SignalInv'
  <2>1. /\ sh' = [sh EXCEPT ![l].pc = "grace", ![l].trap = "ignore", ![l].ticks = Ticks]
        /\ UNCHANGED <<child, tool, fds, lock, taken>>
    BY <1>20 DEF EnterGrace, Proceed, At
  <2>2. /\ sh'[l].pc = "grace" /\ sh'[l].game_pid = sh[l].game_pid /\ sh'[l].starttime = sh[l].starttime /\ sh'[l].aim = sh[l].aim
        /\ \A k \in Launchers \ {l} : sh'[k] = sh[k]
    BY <1>0, <2>1 DEF ShellRecord
  <2>3. LockAlone(l) /\ PidAlone(l)
    BY <2>1, <2>2 DEF LockAlone, PidAlone, Owning, BeforePid
  <2> QED
    BY <2>3, LockFrame, PidFrame
<1>21. ASSUME NEW l \in Launchers, Tick(l) PROVE LockInv' /\ SignalInv'
  <2>1. /\ sh' = [sh EXCEPT ![l].ticks = @ - 1]
        /\ UNCHANGED <<child, tool, fds, lock, taken>>
    BY <1>21 DEF Tick, Proceed, At
  <2>2. /\ sh'[l].pc = sh[l].pc /\ sh'[l].game_pid = sh[l].game_pid /\ sh'[l].starttime = sh[l].starttime /\ sh'[l].aim = sh[l].aim
        /\ \A k \in Launchers \ {l} : sh'[k] = sh[k]
    BY <1>0, <2>1 DEF ShellRecord
  <2>3. LockAlone(l) /\ PidAlone(l)
    BY <2>1, <2>2 DEF LockAlone, PidAlone, Owning, BeforePid
  <2> QED
    BY <2>3, LockFrame, PidFrame
<1>22. ASSUME NEW l \in Launchers, GraceOver(l) PROVE LockInv' /\ SignalInv'
  <2>1. /\ sh' = [sh EXCEPT ![l].pc = "kill"]
        /\ UNCHANGED <<child, tool, fds, lock, taken>>
    BY <1>22 DEF GraceOver, Proceed, At
  <2>2. /\ sh'[l].pc = "kill" /\ sh'[l].game_pid = sh[l].game_pid /\ sh'[l].starttime = sh[l].starttime /\ sh'[l].aim = sh[l].aim
        /\ \A k \in Launchers \ {l} : sh'[k] = sh[k]
    BY <1>0, <2>1 DEF ShellRecord
  <2>3. LockAlone(l) /\ PidAlone(l)
    BY <2>1, <2>2 DEF LockAlone, PidAlone, Owning, BeforePid
  <2> QED
    BY <2>3, LockFrame, PidFrame
<1>23. ASSUME NEW l \in Launchers, Kill(l) PROVE LockInv' /\ SignalInv'
  <2>1. PICK o : /\ sh' = [sh EXCEPT ![l].pc = "rewait", ![l].budget = sh[l].count, ![l].aim = o]
                 /\ o # NoOne => o = child[l].pid /\ child[l].pid = sh[l].starttime
                 /\ UNCHANGED <<child, tool, fds, lock, taken>>
    BY <1>23 DEF Kill, Alive
  <2>2. /\ sh'[l].pc = "rewait" /\ sh'[l].starttime = sh[l].starttime /\ sh'[l].aim = o
        /\ \A k \in Launchers \ {l} : sh'[k] = sh[k]
    BY <1>0, <2>1 DEF ShellRecord
  <2>3. LockAlone(l)
    BY <2>1, <2>2 DEF LockAlone, Owning
  <2>4. SignalInv'
    <3>1. NoOne \notin Strangers /\ sh'[l].pc \notin BeforePid
      BY <2>2 DEF NoOne, Strangers, BeforePid
    <3> QED
      BY <2>1, <2>2, <3>1 DEF SignalInv
  <2> QED
    BY <2>3, <2>4, LockFrame
<1>24. ASSUME NEW l \in Launchers, Rewait(l) PROVE LockInv' /\ SignalInv'
  <2>1. /\ sh' = [sh EXCEPT ![l].budget = @ - 1, ![l].status = child[l].code]
        /\ Collect(l) /\ UNCHANGED <<tool, fds, lock, taken>>
    BY <1>24 DEF Rewait
  <2>2. /\ sh'[l].pc = sh[l].pc /\ sh'[l].game_pid = sh[l].game_pid /\ sh'[l].starttime = sh[l].starttime /\ sh'[l].aim = sh[l].aim
        /\ \A k \in Launchers \ {l} : sh'[k] = sh[k]
    BY <1>0, <2>1 DEF ShellRecord
  <2>3. \A k \in Launchers : child[k].pid \in Strangers => child'[k].pid \in Strangers
    BY <1>0, <2>1 DEF Collect, GameRecord
  <2>4. LockAlone(l)
    BY <2>1, <2>2 DEF LockAlone, Owning
  <2>5. PidAlone(l)
    BY <2>1, <2>2, <2>3 DEF PidAlone, BeforePid
  <2> QED
    BY <2>4, <2>5, LockFrame, PidFrame
<1>25. ASSUME NEW l \in Launchers, RewaitDone(l) PROVE LockInv' /\ SignalInv'
  <2>1. /\ sh' = [sh EXCEPT ![l].pc = "end"]
        /\ UNCHANGED <<child, tool, fds, lock, taken>>
    BY <1>25 DEF RewaitDone, Proceed, At
  <2>2. /\ sh'[l].pc = "end" /\ sh'[l].game_pid = sh[l].game_pid /\ sh'[l].starttime = sh[l].starttime /\ sh'[l].aim = sh[l].aim
        /\ \A k \in Launchers \ {l} : sh'[k] = sh[k]
    BY <1>0, <2>1 DEF ShellRecord
  <2>3. LockAlone(l) /\ PidAlone(l)
    BY <2>1, <2>2 DEF LockAlone, PidAlone, Owning, BeforePid
  <2> QED
    BY <2>3, LockFrame, PidFrame
<1>26. ASSUME NEW l \in Launchers, EndOfGame(l) PROVE LockInv' /\ SignalInv'
  <2>1. /\ \E status : FinishAndExit(l, status)
        /\ UNCHANGED <<child, tool, fds, lock, taken>>
    BY <1>26 DEF EndOfGame, Refuse
  <2>2. LockAlone(l)
    BY <2>1, FinishEffect DEF LockAlone, Owning
  <2>3. PidAlone(l)
    BY <2>1, FinishEffect DEF PidAlone, BeforePid
  <2> QED
    BY <2>2, <2>3, LockFrame, PidFrame
<1>27. ASSUME NEW l \in Launchers, ToolEnds(l) PROVE LockInv' /\ SignalInv'
  <2>1. /\ tool[l] /\ tool' = [tool EXCEPT ![l] = FALSE] /\ Closed(l, "tool")
        /\ UNCHANGED <<child, taken>>
        /\ \/ UNCHANGED sh
           \/ FinishAndExit(l, "failed")
           \/ /\ sh[l].pc \in Foreground
              /\ sh' = [sh EXCEPT ![l].pc =
                          IF @ = "extracting" THEN "gate" ELSE "adapter"]
    BY <1>27 DEF ToolEnds
  <2>2. /\ \A k \in Launchers \ {l} : sh'[k] = sh[k]
        /\ sh'[l].game_pid = sh[l].game_pid /\ sh'[l].starttime = sh[l].starttime /\ sh'[l].aim = sh[l].aim
        /\ \/ sh'[l].pc = sh[l].pc
           \/ sh'[l].pc \in {"pm", "exit"}
           \/ sh'[l].pc = "adapter" /\ sh[l].pc \in Foreground
           \/ sh'[l].pc = "gate" /\ sh[l].pc = "extracting"
    <3>1. CASE UNCHANGED sh
      BY <3>1
    <3>2. CASE FinishAndExit(l, "failed")
      BY <3>2, FinishEffect
    <3>3. CASE /\ sh[l].pc \in Foreground
               /\ sh' = [sh EXCEPT ![l].pc =
                           IF @ = "extracting" THEN "gate" ELSE "adapter"]
      BY <1>0, <3>3 DEF ShellRecord
    <3> QED
      BY <2>1, <3>1, <3>2, <3>3
  <2>3. LockInv'
    BY <2>1, <2>2, ToolCloses DEF Owning
  <2>4. sh'[l].pc \in BeforePid => sh[l].pc \in BeforePid
    BY <2>1, <2>2 DEF BeforePid, Foreground
  <2>5. PidAlone(l)
    BY <2>1, <2>2, <2>4 DEF PidAlone
  <2> QED
    BY <2>3, <2>5, PidFrame
<1>28. ASSUME NEW l \in Launchers, GameEnds(l) PROVE LockInv' /\ SignalInv'
  <2>1. /\ UNCHANGED <<sh, tool, taken>> /\ Closed(l, "game")
        /\ \E code : child' = [child EXCEPT ![l].state = "zombie", ![l].code = code]
    BY <1>28 DEF GameEnds
  <2>2. fds' = fds /\ lock' = lock
    BY <2>1 DEF Closed, LockInv, TypeOK
  <2>3. \A k \in Launchers : child'[k].pid = child[k].pid
    BY <1>0, <2>1 DEF GameRecord
  <2>4. LockAlone(l)
    BY <2>1, <2>2 DEF LockAlone
  <2>5. PidAlone(l)
    BY <2>1, <2>3 DEF PidAlone
  <2> QED
    BY <2>4, <2>5, LockFrame, PidFrame
<1>29. ASSUME NEW l \in Launchers, Reap(l) PROVE LockInv' /\ SignalInv'
  <2>1. /\ UNCHANGED <<sh, tool, fds, lock, taken>>
        /\ Collect(l)
    BY <1>29 DEF Reap
  <2>2. \A k \in Launchers : child[k].pid \in Strangers => child'[k].pid \in Strangers
    BY <1>0, <2>1 DEF Collect, GameRecord
  <2>3. LockAlone(l) /\ PidAlone(l)
    BY <2>1, <2>2 DEF LockAlone, PidAlone
  <2> QED
    BY <2>3, LockFrame, PidFrame
<1>30. ASSUME NEW l \in Launchers, PidReused(l) PROVE LockInv' /\ SignalInv'
  <2>1. /\ UNCHANGED <<sh, tool, fds, lock, taken>>
        /\ \E o \in Strangers : child' = [child EXCEPT ![l].pid = o]
    BY <1>30 DEF PidReused, Strangers
  <2>2. \A k \in Launchers : child[k].pid \in Strangers => child'[k].pid \in Strangers
    BY <1>0, <2>1 DEF GameRecord
  <2>3. LockAlone(l) /\ PidAlone(l)
    BY <2>1, <2>2 DEF LockAlone, PidAlone
  <2> QED
    BY <2>3, LockFrame, PidFrame
<1>31. ASSUME NEW l \in Launchers, Signal(l) PROVE LockInv' /\ SignalInv'
  <2>1. /\ sh' = [sh EXCEPT ![l].due = TRUE]
        /\ UNCHANGED <<child, tool, fds, lock, taken>>
    BY <1>31 DEF Signal, Proceed, At
  <2>2. /\ sh'[l].pc = sh[l].pc /\ sh'[l].game_pid = sh[l].game_pid /\ sh'[l].starttime = sh[l].starttime /\ sh'[l].aim = sh[l].aim
        /\ \A k \in Launchers \ {l} : sh'[k] = sh[k]
    BY <1>0, <2>1 DEF ShellRecord
  <2>3. LockAlone(l) /\ PidAlone(l)
    BY <2>1, <2>2 DEF LockAlone, PidAlone, Owning, BeforePid
  <2> QED
    BY <2>3, LockFrame, PidFrame
<1>32. ASSUME NEW l \in Launchers, KillLauncher(l) PROVE LockInv' /\ SignalInv'
  <2>1. /\ sh' = [sh EXCEPT ![l].pc = "gone", ![l].due = FALSE, ![l].aim = NoOne]
        /\ Closed(l, "shell") /\ UNCHANGED <<child, tool, taken>>
    BY <1>32 DEF KillLauncher
  <2>2. /\ sh'[l].pc = "gone" /\ \A k \in Launchers \ {l} : sh'[k] = sh[k]
        /\ sh'[l].game_pid = sh[l].game_pid /\ sh'[l].starttime = sh[l].starttime /\ sh'[l].aim = NoOne
    BY <1>0, <2>1 DEF ShellRecord
  <2>3. PidAlone(l)
    BY <2>1, <2>2 DEF PidAlone, BeforePid
  <2> QED
    BY <2>1, <2>2, <2>3, ShellCloses, PidFrame
<1>34. ASSUME NEW l \in Launchers, Strike(l) PROVE LockInv' /\ SignalInv'
  <2>1. /\ sh' = [sh EXCEPT ![l].aim = NoOne] /\ UNCHANGED <<tool, fds, lock>>
        /\ taken' = taken \cup {<<l, sh[l].aim>>}
        /\ \/ child' = child
           \/ child' = [child EXCEPT ![l].termed = TRUE]
           \/ child' = [child EXCEPT ![l].state = "zombie", ![l].code = "killed"]
    BY <1>34 DEF Strike
  <2>2. /\ sh'[l].pc = sh[l].pc /\ sh'[l].game_pid = sh[l].game_pid
        /\ sh'[l].starttime = sh[l].starttime /\ sh'[l].aim = NoOne
        /\ \A k \in Launchers \ {l} : sh'[k] = sh[k]
    BY <1>0, <2>1 DEF ShellRecord
  <2>3. \A k \in Launchers : child'[k].pid = child[k].pid
    BY <1>0, <2>1 DEF GameRecord
  <2>4. LockAlone(l)
    BY <2>1, <2>2 DEF LockAlone
  <2>5. SignalInv'
    <3>1. ASSUME NEW k \in Launchers, NEW who \in Strangers,
                 sh'[k].aim = who \/ <<k, who>> \in taken'
          PROVE  sh[k].aim = who \/ <<k, who>> \in taken
      <4>1. NoOne \notin Strangers
        BY DEF NoOne, Strangers
      <4>2. CASE k = l
        BY <2>1, <2>2, <3>1, <4>1, <4>2
      <4>3. CASE k # l
        BY <2>1, <2>2, <3>1, <4>3
      <4> QED
        BY <4>2, <4>3
    <3>2. ASSUME NEW k \in Launchers
          PROVE  /\ sh'[k].pc = sh[k].pc /\ sh'[k].game_pid = sh[k].game_pid
                 /\ sh'[k].starttime = sh[k].starttime
                 /\ sh[k].aim = NoOne => sh'[k].aim = NoOne
      BY <2>2
    <3> QED
      BY <2>3, <3>1, <3>2 DEF SignalInv
  <2> QED
    BY <2>4, <2>5, LockFrame
<1>35. ASSUME NEW l \in Launchers, WaitAgain(l) PROVE LockInv' /\ SignalInv'
  <2>1. /\ sh' = [sh EXCEPT ![l].status = child[l].code]
        /\ UNCHANGED <<child, tool, fds, lock, taken>>
    BY <1>35 DEF WaitAgain
  <2>2. /\ sh'[l].pc = sh[l].pc /\ sh'[l].game_pid = sh[l].game_pid
        /\ sh'[l].starttime = sh[l].starttime /\ sh'[l].aim = sh[l].aim
        /\ \A k \in Launchers \ {l} : sh'[k] = sh[k]
    BY <1>0, <2>1 DEF ShellRecord
  <2>3. LockAlone(l) /\ PidAlone(l)
    BY <2>1, <2>2 DEF LockAlone, PidAlone
  <2> QED
    BY <2>3, LockFrame, PidFrame
<1>36. ASSUME NEW l \in Launchers, TruthKnown(l) PROVE LockInv' /\ SignalInv'
  <2>1. /\ sh' = [sh EXCEPT ![l].pc = "end"]
        /\ UNCHANGED <<child, tool, fds, lock, taken>>
    BY <1>36 DEF TruthKnown, Proceed, At
  <2>2. /\ sh'[l].pc = "end" /\ sh'[l].game_pid = sh[l].game_pid
        /\ sh'[l].starttime = sh[l].starttime /\ sh'[l].aim = sh[l].aim
        /\ \A k \in Launchers \ {l} : sh'[k] = sh[k]
    BY <1>0, <2>1 DEF ShellRecord
  <2>3. LockAlone(l) /\ PidAlone(l)
    BY <2>1, <2>2 DEF LockAlone, PidAlone, Owning, BeforePid
  <2> QED
    BY <2>3, LockFrame, PidFrame
<1>33. CASE UNCHANGED vars
  BY <1>33 DEF vars, LockInv, SignalInv
<1> QED
  BY <1>1, <1>2, <1>3, <1>4, <1>5, <1>6, <1>7, <1>8, <1>9, <1>10, <1>11, <1>12, <1>13, <1>14, <1>15, <1>16,
     <1>17, <1>18, <1>19, <1>20, <1>21, <1>22, <1>23, <1>24, <1>25, <1>26, <1>27, <1>28, <1>29, <1>30, <1>31, <1>32, <1>33, <1>34, <1>35, <1>36
  DEF Next, Shell

-----------------------------------------------------------------------------

\* The script and the system keep to the values that TypeOK lists.
THEOREM TypeCorrect == Spec => []TypeOK
<1>1. Init => TypeOK
  <2> SUFFICES ASSUME Init PROVE TypeOK
    OBVIOUS
  <2>1. sh \in [Launchers -> ShellRecord]
    BY DEF Init, ShellRecord, Labels, Owners, Codes
  <2>2. child \in [Launchers -> GameRecord]
    BY DEF Init, GameRecord, Owners, Codes
  <2>3. pm \in [Launchers -> PmRecord]
    BY DEF Init, PmRecord
  <2> QED
    BY <2>1, <2>2, <2>3, LauncherAssumption DEF Init, TypeOK
<1>2. TypeOK /\ [Next]_vars => TypeOK'
  BY TypeStep
<1> QED
  BY <1>1, <1>2, PTL DEF Spec

\* Who holds descriptor 9 and who has the flock agree at all times, and so do the
\* pid, the start time that was read for it and who was signalled.
THEOREM CoreCorrect == Spec => [](LockInv /\ SignalInv)
<1>1. Init => LockInv /\ SignalInv
  BY LauncherAssumption DEF Init, LockInv, SignalInv, Owning, BeforePid, NoOne, Strangers
<1>2. TypeOK /\ LockInv /\ SignalInv /\ [Next]_vars => LockInv' /\ SignalInv'
  BY CoreStep
<1> QED
  BY <1>1, <1>2, TypeCorrect, PTL DEF Spec

\* Two extractors never work at once, also when launchers are killed.
THEOREM OneToolAtATime == Spec => []OneTool
<1>1. LockInv => OneTool
  BY DEF LockInv, OneTool
<1> QED
  BY <1>1, CoreCorrect, PTL

\* When a launcher is gone and its tool has ended, the next launch gets the lock,
\* whatever the game it left behind does.
THEOREM OrphansHoldNoLock == Spec => []OrphanHoldsNoLock
<1>1. LockInv => OrphanHoldsNoLock
  BY DEF LockInv, OrphanHoldsNoLock
<1> QED
  BY <1>1, CoreCorrect, PTL

\* Whatever signals come when, and however often the pid is given away: a script
\* that knows the start time of the game never takes another process for it.
THEOREM StrangersSpared == Spec => []OnlyTheRecorded
<1>1. SignalInv => OnlyTheRecorded
  BY DEF SignalInv, OnlyTheRecorded, Strangers
<1> QED
  BY <1>1, CoreCorrect, PTL
=============================================================================
