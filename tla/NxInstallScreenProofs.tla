------------------------ MODULE NxInstallScreenProofs ------------------------
(***************************************************************************)
(* For any number of extractors, left hooks and mishaps: a required screen *)
(* is in sight while a run that is alone works, a refused extractor leaves *)
(* the others alone, no run that ends by itself leaves a screen behind,    *)
(* and two runs without a mishap do not fail in a row.                     *)
(***************************************************************************)
EXTENDS NxInstallProofs

\* The units of work, and the part of a run that its screen has to be there for.
AtWork == {"select", "copy", "run", "publish"}
InSession ==
  AtWork \cup {"up", "adopt", "scan", "prepare", "wipe", "record", "extract", "hook",
               "mark", "validate", "reject", "commit", "tell"}

\* A run that is alone has no company now either, no screen and no left hook; a
\* run that requires a screen has a proof of it, and the proof was not another
\* screen's; and where the guard is asked, one unit of work in the dark is the last.
SessionOK(r) ==
  /\ pc[r] \in {"off", "lock", "begin", "confirm"} => ~ready[r] /\ ~dark[r]
  /\ alone[r] /\ Alive(r) =>
       orphan = {} /\ \A k \in Run \ {r} : ~Alive(k) /\ ~Showing(k)
  /\ require[r] /\ pc[r] \in InSession => ready[r]
  /\ alone[r] /\ ready_file /\ pc[r] = "confirm" => ui[r] # "opening"
  /\ alone[r] /\ ready[r] /\ pc[r] \in InSession => ui[r] \in {"visible", "dead"}
  /\ ready[r] /\ pc[r] \in InSession /\ dark[r] => ui[r] = "dead" /\ pc[r] \notin AtWork

ScreenInv == \A r \in Run : SessionOK(r)

-----------------------------------------------------------------------------
(* The screen *)

\* A step from one place in the session to another, or out of it, that touches no
\* screen and nobody's company.
LEMMA StepsOn ==
  ASSUME TypeOK, ScreenInv, NEW r \in Run, Alive(r), NEW label,
         label \notin {"off", "lock", "begin", "confirm", "end"},
         label \in InSession => pc[r] \in InSession \/ (pc[r] = "begin" /\ ~require[r]),
         label \in AtWork => ~Blind(r),
         dark' = dark \/ (dark' = [dark EXCEPT ![r] = @ \/ ui[r] = "dead"] /\ label \notin AtWork),
         pc' = [pc EXCEPT ![r] = label], UNCHANGED <<screen, require, alone, ready, orphan>>
  PROVE  ScreenInv'
<1> SUFFICES ASSUME NEW k \in Run PROVE SessionOK(k)'
  BY DEF ScreenInv
<1>1. SessionOK(k) /\ SessionOK(r)
  BY DEF ScreenInv
<1>2. pc'[r] = label /\ \A j \in Run \ {r} : pc'[j] = pc[j] /\ dark'[j] = dark[j]
  BY DEF TypeOK, LockOK, RunsOK
<1>3. \A j \in Run : (Alive(j)' <=> Alive(j)) /\ (Showing(j)' <=> Showing(j))
  BY <1>2 DEF Alive, Showing, screen
<1>4. CASE k # r
  BY <1>1, <1>2, <1>3, <1>4 DEF SessionOK, screen
<1>5. CASE k = r
  <2>1. alone[r] /\ ready[r] /\ label \in InSession => ui[r] \in {"visible", "dead"}
    BY <1>1 DEF SessionOK
  <2>2. dark'[r] => dark[r] \/ (ui[r] = "dead" /\ label \notin AtWork)
    BY DEF TypeOK, RunsOK
  <2>3. ready[r] /\ label \in InSession /\ dark'[r] => ui[r] = "dead" /\ label \notin AtWork
    BY <1>1, <2>2 DEF SessionOK, Blind
  <2>4. QED
    BY <1>1, <1>2, <1>3, <1>5, <2>1, <2>3 DEF SessionOK, screen
<1>6. QED
  BY <1>4, <1>5

\* Nothing that a run, its screen or another run does disturbs it.
LEMMA ScreenStep == ScreenInv /\ TypeOK /\ [Next]_vars => ScreenInv'
<1> SUFFICES ASSUME ScreenInv, TypeOK, [Next]_vars PROVE ScreenInv'
  OBVIOUS
<1>1. ASSUME NEW r \in Run, Start(r) PROVE ScreenInv'
  <2>1. /\ pc[r] = "off" /\ pc' = [pc EXCEPT ![r] = "lock"]
        /\ UNCHANGED <<screen, ready, orphan, dark>>
        /\ \A k \in Run \ {r} : require'[k] = require[k]
        /\ \A k \in Run \ {r} : alone'[k] => alone[k] /\ ~Alive(k)
        /\ alone'[r] => orphan = {} /\ \A k \in Run \ {r} : ~Alive(k) /\ ~Showing(k)
    BY <1>1 DEF Start, Go, world, mem, TypeOK, RunsOK
  <2>2. pc'[r] = "lock" /\ \A k \in Run \ {r} : pc'[k] = pc[k]
    BY <2>1 DEF TypeOK, LockOK
  <2>3. ASSUME NEW k \in Run \ {r} PROVE SessionOK(k)'
    BY <2>1, <2>2, <2>3
    DEF ScreenInv, SessionOK, screen, Alive, Showing, InSession, AtWork
  <2>4. SessionOK(r)'
    BY <2>1, <2>2 DEF ScreenInv, SessionOK, screen, Alive, Showing, InSession, AtWork
  <2>5. QED
    BY <2>3, <2>4 DEF ScreenInv
<1>2. ASSUME NEW r \in Run, TakeLock(r) PROVE ScreenInv'
  BY <1>2
  DEF TakeLock, NoRun, Go, data, world, screen, own, mem, hist, ScreenInv, SessionOK,
    InSession, AtWork, TypeOK, RunsOK, LockOK, Alive, Showing
<1>3. ASSUME NEW r \in Run, LockBusy(r) PROVE ScreenInv'
  BY <1>3
  DEF LockBusy, NoRun, Go, data, mem, Quiet, screen, world, own, hist, ScreenInv,
    SessionOK, InSession, AtWork, TypeOK, RunsOK, LockOK, Alive, Showing
<1>4. ASSUME NEW r \in Run, Fast(r) PROVE ScreenInv'
  BY <1>4
  DEF Fast, Tell, Go, data, world, screen, own, mem, hist, ScreenInv, SessionOK,
    InSession, AtWork, TypeOK, RunsOK, LockOK, Alive, Showing
<1>5. ASSUME NEW r \in Run, OpenScreen(r) PROVE ScreenInv'
  <2>1. /\ pc[r] = "begin" /\ ~ready_file'
        /\ UNCHANGED <<require, dark, alone, ready, orphan>>
        /\ ui' = [ui EXCEPT ![r] = "opening"]
        /\ pc' = [pc EXCEPT ![r] = IF require[r] THEN "confirm" ELSE "up"]
    BY <1>5 DEF OpenScreen, NotInstalled, Go, world, own, mem, hist
  <2>2. /\ pc'[r] = IF require[r] THEN "confirm" ELSE "up"
        /\ \A k \in Run \ {r} : pc'[k] = pc[k] /\ ui'[k] = ui[k]
    BY <2>1 DEF TypeOK, LockOK, RunsOK
  <2>3. ASSUME NEW k \in Run \ {r} PROVE SessionOK(k)'
    BY <2>1, <2>2, <2>3 DEF ScreenInv, SessionOK, Alive, Showing, InSession, AtWork
  <2>4. SessionOK(r)'
    BY <2>1, <2>2 DEF ScreenInv, SessionOK, Alive, Showing, InSession, AtWork
  <2>5. QED
    BY <2>3, <2>4 DEF ScreenInv
<1>6. ASSUME NEW r \in Run, Headless(r) PROVE ScreenInv'
  <2>1. /\ Alive(r) /\ UNCHANGED <<screen, require, alone, ready, orphan>>
        /\ pc[r] = "begin" /\ ~require[r]
    BY <1>6 DEF Headless, NotInstalled, Quiet, Alive, world, own, mem, hist
  <2>2. dark' = dark
    BY <1>6 DEF Headless, NotInstalled, Quiet, own
  <2>3. pc' = [pc EXCEPT ![r] = "up"]
    BY <1>6 DEF Headless, Go, Raise
  <2>4. QED
    BY <2>1, <2>2, <2>3, StepsOn DEF InSession, AtWork
<1>7. ASSUME NEW r \in Run, Confirm(r) PROVE ScreenInv'
  BY <1>7
  DEF Confirm, Showing, Go, data, Quiet, screen, world, own, hist, ScreenInv,
    SessionOK, InSession, AtWork, TypeOK, RunsOK, LockOK, Alive
<1>8. ASSUME NEW r \in Run, NotConfirmed(r) PROVE ScreenInv'
  <2>1. /\ Alive(r) /\ UNCHANGED <<screen, require, alone, ready, orphan>>
        /\ pc[r] = "confirm"
    BY <1>8 DEF NotConfirmed, Alive, world, own, mem, hist
  <2>2. dark' = dark
    BY <1>8 DEF NotConfirmed, own
  <2>3. pc' = [pc EXCEPT ![r] = "error"]
    BY <1>8 DEF NotConfirmed, Go, Raise
  <2>4. QED
    BY <2>1, <2>2, <2>3, StepsOn DEF InSession, AtWork
<1>9. ASSUME NEW r \in Run, Up(r) PROVE ScreenInv'
  <2>1. /\ Alive(r) /\ UNCHANGED <<screen, require, alone, ready, orphan>>
        /\ pc[r] = "up"
    BY <1>9 DEF Up, Working, Alive, world, own, mem, hist
  <2>2. dark' = dark /\ ~Blind(r)
    BY <1>9 DEF Up, Working, own
  <2>3. \E label \in {"scan", "adopt"} : pc' = [pc EXCEPT ![r] = label]
    BY <1>9, <2>1 DEF Up, Go, TypeOK, LockOK
  <2>4. QED
    BY <2>1, <2>2, <2>3, StepsOn DEF InSession, AtWork
<1>10. ASSUME NEW r \in Run, Adopt(r) PROVE ScreenInv'
  <2>1. /\ Alive(r) /\ UNCHANGED <<screen, require, alone, ready, orphan>>
        /\ pc[r] = "adopt"
    BY <1>10 DEF Adopt, Quiet, Alive, world, own, mem, hist
  <2>2. dark' = dark
    BY <1>10 DEF Adopt, Quiet, own
  <2>3. \E label \in {"tell", "scan"} : pc' = [pc EXCEPT ![r] = label]
    BY <1>10, <2>1 DEF Adopt, Go, TypeOK, LockOK
  <2>4. QED
    BY <2>1, <2>2, <2>3, StepsOn DEF InSession, AtWork
<1>11. ASSUME NEW r \in Run, Scan(r) PROVE ScreenInv'
  <2>1. /\ Alive(r) /\ UNCHANGED <<screen, require, alone, ready, orphan>>
        /\ pc[r] = "scan"
    BY <1>11 DEF Scan, Working, Alive, world, own, mem, hist
  <2>2. dark' = dark /\ ~Blind(r)
    BY <1>11 DEF Scan, Working, own
  <2>3. pc' = [pc EXCEPT ![r] = "select"]
    BY <1>11 DEF Scan, Go, Raise
  <2>4. QED
    BY <2>1, <2>2, <2>3, StepsOn DEF InSession, AtWork
<1>12. ASSUME NEW r \in Run, Select(r) PROVE ScreenInv'
  <2>1. /\ Alive(r) /\ UNCHANGED <<screen, require, alone, ready, orphan>>
        /\ pc[r] = "select"
    BY <1>12 DEF Select, Unseen, Alive, world, own, mem, hist
  <2>2. dark' = [dark EXCEPT ![r] = @ \/ ui[r] = "dead"]
    BY <1>12 DEF Select, Unseen
  <2>3. pc' = [pc EXCEPT ![r] = "prepare"]
    BY <1>12 DEF Select, Go, Raise
  <2>4. QED
    BY <2>1, <2>2, <2>3, StepsOn DEF InSession, AtWork
<1>13. ASSUME NEW r \in Run, Prepare(r) PROVE ScreenInv'
  <2>1. /\ Alive(r) /\ UNCHANGED <<screen, require, alone, ready, orphan>>
        /\ pc[r] = "prepare"
    BY <1>13 DEF Prepare, Quiet, Alive, world, own, mem, hist
  <2>2. dark' = dark
    BY <1>13 DEF Prepare, Quiet, own
  <2>3. \E label \in {"wipe", "record"} : pc' = [pc EXCEPT ![r] = label]
    BY <1>13, <2>1 DEF Prepare, Go, TypeOK, LockOK
  <2>4. QED
    BY <2>1, <2>2, <2>3, StepsOn DEF InSession, AtWork
<1>14. ASSUME NEW r \in Run, WipeHooks(r) PROVE ScreenInv'
  <2>1. /\ Alive(r) /\ UNCHANGED <<screen, require, alone, ready, orphan>>
        /\ pc[r] = "wipe"
    BY <1>14 DEF WipeHooks, Quiet, Alive, world, own, mem, hist
  <2>2. dark' = dark
    BY <1>14 DEF WipeHooks, Quiet, own
  <2>3. pc' = [pc EXCEPT ![r] = "record"]
    BY <1>14 DEF WipeHooks, Go, Raise
  <2>4. QED
    BY <2>1, <2>2, <2>3, StepsOn DEF InSession, AtWork
<1>15. ASSUME NEW r \in Run, WriteState(r) PROVE ScreenInv'
  <2>1. /\ Alive(r) /\ UNCHANGED <<screen, require, alone, ready, orphan>>
        /\ pc[r] = "record"
    BY <1>15 DEF WriteState, Quiet, Alive, world, own, mem, hist
  <2>2. dark' = dark
    BY <1>15 DEF WriteState, Quiet, own
  <2>3. pc' = [pc EXCEPT ![r] = "extract"]
    BY <1>15 DEF WriteState, Go, Raise
  <2>4. QED
    BY <2>1, <2>2, <2>3, StepsOn DEF InSession, AtWork
<1>16. ASSUME NEW r \in Run, KeepItem(r) PROVE ScreenInv'
  BY <1>16
  DEF KeepItem, AtItem, data, Quiet, screen, world, own, hist, ScreenInv, SessionOK,
    InSession, AtWork, TypeOK, RunsOK, LockOK, Alive, Showing
<1>17. ASSUME NEW r \in Run, Extract(r) PROVE ScreenInv'
  <2>1. /\ Alive(r) /\ UNCHANGED <<screen, require, alone, ready, orphan>>
        /\ pc[r] = "extract"
    BY <1>17 DEF Extract, AtItem, Working, Alive, world, own, mem, hist
  <2>2. dark' = dark /\ ~Blind(r)
    BY <1>17 DEF Extract, Working, own
  <2>3. pc' = [pc EXCEPT ![r] = "copy"]
    BY <1>17 DEF Extract, Go, Raise
  <2>4. QED
    BY <2>1, <2>2, <2>3, StepsOn DEF InSession, AtWork
<1>18. ASSUME NEW r \in Run, Copy(r) PROVE ScreenInv'
  <2>1. /\ Alive(r) /\ UNCHANGED <<screen, require, alone, ready, orphan>>
        /\ pc[r] = "copy"
    BY <1>18 DEF Copy, Unseen, Alive, world, own, mem, hist
  <2>2. dark' = [dark EXCEPT ![r] = @ \/ ui[r] = "dead"]
    BY <1>18 DEF Copy, Unseen
  <2>3. pc' = [pc EXCEPT ![r] = "extract"]
    BY <1>18 DEF Copy, Go, Raise
  <2>4. QED
    BY <2>1, <2>2, <2>3, StepsOn DEF InSession, AtWork
<1>19. ASSUME NEW r \in Run, ItemsDone(r) PROVE ScreenInv'
  <2>1. /\ Alive(r) /\ UNCHANGED <<screen, require, alone, ready, orphan>>
        /\ pc[r] = "extract"
    BY <1>19 DEF ItemsDone, Working, Alive, world, own, mem, hist
  <2>2. dark' = dark /\ ~Blind(r)
    BY <1>19 DEF ItemsDone, Working, own
  <2>3. pc' = [pc EXCEPT ![r] = "hook"]
    BY <1>19 DEF ItemsDone, Go, Raise
  <2>4. QED
    BY <2>1, <2>2, <2>3, StepsOn DEF InSession, AtWork
<1>20. ASSUME NEW r \in Run, SkipHook(r) PROVE ScreenInv'
  BY <1>20
  DEF SkipHook, More, data, Quiet, screen, world, own, hist, ScreenInv, SessionOK,
    InSession, AtWork, TypeOK, RunsOK, LockOK, Alive, Showing
<1>21. ASSUME NEW r \in Run, StartHook(r) PROVE ScreenInv'
  <2>1. /\ Alive(r) /\ UNCHANGED <<screen, require, alone, ready, orphan>>
        /\ pc[r] = "hook"
    BY <1>21 DEF StartHook, More, Working, Alive, world, own, mem, hist
  <2>2. dark' = dark /\ ~Blind(r)
    BY <1>21 DEF StartHook, Working, own
  <2>3. pc' = [pc EXCEPT ![r] = "run"]
    BY <1>21 DEF StartHook, Go, Raise
  <2>4. QED
    BY <2>1, <2>2, <2>3, StepsOn DEF InSession, AtWork
<1>22. ASSUME NEW r \in Run, RunHook(r) PROVE ScreenInv'
  <2>1. /\ Alive(r) /\ UNCHANGED <<screen, require, alone, ready, orphan>>
        /\ pc[r] = "run"
    BY <1>22 DEF RunHook, Unseen, Alive, world, own, mem, hist
  <2>2. dark' = [dark EXCEPT ![r] = @ \/ ui[r] = "dead"]
    BY <1>22 DEF RunHook, Unseen
  <2>3. pc' = [pc EXCEPT ![r] = "mark"]
    BY <1>22 DEF RunHook, Go, Raise
  <2>4. QED
    BY <2>1, <2>2, <2>3, StepsOn DEF InSession, AtWork
<1>23. ASSUME NEW r \in Run, HookStopped(r) PROVE ScreenInv'
  <2>1. /\ Alive(r) /\ UNCHANGED <<screen, require, alone, ready, orphan>>
        /\ pc[r] = "run"
    BY <1>23 DEF HookStopped, Alive, world, own, mem, hist
  <2>2. dark' = dark
    BY <1>23 DEF HookStopped, own
  <2>3. pc' = [pc EXCEPT ![r] = "error"]
    BY <1>23 DEF HookStopped, Go, Raise
  <2>4. QED
    BY <2>1, <2>2, <2>3, StepsOn DEF InSession, AtWork
<1>24. ASSUME NEW r \in Run, Mark(r) PROVE ScreenInv'
  <2>1. /\ Alive(r) /\ UNCHANGED <<screen, require, alone, ready, orphan>>
        /\ pc[r] = "mark"
    BY <1>24 DEF Mark, Quiet, Alive, world, own, mem, hist
  <2>2. dark' = dark
    BY <1>24 DEF Mark, Quiet, own
  <2>3. pc' = [pc EXCEPT ![r] = "hook"]
    BY <1>24 DEF Mark, Go, Raise
  <2>4. QED
    BY <2>1, <2>2, <2>3, StepsOn DEF InSession, AtWork
<1>25. ASSUME NEW r \in Run, HooksDone(r) PROVE ScreenInv'
  <2>1. /\ Alive(r) /\ UNCHANGED <<screen, require, alone, ready, orphan>>
        /\ pc[r] = "hook"
    BY <1>25 DEF HooksDone, More, Working, Alive, world, own, mem, hist
  <2>2. dark' = dark /\ ~Blind(r)
    BY <1>25 DEF HooksDone, Working, own
  <2>3. pc' = [pc EXCEPT ![r] = "validate"]
    BY <1>25 DEF HooksDone, Go, Raise
  <2>4. QED
    BY <2>1, <2>2, <2>3, StepsOn DEF InSession, AtWork
<1>26. ASSUME NEW r \in Run, Validate(r) PROVE ScreenInv'
  <2>1. /\ Alive(r) /\ UNCHANGED <<screen, require, alone, ready, orphan>>
        /\ pc[r] = "validate"
    BY <1>26 DEF Validate, Quiet, Alive, world, own, mem, hist
  <2>2. dark' = dark
    BY <1>26 DEF Validate, Quiet, own
  <2>3. \E label \in {"commit", "reject"} : pc' = [pc EXCEPT ![r] = label]
    BY <1>26, <2>1 DEF Validate, Go, TypeOK, LockOK
  <2>4. QED
    BY <2>1, <2>2, <2>3, StepsOn DEF InSession, AtWork
<1>27. ASSUME NEW r \in Run, Reject(r) PROVE ScreenInv'
  <2>1. /\ Alive(r) /\ UNCHANGED <<screen, require, alone, ready, orphan>>
        /\ pc[r] = "reject"
    BY <1>27 DEF Reject, Alive, world, own, mem, hist
  <2>2. dark' = dark
    BY <1>27 DEF Reject, own
  <2>3. pc' = [pc EXCEPT ![r] = "error"]
    BY <1>27 DEF Reject, Go, Raise
  <2>4. QED
    BY <2>1, <2>2, <2>3, StepsOn DEF InSession, AtWork
<1>28. ASSUME NEW r \in Run, EnterCommit(r) PROVE ScreenInv'
  <2>1. /\ Alive(r) /\ UNCHANGED <<screen, require, alone, ready, orphan>>
        /\ pc[r] = "commit"
    BY <1>28 DEF EnterCommit, Working, Alive, world, own, mem, hist
  <2>2. dark' = dark /\ ~Blind(r)
    BY <1>28 DEF EnterCommit, Working, own
  <2>3. pc' = [pc EXCEPT ![r] = "publish"]
    BY <1>28 DEF EnterCommit, Go, Raise
  <2>4. QED
    BY <2>1, <2>2, <2>3, StepsOn DEF InSession, AtWork
<1>29. ASSUME NEW r \in Run, Commit(r) PROVE ScreenInv'
  <2>1. /\ Alive(r) /\ UNCHANGED <<screen, require, alone, ready, orphan>>
        /\ pc[r] = "publish"
    BY <1>29 DEF Commit, Unseen, Alive, world, own, mem, hist
  <2>2. dark' = [dark EXCEPT ![r] = @ \/ ui[r] = "dead"]
    BY <1>29 DEF Commit, Unseen
  <2>3. pc' = [pc EXCEPT ![r] = "tell"]
    BY <1>29 DEF Commit, Go, Raise
  <2>4. QED
    BY <2>1, <2>2, <2>3, StepsOn DEF InSession, AtWork
<1>30. ASSUME NEW r \in Run, CommitRejected(r) PROVE ScreenInv'
  <2>1. /\ Alive(r) /\ UNCHANGED <<screen, require, alone, ready, orphan>>
        /\ pc[r] = "publish"
    BY <1>30 DEF CommitRejected, Alive, world, own, mem, hist
  <2>2. dark' = dark
    BY <1>30 DEF CommitRejected, own
  <2>3. pc' = [pc EXCEPT ![r] = "error"]
    BY <1>30 DEF CommitRejected, Go, Raise
  <2>4. QED
    BY <2>1, <2>2, <2>3, StepsOn DEF InSession, AtWork
<1>31. ASSUME NEW r \in Run, TellDone(r) PROVE ScreenInv'
  BY <1>31
  DEF TellDone, Blind, Tell, Go, data, world, screen, own, mem, hist, ScreenInv,
    SessionOK, InSession, AtWork, TypeOK, RunsOK, LockOK, Alive, Showing
<1>32. ASSUME NEW r \in Run, ScreenLost(r) PROVE ScreenInv'
  BY <1>32
  DEF ScreenLost, More, Blind, Raise, Go, NoRun, data, world, screen, own, mem, hist,
    ScreenInv, SessionOK, InSession, AtWork, TypeOK, RunsOK, LockOK, Alive, Showing
<1>33. ASSUME NEW r \in Run, Stop(r) PROVE ScreenInv'
  BY <1>33
  DEF Stop, StopUI, screen, Go, data, world, own, hist, ScreenInv, SessionOK,
    InSession, AtWork, TypeOK, RunsOK, LockOK, Alive, Showing
<1>34. ASSUME NEW r \in Run, Unlock(r) PROVE ScreenInv'
  BY <1>34
  DEF Unlock, NoRun, Go, data, world, screen, own, mem, ScreenInv, SessionOK,
    InSession, AtWork, TypeOK, RunsOK, LockOK, Alive, Showing
<1>35. ASSUME NEW r \in Run, Error(r) PROVE ScreenInv'
  BY <1>35
  DEF Error, Tell, StopUI, screen, Go, data, world, own, ScreenInv, SessionOK,
    InSession, AtWork, TypeOK, RunsOK, LockOK, Alive, Showing
<1>36. ASSUME NEW r \in Run, Final(r) PROVE ScreenInv'
  BY <1>36
  DEF Final, StopUI, screen, Leave, Go, data, world, ScreenInv, SessionOK, InSession,
    AtWork, TypeOK, RunsOK, LockOK, Alive, Showing
<1>37. ASSUME NEW r \in Run, NoScreen(r) PROVE ScreenInv'
  BY <1>37
  DEF NoScreen, NotInstalled, Raise, Go, NoRun, Mishap, data, world, own, mem,
    ScreenInv, SessionOK, InSession, AtWork, TypeOK, RunsOK, LockOK, Alive, Showing
<1>38. ASSUME NEW r \in Run, HookDefective(r) PROVE ScreenInv'
  <2>1. /\ Alive(r) /\ UNCHANGED <<screen, require, alone, ready, orphan>>
        /\ pc[r] = "run"
    BY <1>38 DEF HookDefective, Mishap, Unseen, Alive, world, own, mem, hist
  <2>2. dark' = [dark EXCEPT ![r] = @ \/ ui[r] = "dead"]
    BY <1>38 DEF HookDefective, Unseen
  <2>3. pc' = [pc EXCEPT ![r] = "mark"]
    BY <1>38 DEF HookDefective, Go, Raise
  <2>4. QED
    BY <2>1, <2>2, <2>3, StepsOn DEF InSession, AtWork
<1>39. ASSUME NEW r \in Run, HookFails(r) PROVE ScreenInv'
  <2>1. /\ Alive(r) /\ UNCHANGED <<screen, require, alone, ready, orphan>>
        /\ pc[r] = "run"
    BY <1>39 DEF HookFails, Mishap, Alive, world, own, mem, hist
  <2>2. dark' = dark
    BY <1>39 DEF HookFails, Mishap, own
  <2>3. pc' = [pc EXCEPT ![r] = "error"]
    BY <1>39 DEF HookFails, Go, Raise
  <2>4. QED
    BY <2>1, <2>2, <2>3, StepsOn DEF InSession, AtWork
<1>40. ASSUME NEW r \in Run, Interrupted(r) PROVE ScreenInv'
  <2>1. /\ Alive(r) /\ UNCHANGED <<screen, require, dark, alone, ready, orphan>>
        /\ pc' = [pc EXCEPT ![r] = "error"]
    BY <1>40
    DEF Interrupted, Raise, Mishap, Go, Alive, world, own, mem, TypeOK, LockOK, Locked
  <2>2. QED
    BY <2>1, StepsOn DEF InSession, AtWork
<1>41. ASSUME NEW r \in Run, Kill(r) PROVE ScreenInv'
  BY <1>41
  DEF Kill, Alive, Leave, Go, NoRun, Showing, data, ScreenInv, SessionOK, InSession,
    AtWork, TypeOK, RunsOK, LockOK
<1>42. ASSUME NEW r \in Run, ErrorRaises(r) PROVE ScreenInv'
  BY <1>42
  DEF ErrorRaises, Tell, Go, data, world, screen, own, mem, ScreenInv, SessionOK,
    InSession, AtWork, TypeOK, RunsOK, LockOK, Alive, Showing
<1>43. ASSUME NEW r \in Run, FinalRaises(r) PROVE ScreenInv'
  BY <1>43
  DEF FinalRaises, Leave, Go, Showing, data, world, ScreenInv, SessionOK, InSession,
    AtWork, TypeOK, RunsOK, LockOK, Alive
<1>44. ASSUME NEW r \in Run, Publish(r) PROVE ScreenInv'
  BY <1>44
  DEF Publish, data, world, own, mem, hist, ScreenInv, SessionOK, InSession, AtWork,
    TypeOK, RunsOK, LockOK, Alive, Showing
<1>45. ASSUME NEW r \in Run, ObeyStop(r) PROVE ScreenInv'
  BY <1>45
  DEF ObeyStop, Showing, Gone, Alive, data, world, own, mem, hist, ScreenInv,
    SessionOK, InSession, AtWork, TypeOK, RunsOK, LockOK
<1>46. ASSUME NEW r \in Run, UIDies(r) PROVE ScreenInv'
  BY <1>46
  DEF UIDies, Showing, Gone, Alive, Mishap, data, world, own, mem, ScreenInv,
    SessionOK, InSession, AtWork, TypeOK, RunsOK, LockOK
<1>47. ASSUME NEW o \in orphan, OrphanWrites(o) PROVE ScreenInv'
  BY <1>47
  DEF OrphanWrites, screen, own, mem, hist, ScreenInv, SessionOK, InSession, AtWork,
    TypeOK, RunsOK, LockOK, Alive, Showing
<1>48. ASSUME NEW o \in orphan, OrphanEnds(o) PROVE ScreenInv'
  BY <1>48
  DEF OrphanEnds, data, screen, own, mem, hist, ScreenInv, SessionOK, InSession,
    AtWork, TypeOK, RunsOK, LockOK, Alive, Showing
<1>49. CASE Change
  BY <1>49
  DEF Change, Run, Alive, data, screen, own, mem, hist, ScreenInv, SessionOK,
    InSession, AtWork, TypeOK, RunsOK, LockOK, Showing
<1>50. CASE UNCHANGED vars
  BY <1>50
  DEF vars, data, world, screen, own, mem, hist, ScreenInv, SessionOK, InSession,
    AtWork, TypeOK, RunsOK, LockOK, Alive, Showing
<1>51. QED
  BY <1>1, <1>2, <1>3, <1>4, <1>5, <1>6, <1>7, <1>8, <1>9, <1>10, <1>11, <1>12, <1>13,
    <1>14, <1>15, <1>16, <1>17, <1>18, <1>19, <1>20, <1>21, <1>22, <1>23, <1>24,
    <1>25, <1>26, <1>27, <1>28, <1>29, <1>30, <1>31, <1>32, <1>33, <1>34, <1>35,
    <1>36, <1>37, <1>38, <1>39, <1>40, <1>41, <1>42, <1>43, <1>44, <1>45, <1>46,
    <1>47, <1>48, <1>49, <1>50
  DEF Next, Stepping, Failing, Screen

\* Only a kill, or an error that kept ui.stop from being written, leaves a screen.
LEMMA OrphanStep == NoOrphanUI /\ TypeOK /\ [Next]_vars => NoOrphanUI'
<1> SUFFICES ASSUME NoOrphanUI, TypeOK, [Next]_vars PROVE NoOrphanUI'
  OBVIOUS
<1>1. ASSUME NEW r \in Run, Start(r) PROVE NoOrphanUI'
  BY <1>1
  DEF Start, Run, Alive, Showing, Go, data, world, screen, mem, NoOrphanUI, TypeOK,
    RunsOK, LockOK, Locked
<1>2. ASSUME NEW r \in Run, TakeLock(r) PROVE NoOrphanUI'
  BY <1>2
  DEF TakeLock, NoRun, Go, data, world, screen, own, mem, hist, NoOrphanUI, TypeOK,
    RunsOK, LockOK, Locked
<1>3. ASSUME NEW r \in Run, LockBusy(r) PROVE NoOrphanUI'
  BY <1>3
  DEF LockBusy, NoRun, Go, data, mem, Quiet, screen, world, own, hist, NoOrphanUI,
    TypeOK, RunsOK, LockOK, Locked
<1>4. ASSUME NEW r \in Run, Fast(r) PROVE NoOrphanUI'
  BY <1>4
  DEF Fast, Tell, Go, data, world, screen, own, mem, hist, NoOrphanUI, TypeOK, RunsOK,
    LockOK, Locked
<1>5. ASSUME NEW r \in Run, OpenScreen(r) PROVE NoOrphanUI'
  BY <1>5
  DEF OpenScreen, NotInstalled, Go, data, world, own, mem, hist, NoOrphanUI, TypeOK,
    RunsOK, LockOK, Locked
<1>6. ASSUME NEW r \in Run, Headless(r) PROVE NoOrphanUI'
  BY <1>6
  DEF Headless, NotInstalled, Go, data, mem, Quiet, screen, world, own, hist,
    NoOrphanUI, TypeOK, RunsOK, LockOK, Locked
<1>7. ASSUME NEW r \in Run, Confirm(r) PROVE NoOrphanUI'
  BY <1>7
  DEF Confirm, Showing, Go, data, Quiet, screen, world, own, hist, NoOrphanUI, TypeOK,
    RunsOK, LockOK, Locked
<1>8. ASSUME NEW r \in Run, NotConfirmed(r) PROVE NoOrphanUI'
  BY <1>8
  DEF NotConfirmed, Raise, Go, NoRun, data, world, screen, own, mem, NoOrphanUI,
    TypeOK, RunsOK, LockOK, Locked
<1>9. ASSUME NEW r \in Run, Up(r) PROVE NoOrphanUI'
  BY <1>9
  DEF Up, Working, Blind, Tell, screen, world, own, hist, Go, data, mem, NoOrphanUI,
    TypeOK, RunsOK, LockOK, Locked
<1>10. ASSUME NEW r \in Run, Adopt(r) PROVE NoOrphanUI'
  BY <1>10
  DEF Adopt, Go, mem, Quiet, screen, world, own, hist, NoOrphanUI, TypeOK, RunsOK,
    LockOK, Locked
<1>11. ASSUME NEW r \in Run, Scan(r) PROVE NoOrphanUI'
  BY <1>11
  DEF Scan, Working, Blind, Tell, screen, world, own, hist, Go, data, mem, NoOrphanUI,
    TypeOK, RunsOK, LockOK, Locked
<1>12. ASSUME NEW r \in Run, Select(r) PROVE NoOrphanUI'
  BY <1>12
  DEF Select, Go, Unseen, screen, world, data, hist, NoOrphanUI, TypeOK, RunsOK,
    LockOK, Locked
<1>13. ASSUME NEW r \in Run, Prepare(r) PROVE NoOrphanUI'
  BY <1>13
  DEF Prepare, Go, mem, Quiet, screen, world, own, hist, NoOrphanUI, TypeOK, RunsOK,
    LockOK, Locked
<1>14. ASSUME NEW r \in Run, WipeHooks(r) PROVE NoOrphanUI'
  BY <1>14
  DEF WipeHooks, Go, mem, Quiet, screen, world, own, hist, NoOrphanUI, TypeOK, RunsOK,
    LockOK, Locked
<1>15. ASSUME NEW r \in Run, WriteState(r) PROVE NoOrphanUI'
  BY <1>15
  DEF WriteState, Go, Quiet, screen, world, own, hist, NoOrphanUI, TypeOK, RunsOK,
    LockOK, Locked
<1>16. ASSUME NEW r \in Run, KeepItem(r) PROVE NoOrphanUI'
  BY <1>16
  DEF KeepItem, AtItem, data, Quiet, screen, world, own, hist, NoOrphanUI, TypeOK,
    RunsOK, LockOK, Locked
<1>17. ASSUME NEW r \in Run, Extract(r) PROVE NoOrphanUI'
  BY <1>17
  DEF Extract, AtItem, Working, Blind, Tell, screen, world, own, hist, Go, data, mem,
    NoOrphanUI, TypeOK, RunsOK, LockOK, Locked
<1>18. ASSUME NEW r \in Run, Copy(r) PROVE NoOrphanUI'
  BY <1>18
  DEF Copy, Go, Unseen, screen, world, hist, NoOrphanUI, TypeOK, RunsOK, LockOK,
    Locked
<1>19. ASSUME NEW r \in Run, ItemsDone(r) PROVE NoOrphanUI'
  BY <1>19
  DEF ItemsDone, Working, Blind, Tell, screen, world, own, hist, Go, data, NoOrphanUI,
    TypeOK, RunsOK, LockOK, Locked
<1>20. ASSUME NEW r \in Run, SkipHook(r) PROVE NoOrphanUI'
  BY <1>20
  DEF SkipHook, More, data, Quiet, screen, world, own, hist, NoOrphanUI, TypeOK,
    RunsOK, LockOK, Locked
<1>21. ASSUME NEW r \in Run, StartHook(r) PROVE NoOrphanUI'
  BY <1>21
  DEF StartHook, More, Working, Blind, Tell, screen, world, own, hist, Go, data, mem,
    NoOrphanUI, TypeOK, RunsOK, LockOK, Locked
<1>22. ASSUME NEW r \in Run, RunHook(r) PROVE NoOrphanUI'
  BY <1>22
  DEF RunHook, Go, Unseen, screen, world, mem, hist, NoOrphanUI, TypeOK, RunsOK,
    LockOK, Locked
<1>23. ASSUME NEW r \in Run, HookStopped(r) PROVE NoOrphanUI'
  BY <1>23
  DEF HookStopped, Blind, Raise, Go, NoRun, screen, world, own, mem, hist, NoOrphanUI,
    TypeOK, RunsOK, LockOK, Locked
<1>24. ASSUME NEW r \in Run, Mark(r) PROVE NoOrphanUI'
  BY <1>24
  DEF Mark, Go, Quiet, screen, world, own, hist, NoOrphanUI, TypeOK, RunsOK, LockOK,
    Locked
<1>25. ASSUME NEW r \in Run, HooksDone(r) PROVE NoOrphanUI'
  BY <1>25
  DEF HooksDone, More, Working, Blind, Tell, screen, world, own, hist, Go, data, mem,
    NoOrphanUI, TypeOK, RunsOK, LockOK, Locked
<1>26. ASSUME NEW r \in Run, Validate(r) PROVE NoOrphanUI'
  BY <1>26
  DEF Validate, Go, mem, Quiet, screen, world, own, hist, NoOrphanUI, TypeOK, RunsOK,
    LockOK, Locked
<1>27. ASSUME NEW r \in Run, Reject(r) PROVE NoOrphanUI'
  BY <1>27
  DEF Reject, Raise, Go, NoRun, screen, world, own, mem, hist, NoOrphanUI, TypeOK,
    RunsOK, LockOK, Locked
<1>28. ASSUME NEW r \in Run, EnterCommit(r) PROVE NoOrphanUI'
  BY <1>28
  DEF EnterCommit, Working, Blind, Tell, screen, world, own, hist, Go, data, mem,
    NoOrphanUI, TypeOK, RunsOK, LockOK, Locked
<1>29. ASSUME NEW r \in Run, Commit(r) PROVE NoOrphanUI'
  BY <1>29
  DEF Commit, Go, Unseen, screen, world, mem, hist, NoOrphanUI, TypeOK, RunsOK,
    LockOK, Locked
<1>30. ASSUME NEW r \in Run, CommitRejected(r) PROVE NoOrphanUI'
  BY <1>30
  DEF CommitRejected, Raise, Go, NoRun, data, world, screen, own, mem, hist,
    NoOrphanUI, TypeOK, RunsOK, LockOK, Locked
<1>31. ASSUME NEW r \in Run, TellDone(r) PROVE NoOrphanUI'
  BY <1>31
  DEF TellDone, Blind, Tell, Go, data, world, screen, own, mem, hist, NoOrphanUI,
    TypeOK, RunsOK, LockOK, Locked
<1>32. ASSUME NEW r \in Run, ScreenLost(r) PROVE NoOrphanUI'
  BY <1>32
  DEF ScreenLost, More, Blind, Raise, Go, NoRun, data, world, screen, own, mem, hist,
    NoOrphanUI, TypeOK, RunsOK, LockOK, Locked
<1>33. ASSUME NEW r \in Run, Stop(r) PROVE NoOrphanUI'
  BY <1>33
  DEF Stop, StopUI, screen, Go, data, world, own, hist, NoOrphanUI, TypeOK, RunsOK,
    LockOK, Locked
<1>34. ASSUME NEW r \in Run, Unlock(r) PROVE NoOrphanUI'
  BY <1>34
  DEF Unlock, NoRun, Go, data, world, screen, own, mem, NoOrphanUI, TypeOK, RunsOK,
    LockOK, Locked
<1>35. ASSUME NEW r \in Run, Error(r) PROVE NoOrphanUI'
  BY <1>35
  DEF Error, Tell, StopUI, screen, Go, data, world, own, NoOrphanUI, TypeOK, RunsOK,
    LockOK, Locked
<1>36. ASSUME NEW r \in Run, Final(r) PROVE NoOrphanUI'
  BY <1>36
  DEF Final, StopUI, screen, Leave, Go, data, world, NoOrphanUI, TypeOK, RunsOK,
    LockOK, Locked
<1>37. ASSUME NEW r \in Run, NoScreen(r) PROVE NoOrphanUI'
  BY <1>37
  DEF NoScreen, NotInstalled, Raise, Go, NoRun, Mishap, data, world, own, mem,
    NoOrphanUI, TypeOK, RunsOK, LockOK, Locked
<1>38. ASSUME NEW r \in Run, HookDefective(r) PROVE NoOrphanUI'
  BY <1>38
  DEF HookDefective, Go, Unseen, screen, world, Mishap, mem, NoOrphanUI, TypeOK,
    RunsOK, LockOK, Locked
<1>39. ASSUME NEW r \in Run, HookFails(r) PROVE NoOrphanUI'
  BY <1>39
  DEF HookFails, Raise, Go, NoRun, Mishap, screen, world, own, mem, NoOrphanUI,
    TypeOK, RunsOK, LockOK, Locked
<1>40. ASSUME NEW r \in Run, Interrupted(r) PROVE NoOrphanUI'
  BY <1>40
  DEF Interrupted, Raise, Go, NoRun, Mishap, data, world, screen, own, mem,
    NoOrphanUI, TypeOK, RunsOK, LockOK, Locked
<1>41. ASSUME NEW r \in Run, Kill(r) PROVE NoOrphanUI'
  BY <1>41
  DEF Kill, Alive, Leave, Go, NoRun, Showing, data, NoOrphanUI, TypeOK, RunsOK,
    LockOK, Locked
<1>42. ASSUME NEW r \in Run, ErrorRaises(r) PROVE NoOrphanUI'
  BY <1>42
  DEF ErrorRaises, Tell, Go, data, world, screen, own, mem, NoOrphanUI, TypeOK,
    RunsOK, LockOK, Locked
<1>43. ASSUME NEW r \in Run, FinalRaises(r) PROVE NoOrphanUI'
  BY <1>43
  DEF FinalRaises, Leave, Go, Showing, data, world, NoOrphanUI, TypeOK, RunsOK,
    LockOK, Locked
<1>44. ASSUME NEW r \in Run, Publish(r) PROVE NoOrphanUI'
  BY <1>44
  DEF Publish, data, world, own, mem, hist, NoOrphanUI, TypeOK, RunsOK, LockOK, Locked
<1>45. ASSUME NEW r \in Run, ObeyStop(r) PROVE NoOrphanUI'
  BY <1>45
  DEF ObeyStop, Showing, Gone, Alive, data, world, own, mem, hist, NoOrphanUI, TypeOK,
    RunsOK, LockOK, Locked
<1>46. ASSUME NEW r \in Run, UIDies(r) PROVE NoOrphanUI'
  BY <1>46
  DEF UIDies, Showing, Gone, Alive, Mishap, data, world, own, mem, NoOrphanUI, TypeOK,
    RunsOK, LockOK, Locked
<1>47. ASSUME NEW o \in orphan, OrphanWrites(o) PROVE NoOrphanUI'
  BY <1>47
  DEF OrphanWrites, screen, own, mem, hist, NoOrphanUI, TypeOK, RunsOK, LockOK, Locked
<1>48. ASSUME NEW o \in orphan, OrphanEnds(o) PROVE NoOrphanUI'
  BY <1>48
  DEF OrphanEnds, data, screen, own, mem, hist, NoOrphanUI, TypeOK, RunsOK, LockOK,
    Locked
<1>49. CASE Change
  BY <1>49
  DEF Change, Run, Alive, data, screen, own, mem, hist, NoOrphanUI, TypeOK, RunsOK,
    LockOK, Locked
<1>50. CASE UNCHANGED vars
  BY <1>50
  DEF vars, data, world, screen, own, mem, hist, NoOrphanUI, TypeOK, RunsOK, LockOK,
    Locked
<1>51. QED
  BY <1>1, <1>2, <1>3, <1>4, <1>5, <1>6, <1>7, <1>8, <1>9, <1>10, <1>11, <1>12, <1>13,
    <1>14, <1>15, <1>16, <1>17, <1>18, <1>19, <1>20, <1>21, <1>22, <1>23, <1>24,
    <1>25, <1>26, <1>27, <1>28, <1>29, <1>30, <1>31, <1>32, <1>33, <1>34, <1>35,
    <1>36, <1>37, <1>38, <1>39, <1>40, <1>41, <1>42, <1>43, <1>44, <1>45, <1>46,
    <1>47, <1>48, <1>49, <1>50
  DEF Next, Stepping, Failing, Screen

-----------------------------------------------------------------------------
(* The steps *)

\* What a refused or failed extractor may not do, of one step.
LeftAlone ==
  \A k \in Run :
    /\ pc'[k] # pc[k] /\ pc[k] \in {"lock", "error", "final"}
    /\ lock' # k /\ ui[k] = "none"
    => UNCHANGED <<data, screen, lock>>

\* The steps of a run at "lock", "error" or "final" are few, the others' no concern.
LEMMA LoserStep == TypeOK /\ [Next]_vars => LeftAlone
<1> SUFFICES ASSUME TypeOK, [Next]_vars PROVE LeftAlone
  OBVIOUS
<1>1. ASSUME NEW r \in Run, Start(r) PROVE LeftAlone
  BY <1>1
  DEF Start, Run, Alive, Showing, Go, data, world, screen, mem, LeftAlone, TypeOK,
    LockOK, Locked, RunsOK
<1>2. ASSUME NEW r \in Run, TakeLock(r) PROVE LeftAlone
  BY <1>2
  DEF TakeLock, NoRun, Go, data, world, screen, own, mem, hist, LeftAlone, TypeOK,
    LockOK, Locked, RunsOK
<1>3. ASSUME NEW r \in Run, LockBusy(r) PROVE LeftAlone
  BY <1>3
  DEF LockBusy, NoRun, Go, data, mem, Quiet, screen, world, own, hist, LeftAlone,
    TypeOK, LockOK, Locked, RunsOK
<1>4. ASSUME NEW r \in Run, Fast(r) PROVE LeftAlone
  BY <1>4
  DEF Fast, Tell, Go, data, world, screen, own, mem, hist, LeftAlone, TypeOK, LockOK,
    Locked, RunsOK
<1>5. ASSUME NEW r \in Run, OpenScreen(r) PROVE LeftAlone
  BY <1>5
  DEF OpenScreen, NotInstalled, Go, data, world, own, mem, hist, LeftAlone, TypeOK,
    LockOK, Locked, RunsOK, screen
<1>6. ASSUME NEW r \in Run, Headless(r) PROVE LeftAlone
  BY <1>6
  DEF Headless, NotInstalled, Go, data, mem, Quiet, screen, world, own, hist,
    LeftAlone, TypeOK, LockOK, Locked, RunsOK
<1>7. ASSUME NEW r \in Run, Confirm(r) PROVE LeftAlone
  BY <1>7
  DEF Confirm, Showing, Go, data, Quiet, screen, world, own, hist, LeftAlone, TypeOK,
    LockOK, Locked, RunsOK
<1>8. ASSUME NEW r \in Run, NotConfirmed(r) PROVE LeftAlone
  BY <1>8
  DEF NotConfirmed, Raise, Go, NoRun, data, world, screen, own, mem, LeftAlone,
    TypeOK, LockOK, Locked, RunsOK
<1>9. ASSUME NEW r \in Run, Up(r) PROVE LeftAlone
  BY <1>9
  DEF Up, Working, Blind, Tell, screen, world, own, hist, Go, data, mem, LeftAlone,
    TypeOK, LockOK, Locked, RunsOK
<1>10. ASSUME NEW r \in Run, Adopt(r) PROVE LeftAlone
  BY <1>10
  DEF Adopt, Go, mem, Quiet, screen, world, own, hist, LeftAlone, TypeOK, LockOK,
    Locked, RunsOK, data
<1>11. ASSUME NEW r \in Run, Scan(r) PROVE LeftAlone
  BY <1>11
  DEF Scan, Working, Blind, Tell, screen, world, own, hist, Go, data, mem, LeftAlone,
    TypeOK, LockOK, Locked, RunsOK
<1>12. ASSUME NEW r \in Run, Select(r) PROVE LeftAlone
  BY <1>12
  DEF Select, Go, Unseen, screen, world, data, hist, LeftAlone, TypeOK, LockOK,
    Locked, RunsOK
<1>13. ASSUME NEW r \in Run, Prepare(r) PROVE LeftAlone
  BY <1>13
  DEF Prepare, Go, mem, Quiet, screen, world, own, hist, LeftAlone, TypeOK, LockOK,
    Locked, RunsOK, data
<1>14. ASSUME NEW r \in Run, WipeHooks(r) PROVE LeftAlone
  BY <1>14
  DEF WipeHooks, Go, mem, Quiet, screen, world, own, hist, LeftAlone, TypeOK, LockOK,
    Locked, RunsOK, data
<1>15. ASSUME NEW r \in Run, WriteState(r) PROVE LeftAlone
  BY <1>15
  DEF WriteState, Go, Quiet, screen, world, own, hist, LeftAlone, TypeOK, LockOK,
    Locked, RunsOK, data
<1>16. ASSUME NEW r \in Run, KeepItem(r) PROVE LeftAlone
  BY <1>16
  DEF KeepItem, AtItem, data, Quiet, screen, world, own, hist, LeftAlone, TypeOK,
    LockOK, Locked, RunsOK
<1>17. ASSUME NEW r \in Run, Extract(r) PROVE LeftAlone
  BY <1>17
  DEF Extract, AtItem, Working, Blind, Tell, screen, world, own, hist, Go, data, mem,
    LeftAlone, TypeOK, LockOK, Locked, RunsOK
<1>18. ASSUME NEW r \in Run, Copy(r) PROVE LeftAlone
  BY <1>18
  DEF Copy, Go, Unseen, screen, world, hist, LeftAlone, TypeOK, LockOK, Locked,
    RunsOK, data
<1>19. ASSUME NEW r \in Run, ItemsDone(r) PROVE LeftAlone
  BY <1>19
  DEF ItemsDone, Working, Blind, Tell, screen, world, own, hist, Go, data, LeftAlone,
    TypeOK, LockOK, Locked, RunsOK
<1>20. ASSUME NEW r \in Run, SkipHook(r) PROVE LeftAlone
  BY <1>20
  DEF SkipHook, More, data, Quiet, screen, world, own, hist, LeftAlone, TypeOK,
    LockOK, Locked, RunsOK
<1>21. ASSUME NEW r \in Run, StartHook(r) PROVE LeftAlone
  BY <1>21
  DEF StartHook, More, Working, Blind, Tell, screen, world, own, hist, Go, data, mem,
    LeftAlone, TypeOK, LockOK, Locked, RunsOK
<1>22. ASSUME NEW r \in Run, RunHook(r) PROVE LeftAlone
  BY <1>22
  DEF RunHook, Go, Unseen, screen, world, mem, hist, LeftAlone, TypeOK, LockOK,
    Locked, RunsOK, data
<1>23. ASSUME NEW r \in Run, HookStopped(r) PROVE LeftAlone
  BY <1>23
  DEF HookStopped, Blind, Raise, Go, NoRun, screen, world, own, mem, hist, LeftAlone,
    TypeOK, LockOK, Locked, RunsOK, data
<1>24. ASSUME NEW r \in Run, Mark(r) PROVE LeftAlone
  BY <1>24
  DEF Mark, Go, Quiet, screen, world, own, hist, LeftAlone, TypeOK, LockOK, Locked,
    RunsOK, data
<1>25. ASSUME NEW r \in Run, HooksDone(r) PROVE LeftAlone
  BY <1>25
  DEF HooksDone, More, Working, Blind, Tell, screen, world, own, hist, Go, data, mem,
    LeftAlone, TypeOK, LockOK, Locked, RunsOK
<1>26. ASSUME NEW r \in Run, Validate(r) PROVE LeftAlone
  BY <1>26
  DEF Validate, Go, mem, Quiet, screen, world, own, hist, LeftAlone, TypeOK, LockOK,
    Locked, RunsOK, data
<1>27. ASSUME NEW r \in Run, Reject(r) PROVE LeftAlone
  BY <1>27
  DEF Reject, Raise, Go, NoRun, screen, world, own, mem, hist, LeftAlone, TypeOK,
    LockOK, Locked, RunsOK, data
<1>28. ASSUME NEW r \in Run, EnterCommit(r) PROVE LeftAlone
  BY <1>28
  DEF EnterCommit, Working, Blind, Tell, screen, world, own, hist, Go, data, mem,
    LeftAlone, TypeOK, LockOK, Locked, RunsOK
<1>29. ASSUME NEW r \in Run, Commit(r) PROVE LeftAlone
  BY <1>29
  DEF Commit, Go, Unseen, screen, world, mem, hist, LeftAlone, TypeOK, LockOK, Locked,
    RunsOK, data
<1>30. ASSUME NEW r \in Run, CommitRejected(r) PROVE LeftAlone
  BY <1>30
  DEF CommitRejected, Raise, Go, NoRun, data, world, screen, own, mem, hist,
    LeftAlone, TypeOK, LockOK, Locked, RunsOK
<1>31. ASSUME NEW r \in Run, TellDone(r) PROVE LeftAlone
  BY <1>31
  DEF TellDone, Blind, Tell, Go, data, world, screen, own, mem, hist, LeftAlone,
    TypeOK, LockOK, Locked, RunsOK
<1>32. ASSUME NEW r \in Run, ScreenLost(r) PROVE LeftAlone
  BY <1>32
  DEF ScreenLost, More, Blind, Raise, Go, NoRun, data, world, screen, own, mem, hist,
    LeftAlone, TypeOK, LockOK, Locked, RunsOK
<1>33. ASSUME NEW r \in Run, Stop(r) PROVE LeftAlone
  BY <1>33
  DEF Stop, StopUI, screen, Go, data, world, own, hist, LeftAlone, TypeOK, LockOK,
    Locked, RunsOK
<1>34. ASSUME NEW r \in Run, Unlock(r) PROVE LeftAlone
  BY <1>34
  DEF Unlock, NoRun, Go, data, world, screen, own, mem, LeftAlone, TypeOK, LockOK,
    Locked, RunsOK
<1>35. ASSUME NEW r \in Run, Error(r) PROVE LeftAlone
  BY <1>35
  DEF Error, Tell, StopUI, screen, Go, data, world, own, LeftAlone, TypeOK, LockOK,
    Locked, RunsOK
<1>36. ASSUME NEW r \in Run, Final(r) PROVE LeftAlone
  BY <1>36
  DEF Final, StopUI, screen, Leave, Go, data, world, LeftAlone, TypeOK, LockOK,
    Locked, RunsOK
<1>37. ASSUME NEW r \in Run, NoScreen(r) PROVE LeftAlone
  BY <1>37
  DEF NoScreen, NotInstalled, Raise, Go, NoRun, Mishap, data, world, own, mem,
    LeftAlone, TypeOK, LockOK, Locked, RunsOK, screen
<1>38. ASSUME NEW r \in Run, HookDefective(r) PROVE LeftAlone
  BY <1>38
  DEF HookDefective, Go, Unseen, screen, world, Mishap, mem, LeftAlone, TypeOK,
    LockOK, Locked, RunsOK, data
<1>39. ASSUME NEW r \in Run, HookFails(r) PROVE LeftAlone
  BY <1>39
  DEF HookFails, Raise, Go, NoRun, Mishap, screen, world, own, mem, LeftAlone, TypeOK,
    LockOK, Locked, RunsOK, data
<1>40. ASSUME NEW r \in Run, Interrupted(r) PROVE LeftAlone
  BY <1>40
  DEF Interrupted, Raise, Go, NoRun, Mishap, data, world, screen, own, mem, LeftAlone,
    TypeOK, LockOK, Locked, RunsOK
<1>41. ASSUME NEW r \in Run, Kill(r) PROVE LeftAlone
  <2>1. SUFFICES ASSUME NEW k \in Run, pc'[k] # pc[k],
                        pc[k] \in {"lock", "error", "final"}, ui[k] = "none"
                 PROVE  UNCHANGED <<data, screen, lock>>
    BY DEF LeftAlone
  <2>2. k = r
    BY <1>41, <2>1 DEF Kill, Leave, Go, TypeOK, LockOK
  <2>3. ui' = [ui EXCEPT ![r] = "none"] /\ ui[r] = "none"
    BY <1>41, <2>1, <2>2 DEF Kill, Showing
  <2>4. ui' = ui
    BY <2>3 DEF TypeOK, RunsOK
  <2>5. lock' = lock
    BY <1>41, <2>1, <2>2 DEF Kill, TypeOK, LockOK, Locked
  <2>6. QED
    BY <1>41, <2>4, <2>5 DEF Kill, screen
<1>42. ASSUME NEW r \in Run, ErrorRaises(r) PROVE LeftAlone
  BY <1>42
  DEF ErrorRaises, Tell, Go, data, world, screen, own, mem, LeftAlone, TypeOK, LockOK,
    Locked, RunsOK
<1>43. ASSUME NEW r \in Run, FinalRaises(r) PROVE LeftAlone
  BY <1>43
  DEF FinalRaises, Leave, Go, Showing, data, world, LeftAlone, TypeOK, LockOK, Locked,
    RunsOK, screen
<1>44. ASSUME NEW r \in Run, Publish(r) PROVE LeftAlone
  BY <1>44
  DEF Publish, data, world, own, mem, hist, LeftAlone, TypeOK, LockOK, Locked, RunsOK,
    screen
<1>45. ASSUME NEW r \in Run, ObeyStop(r) PROVE LeftAlone
  BY <1>45
  DEF ObeyStop, Showing, Gone, Alive, data, world, own, mem, hist, LeftAlone, TypeOK,
    LockOK, Locked, RunsOK, screen
<1>46. ASSUME NEW r \in Run, UIDies(r) PROVE LeftAlone
  BY <1>46
  DEF UIDies, Showing, Gone, Alive, Mishap, data, world, own, mem, LeftAlone, TypeOK,
    LockOK, Locked, RunsOK, screen
<1>47. ASSUME NEW o \in orphan, OrphanWrites(o) PROVE LeftAlone
  BY <1>47
  DEF OrphanWrites, screen, own, mem, hist, LeftAlone, TypeOK, LockOK, Locked, RunsOK,
    data
<1>48. ASSUME NEW o \in orphan, OrphanEnds(o) PROVE LeftAlone
  BY <1>48
  DEF OrphanEnds, data, screen, own, mem, hist, LeftAlone, TypeOK, LockOK, Locked,
    RunsOK
<1>49. CASE Change
  BY <1>49
  DEF Change, Run, Alive, data, screen, own, mem, hist, LeftAlone, TypeOK, LockOK,
    Locked, RunsOK
<1>50. CASE UNCHANGED vars
  BY <1>50
  DEF vars, data, world, screen, own, mem, hist, LeftAlone, TypeOK, LockOK, Locked,
    RunsOK
<1>51. QED
  BY <1>1, <1>2, <1>3, <1>4, <1>5, <1>6, <1>7, <1>8, <1>9, <1>10, <1>11, <1>12, <1>13,
    <1>14, <1>15, <1>16, <1>17, <1>18, <1>19, <1>20, <1>21, <1>22, <1>23, <1>24,
    <1>25, <1>26, <1>27, <1>28, <1>29, <1>30, <1>31, <1>32, <1>33, <1>34, <1>35,
    <1>36, <1>37, <1>38, <1>39, <1>40, <1>41, <1>42, <1>43, <1>44, <1>45, <1>46,
    <1>47, <1>48, <1>49, <1>50
  DEF Next, Stepping, Failing, Screen

-----------------------------------------------------------------------------
(* Two tries *)

\* Nothing is staged and no plan is on record.
Fresh == stage = Nowhere /\ state = NoState

\* A file as a run without mishaps makes it; the output of a hook.
Clean(p) == stage[p] = NoFile \/ stage[p].sound
MadeBy(h) == stage[Target[h]].sound /\ stage[Target[h]].by # 0

\* How far a run has come, after a failed one, that nothing has disturbed.
Second(r) ==
  /\ pc[r] \notin {"wipe", "reject", "error"}
  /\ pc[r] = "final" => code[r] # "failed"
  /\ pc[r] \in {"lock", "begin", "confirm", "up", "adopt", "scan", "select", "prepare",
                "record"} => Fresh
  /\ pc[r] \in {"extract", "copy", "hook", "run", "mark"} => \A p \in Path : Clean(p)
  /\ pc[r] \in {"extract", "copy"} => \A i \in Item : i < at[r] => stage[i].sound
  /\ pc[r] \in {"hook", "run", "mark"} =>
       /\ \A i \in Item : stage[i].sound
       /\ \A h \in Hook : h < at[r] => MadeBy(h)
  /\ pc[r] = "mark" => MadeBy(at[r])
  /\ pc[r] = "validate" => ValidOutputs(stage, release)

\* A run without a mishap does not lose its screen and commits what it has
\* validated; if it fails, it has emptied the stage; if the one before has failed,
\* it does not.
CalmOK(r) ==
  /\ ui[r] # "dead"
  /\ Showing(r) => ~stop_file
  /\ pc[r] \in {"commit", "publish"} => ValidOutputs(stage, release)
  /\ pc[r] = "reject" => stage = Nowhere
  /\ pc[r] = "error" \/ (pc[r] = "final" /\ code[r] = "failed") => Fresh
  /\ fails = 1 => Second(r)

TriesInv ==
  /\ fails \in {0, 1}
  /\ fails = 1 => orphan = {}
  /\ fails = 1 /\ (\A r \in Run : ~Alive(r)) => Fresh
  /\ \A r \in Run : (pc[r] = "off" => ui[r] = "none") /\ (calm[r] => alone[r])
  /\ \A r \in Run : calm[r] /\ Alive(r) => CalmOK(r)

\* A step of a run that stays alive, and that changes nobody else's fortune.
Step(r) ==
  /\ Alive(r) /\ Alive(r)'
  /\ \A k \in Run \ {r} : pc'[k] = pc[k] /\ ui'[k] = ui[k]
  /\ UNCHANGED <<alone, fails, orphan>>
  /\ \A k \in Run : calm'[k] => calm[k]

\* While a run is alive, only that run can be calm.
LEMMA NobodyElse ==
  ASSUME ScreenInv, TriesInv, NEW r \in Run, Alive(r), NEW k \in Run \ {r}, Alive(k)
  PROVE  ~calm[k]
  BY DEF ScreenInv, SessionOK, TriesInv

\* So a step of one run has to be looked at for this run only.
LEMMA StepOf ==
  ASSUME ScreenInv, TriesInv, NEW r \in Run, Step(r),
         calm'[r] /\ CalmOK(r) => CalmOK(r)'
  PROVE  TriesInv'
<1>1. \A k \in Run \ {r} : Alive(k)' => Alive(k)
  BY DEF Step, Alive
<1>2. \A k \in Run \ {r} : ~(calm'[k] /\ Alive(k)')
  BY <1>1, NobodyElse DEF Step
<1>3. calm'[r] => CalmOK(r)'
  BY DEF Step, TriesInv
<1>4. /\ fails' \in {0, 1} /\ (fails' = 1 => orphan' = {})
      /\ \A k \in Run : (pc'[k] = "off" => ui'[k] = "none") /\ (calm'[k] => alone'[k])
  BY DEF Step, TriesInv, Alive
<1>5. ~\A k \in Run : ~Alive(k)'
  BY DEF Step
<1>6. \A k \in Run : calm'[k] /\ Alive(k)' => CalmOK(k)'
  BY <1>2, <1>3
<1>7. QED
  BY <1>4, <1>5, <1>6 DEF TriesInv

\* The end of a run: it counts only if the run has left nothing to trip over.
LEMMA LeaveOf ==
  ASSUME ScreenInv, TriesInv, TypeOK, NEW r \in Run, Alive(r), NEW cut \in BOOLEAN,
         Leave(r, cut), ~cut => pc[r] = "final" /\ orphan' = orphan,
         UNCHANGED <<stage, state>>, \A k \in Run \ {r} : ui'[k] = ui[k]
  PROVE  TriesInv'
<1>1. /\ pc'[r] = "end" /\ \A k \in Run \ {r} : pc'[k] = pc[k]
      /\ calm'[r] /\ alone'[r]
      /\ \A k \in Run \ {r} : calm'[k] = calm[k] /\ alone'[k] = alone[k]
  BY DEF Leave, Go, TypeOK, LockOK, RunsOK
<1>2. \A k \in Run : ~(calm'[k] /\ Alive(k)')
  BY <1>1, NobodyElse DEF Alive
<1>3. CASE code[r] = "failed" /\ calm[r] /\ ~cut
  <2>1. Fresh /\ fails # 1 /\ alone[r]
    BY <1>3 DEF TriesInv, CalmOK, Second
  <2>2. orphan' = {}
    BY <1>3, <2>1 DEF ScreenInv, SessionOK
  <2>3. fails' = 1 /\ Fresh'
    BY <1>3, <2>1 DEF Leave, TriesInv, Fresh
  <2>4. QED
    BY <1>1, <1>2, <2>2, <2>3 DEF TriesInv
<1>4. CASE ~(code[r] = "failed" /\ calm[r] /\ ~cut)
  <2>1. fails' = 0
    BY <1>4 DEF Leave
  <2>2. QED
    BY <1>1, <1>2, <2>1 DEF TriesInv
<1>5. QED
  BY <1>3, <1>4

\* A step of a screen.
LEMMA ScreenOf ==
  ASSUME ScreenInv, TriesInv, NEW r \in Run, Showing(r),
         UNCHANGED <<stage, state, release, orphan, stop_file, pc, code, fails, at,
                     alone>>,
         \A k \in Run : calm'[k] => calm[k],
         \A k \in Run \ {r} : ui'[k] = ui[k],
         calm'[r] /\ Alive(r) /\ ~stop_file => ui'[r] # "dead"
  PROVE  TriesInv'
<1>1. \A k \in Run : /\ Alive(k)' <=> Alive(k)
                     /\ Fresh' <=> Fresh
                     /\ Second(k) => Second(k)'
                     /\ ValidOutputs(stage, release) => ValidOutputs(stage, release)'
  BY DEF Alive, Second, Fresh, Clean, MadeBy, ValidOutputs, Passes
<1>2. \A k \in Run : pc[k] = "off" => ui'[k] = "none"
  BY DEF TriesInv, Showing
<1>3. ASSUME NEW k \in Run, calm'[k], Alive(k) PROVE CalmOK(k)'
  <2>1. CalmOK(k)
    BY <1>3 DEF TriesInv
  <2>2. ui'[k] # "dead" /\ (Showing(k)' => ~stop_file)
    BY <1>3, <2>1 DEF CalmOK, Showing
  <2>3. QED
    BY <1>1, <2>1, <2>2 DEF CalmOK
<1>4. QED
  BY <1>1, <1>2, <1>3 DEF TriesInv

\* A recipe that accepts what it makes: a stage of the plan of a run in which every
\* extracted path and every hook's path is sound passes the validation.
LEMMA AllMade ==
  ASSUME Complete, StageInv, TypeOK, NEW r \in Run, pc[r] = "hook",
         \A i \in Item : stage[i].sound, \A h \in Hook : MadeBy(h)
  PROVE  ValidOutputs(stage, release)
<1>1. state = Expected(r)
  BY DEF StageInv, InStep
<1>2. ASSUME NEW p \in Path
      PROVE  /\ stage[p].sound /\ Passes(stage[p], release)
             /\ p \in {Target[h] : h \in Hook} => stage[p].by # 0
  <2>1. stage[p].sound
    BY DEF Complete, MadeBy
  <2>2. p \in {Target[h] : h \in Hook} => stage[p].by # 0
    BY DEF MadeBy
  <2>3. ASSUME stage[p].of \in Payloads PROVE <<release, stage[p].of, stage[p].by>> \in Accepts
    <3>1. stage[p] # NoFile
      BY <2>1 DEF NoFile
    <3>2. stage[p].of # Stray
      BY <2>3, InstallAssumption DEF Stray
    <3>3. stage[p].by \in {0, release}
      BY <1>1, <3>1, <3>2 DEF StageInv, Belongs, Expected
    <3>4. release \in Release
      BY DEF TypeOK, FilesOK
    <3>5. QED
      BY <2>3, <3>3, <3>4 DEF Complete
  <2>4. QED
    BY <2>1, <2>2, <2>3 DEF Passes
<1>3. QED
  BY <1>2 DEF ValidOutputs

\* What a run without mishaps leaves to the next one lets that one succeed.
LEMMA TriesStep ==
  ASSUME Complete
  PROVE  TriesInv /\ ScreenInv /\ StageInv /\ TypeOK /\ [Next]_vars => TriesInv'
<1> SUFFICES ASSUME TriesInv, ScreenInv, StageInv, TypeOK, [Next]_vars PROVE TriesInv'
  OBVIOUS
<1>1. ASSUME NEW r \in Run, Start(r) PROVE TriesInv'
  <2>1. /\ pc[r] = "off" /\ pc' = [pc EXCEPT ![r] = "lock"]
        /\ UNCHANGED <<stage, state, release, orphan, screen, code, fails, at>>
        /\ \A k \in Run : calm'[k] => calm[k] /\ alone'[k]
        /\ \A k \in Run \ {r} : Alive(k) => ~alone'[k] /\ ~alone'[r]
    BY <1>1 DEF Start, Go, data, world, mem
  <2>2. pc'[r] = "lock" /\ \A k \in Run \ {r} : pc'[k] = pc[k]
    BY <2>1 DEF TypeOK, LockOK
  <2>3. ASSUME NEW k \in Run \ {r}, Alive(k)' PROVE ~calm'[k]
    BY <2>1, <2>2, <2>3 DEF Alive
  <2>4. ASSUME calm'[r] PROVE CalmOK(r)'
    <3>1. \A k \in Run : ~Alive(k)
      BY <2>1, <2>4 DEF Alive
    <3>2. fails = 1 => Fresh
      BY <3>1 DEF TriesInv
    <3>3. ui[r] = "none"
      BY <2>1 DEF TriesInv
    <3>4. QED
      BY <2>1, <2>2, <3>2, <3>3 DEF CalmOK, Second, Fresh, Showing, screen
  <2>5. Alive(r)' /\ (\A k \in Run : pc'[k] = "off" => ui'[k] = "none")
    BY <2>1, <2>2 DEF Alive, TriesInv, screen
  <2>6. \A k \in Run : calm'[k] /\ Alive(k)' => CalmOK(k)'
    BY <2>3, <2>4
  <2>7. QED
    BY <2>1, <2>5, <2>6 DEF TriesInv
<1>2. ASSUME NEW r \in Run, TakeLock(r) PROVE TriesInv'
  <2>1. Step(r)
    BY <1>2
    DEF TakeLock, NoRun, Go, world, screen, own, mem, hist, Alive, Step, TypeOK,
      LockOK, RunsOK
  <2>2. ASSUME calm'[r], CalmOK(r) PROVE CalmOK(r)'
    BY <1>2, <2>2
    DEF TakeLock, NoRun, Go, data, world, screen, own, mem, hist, CalmOK, Second,
      Fresh, Showing, TypeOK, LockOK, RunsOK
  <2>3. QED
    BY <2>1, <2>2, StepOf
<1>3. ASSUME NEW r \in Run, LockBusy(r) PROVE TriesInv'
  <2>1. Step(r)
    BY <1>3
    DEF LockBusy, NoRun, Go, mem, Quiet, screen, world, own, hist, Alive, Step,
      TypeOK, LockOK, RunsOK
  <2>2. ASSUME calm'[r], CalmOK(r) PROVE CalmOK(r)'
    <3>1. Alive(lock) /\ lock \in Run \ {r} /\ calm[r] /\ Alive(r)
      BY <1>3, <2>2 DEF LockBusy, Quiet, hist, Alive, TypeOK, LockOK, Locked
    <3>2. QED
      BY <3>1, NobodyElse
  <2>3. QED
    BY <2>1, <2>2, StepOf
<1>4. ASSUME NEW r \in Run, Fast(r) PROVE TriesInv'
  <2>1. Step(r)
    BY <1>4
    DEF Fast, Go, world, screen, own, mem, hist, Alive, Step, TypeOK, LockOK, RunsOK
  <2>2. ASSUME calm'[r], CalmOK(r) PROVE CalmOK(r)'
    BY <1>4, <2>2
    DEF Fast, Tell, Go, data, world, screen, own, mem, hist, CalmOK, Second, Fresh,
      Showing, TypeOK, LockOK, RunsOK
  <2>3. QED
    BY <2>1, <2>2, StepOf
<1>5. ASSUME NEW r \in Run, OpenScreen(r) PROVE TriesInv'
  <2>1. Step(r)
    BY <1>5
    DEF OpenScreen, NotInstalled, Go, world, own, mem, hist, Alive, Step, TypeOK,
      LockOK, RunsOK
  <2>2. ASSUME calm'[r], CalmOK(r) PROVE CalmOK(r)'
    BY <1>5, <2>2
    DEF OpenScreen, NotInstalled, Go, data, world, own, mem, hist, CalmOK, Second,
      Fresh, Showing, TypeOK, LockOK, RunsOK
  <2>3. QED
    BY <2>1, <2>2, StepOf
<1>6. ASSUME NEW r \in Run, Headless(r) PROVE TriesInv'
  <2>1. Step(r)
    BY <1>6
    DEF Headless, NotInstalled, Go, mem, Quiet, screen, world, own, hist, Alive, Step,
      TypeOK, LockOK, RunsOK
  <2>2. ASSUME calm'[r], CalmOK(r) PROVE CalmOK(r)'
    BY <1>6, <2>2
    DEF Headless, NotInstalled, Go, data, mem, Quiet, screen, world, own, hist,
      CalmOK, Second, Fresh, Showing, TypeOK, LockOK, RunsOK
  <2>3. QED
    BY <2>1, <2>2, StepOf
<1>7. ASSUME NEW r \in Run, Confirm(r) PROVE TriesInv'
  <2>1. Step(r)
    BY <1>7
    DEF Confirm, Go, Quiet, screen, world, own, hist, Alive, Step, TypeOK, LockOK,
      RunsOK
  <2>2. ASSUME calm'[r], CalmOK(r) PROVE CalmOK(r)'
    BY <1>7, <2>2
    DEF Confirm, Showing, Go, data, Quiet, screen, world, own, hist, mem, CalmOK,
      Second, Fresh, TypeOK, LockOK, RunsOK
  <2>3. QED
    BY <2>1, <2>2, StepOf
<1>8. ASSUME NEW r \in Run, NotConfirmed(r) PROVE TriesInv'
  <2>1. Step(r)
    BY <1>8
    DEF NotConfirmed, Raise, Go, NoRun, world, screen, own, mem, Alive, Step, TypeOK,
      LockOK, RunsOK
  <2>2. ASSUME calm'[r], CalmOK(r) PROVE CalmOK(r)'
    BY <1>8, <2>2
    DEF NotConfirmed, Raise, Go, NoRun, data, world, screen, own, mem, CalmOK, Second,
      Fresh, Showing, TypeOK, LockOK, RunsOK
  <2>3. QED
    BY <2>1, <2>2, StepOf
<1>9. ASSUME NEW r \in Run, Up(r) PROVE TriesInv'
  <2>1. Step(r)
    BY <1>9
    DEF Up, Working, screen, world, own, hist, Go, mem, Alive, Step, TypeOK, LockOK,
      RunsOK
  <2>2. ASSUME calm'[r], CalmOK(r) PROVE CalmOK(r)'
    BY <1>9, <2>2
    DEF Up, Working, Tell, screen, world, own, hist, Go, data, mem, Blind, CalmOK,
      Second, Fresh, Showing, TypeOK, LockOK, RunsOK
  <2>3. QED
    BY <2>1, <2>2, StepOf
<1>10. ASSUME NEW r \in Run, Adopt(r) PROVE TriesInv'
  <2>1. Step(r)
    BY <1>10
    DEF Adopt, Go, mem, Quiet, screen, world, own, hist, Alive, Step, TypeOK, LockOK,
      RunsOK
  <2>2. ASSUME calm'[r], CalmOK(r) PROVE CalmOK(r)'
    BY <1>10, <2>2
    DEF Adopt, Go, mem, Quiet, screen, world, own, hist, CalmOK, Second, Fresh,
      Showing, TypeOK, LockOK, RunsOK
  <2>3. QED
    BY <2>1, <2>2, StepOf
<1>11. ASSUME NEW r \in Run, Scan(r) PROVE TriesInv'
  <2>1. Step(r)
    BY <1>11
    DEF Scan, Working, screen, world, own, hist, Go, mem, Alive, Step, TypeOK, LockOK,
      RunsOK
  <2>2. ASSUME calm'[r], CalmOK(r) PROVE CalmOK(r)'
    BY <1>11, <2>2
    DEF Scan, Working, Tell, screen, world, own, hist, Go, data, mem, Blind, CalmOK,
      Second, Fresh, Showing, TypeOK, LockOK, RunsOK
  <2>3. QED
    BY <2>1, <2>2, StepOf
<1>12. ASSUME NEW r \in Run, Select(r) PROVE TriesInv'
  <2>1. Step(r)
    BY <1>12
    DEF Select, Go, Unseen, screen, world, hist, Alive, Step, TypeOK, LockOK, RunsOK
  <2>2. ASSUME calm'[r], CalmOK(r) PROVE CalmOK(r)'
    BY <1>12, <2>2
    DEF Select, Go, Unseen, screen, world, data, hist, mem, CalmOK, Second, Fresh,
      Showing, TypeOK, LockOK, RunsOK
  <2>3. QED
    BY <2>1, <2>2, StepOf
<1>13. ASSUME NEW r \in Run, Prepare(r) PROVE TriesInv'
  <2>1. Step(r)
    BY <1>13
    DEF Prepare, Go, mem, Quiet, screen, world, own, hist, Alive, Step, TypeOK,
      LockOK, RunsOK
  <2>2. ASSUME calm'[r], CalmOK(r) PROVE CalmOK(r)'
    BY <1>13, <2>2
    DEF Prepare, Go, mem, Quiet, screen, world, own, hist, CalmOK, Second, Fresh,
      Showing, TypeOK, LockOK, RunsOK
  <2>3. QED
    BY <2>1, <2>2, StepOf
<1>14. ASSUME NEW r \in Run, WipeHooks(r) PROVE TriesInv'
  <2>1. Step(r)
    BY <1>14
    DEF WipeHooks, Go, mem, Quiet, screen, world, own, hist, Alive, Step, TypeOK,
      LockOK, RunsOK
  <2>2. ASSUME calm'[r], CalmOK(r) PROVE CalmOK(r)'
    BY <1>14, <2>2
    DEF WipeHooks, Go, mem, Quiet, screen, world, own, hist, CalmOK, Second, Fresh,
      Showing, TypeOK, LockOK, RunsOK
  <2>3. QED
    BY <2>1, <2>2, StepOf
<1>15. ASSUME NEW r \in Run, WriteState(r) PROVE TriesInv'
  <2>1. Step(r)
    BY <1>15
    DEF WriteState, Go, Quiet, screen, world, own, hist, Alive, Step, TypeOK, LockOK,
      RunsOK
  <2>2. ASSUME calm'[r], CalmOK(r) PROVE CalmOK(r)'
    <3>1. /\ pc[r] = "record" /\ pc'[r] = "extract" /\ at'[r] = 1
          /\ UNCHANGED <<stage, ui, stop_file, fails>>
      BY <1>15 DEF WriteState, Go, Quiet, screen, hist, TypeOK, LockOK, RunsOK
    <3>2. fails = 1 => \A p \in Path : stage'[p] = NoFile
      BY <2>2, <3>1 DEF CalmOK, Second, Fresh, Nowhere
    <3>3. \A i \in Item : ~(i < at'[r])
      BY <3>1 DEF Item
    <3>4. QED
      BY <2>2, <3>1, <3>2, <3>3 DEF CalmOK, Second, Clean, Showing
  <2>3. QED
    BY <2>1, <2>2, StepOf
<1>16. ASSUME NEW r \in Run, KeepItem(r) PROVE TriesInv'
  <2>1. Step(r)
    BY <1>16
    DEF KeepItem, AtItem, Quiet, screen, world, own, hist, Alive, Step, TypeOK,
      LockOK, RunsOK
  <2>2. ASSUME calm'[r], CalmOK(r) PROVE CalmOK(r)'
    <3>1. /\ pc[r] = "extract" /\ at'[r] = at[r] + 1 /\ at[r] \in Item
          /\ stage[at[r]].sound
          /\ UNCHANGED <<stage, release, pc, ui, stop_file, fails>>
      BY <1>16, HooksHaveTargets
      DEF KeepItem, AtItem, Kept, Raw, Quiet, data, world, screen, hist, TypeOK, RunsOK
    <3>2. ASSUME fails = 1, NEW i \in Item, i < at'[r] PROVE stage'[i].sound
      <4>1. i < at[r] \/ i = at[r]
        BY <3>1, <3>2 DEF Item
      <4>2. QED
        BY <2>2, <3>1, <3>2, <4>1 DEF CalmOK, Second
    <3>3. fails = 1 => \A p \in Path : Clean(p)'
      BY <2>2, <3>1 DEF CalmOK, Second, Clean
    <3>4. QED
      BY <2>2, <3>1, <3>2, <3>3 DEF CalmOK, Second, Showing
  <2>3. QED
    BY <2>1, <2>2, StepOf
<1>17. ASSUME NEW r \in Run, Extract(r) PROVE TriesInv'
  <2>1. Step(r)
    BY <1>17
    DEF Extract, AtItem, Working, screen, world, own, hist, Go, mem, Alive, Step,
      TypeOK, LockOK, RunsOK
  <2>2. ASSUME calm'[r], CalmOK(r) PROVE CalmOK(r)'
    <3>1. /\ pc[r] = "extract" /\ pc'[r] = "copy"
          /\ UNCHANGED <<stage, at, ui, stop_file, fails>>
      BY <1>17
      DEF Extract, AtItem, Working, Go, data, mem, screen, hist, TypeOK, LockOK
    <3>2. fails = 1 => \A p \in Path : Clean(p)'
      BY <2>2, <3>1 DEF CalmOK, Second, Clean
    <3>3. QED
      BY <2>2, <3>1, <3>2 DEF CalmOK, Second, Showing
  <2>3. QED
    BY <2>1, <2>2, StepOf
<1>18. ASSUME NEW r \in Run, Copy(r) PROVE TriesInv'
  <2>1. Step(r)
    BY <1>18
    DEF Copy, Go, Unseen, screen, world, hist, Alive, Step, TypeOK, LockOK, RunsOK
  <2>2. ASSUME calm'[r], CalmOK(r) PROVE CalmOK(r)'
    <3>1. /\ pc[r] = "copy" /\ pc'[r] = "extract"
          /\ at'[r] = at[r] + 1 /\ at[r] \in Item
          /\ UNCHANGED <<ui, stop_file, fails>>
      BY <1>18 DEF Copy, Unseen, Go, screen, hist, TypeOK, LockOK, RunsOK
    <3>2. \A p \in Path : stage'[p] = IF p = at[r] THEN Raw(sel[r]) ELSE stage[p]
      BY <1>18 DEF Copy, TypeOK, FilesOK
    <3>3. ASSUME fails = 1, NEW i \in Item, i < at'[r] PROVE stage'[i].sound
      <4>1. i < at[r] \/ i = at[r]
        BY <3>1, <3>3 DEF Item
      <4>2. QED
        BY <2>2, <3>1, <3>2, <3>3, <4>1, HooksHaveTargets DEF CalmOK, Second, Raw
    <3>4. fails = 1 => \A p \in Path : Clean(p)'
      BY <2>2, <3>1, <3>2 DEF CalmOK, Second, Clean, Raw
    <3>5. QED
      BY <2>2, <3>1, <3>3, <3>4 DEF CalmOK, Second, Showing
  <2>3. QED
    BY <2>1, <2>2, StepOf
<1>19. ASSUME NEW r \in Run, ItemsDone(r) PROVE TriesInv'
  <2>1. Step(r)
    BY <1>19
    DEF ItemsDone, Working, screen, world, own, hist, Go, Alive, Step, TypeOK, LockOK,
      RunsOK
  <2>2. ASSUME calm'[r], CalmOK(r) PROVE CalmOK(r)'
    <3>1. /\ pc[r] = "extract" /\ pc'[r] = "hook" /\ at'[r] = 1
          /\ \A i \in Item : i < at[r]
          /\ UNCHANGED <<stage, ui, stop_file, fails>>
      BY <1>19, InstallAssumption
      DEF ItemsDone, Working, Go, data, screen, hist, Item, TypeOK, LockOK, RunsOK
    <3>2. fails = 1 => (\A p \in Path : Clean(p)') /\ \A i \in Item : stage'[i].sound
      BY <2>2, <3>1 DEF CalmOK, Second, Clean
    <3>3. \A h \in Hook : ~(h < at'[r])
      BY <3>1, HooksHaveTargets DEF Hook
    <3>4. QED
      BY <2>2, <3>1, <3>2, <3>3 DEF CalmOK, Second, Showing
  <2>3. QED
    BY <2>1, <2>2, StepOf
<1>20. ASSUME NEW r \in Run, SkipHook(r) PROVE TriesInv'
  <2>1. Step(r)
    BY <1>20
    DEF SkipHook, More, Quiet, screen, world, own, hist, Alive, Step, TypeOK, LockOK,
      RunsOK
  <2>2. ASSUME calm'[r], CalmOK(r) PROVE CalmOK(r)'
    <3>1. /\ pc[r] = "hook" /\ at[r] \in Hook /\ at'[r] = at[r] + 1
          /\ UNCHANGED <<stage, pc, ui, stop_file, fails>>
      BY <1>20, HooksHaveTargets
      DEF SkipHook, More, Quiet, data, screen, hist, TypeOK, RunsOK
    <3>2. stage[Target[at[r]]] # NoFile /\ stage[Target[at[r]]].by # 0
      BY <1>20 DEF SkipHook, Resumable, CheckpointValid, Complete
    <3>3. ASSUME fails = 1, NEW h \in Hook, h < at'[r] PROVE MadeBy(h)'
      <4>1. MadeBy(at[r])
        BY <2>2, <3>1, <3>2, <3>3, HooksHaveTargets DEF CalmOK, Second, Clean, MadeBy
      <4>2. h < at[r] \/ h = at[r]
        BY <3>1, <3>3 DEF Hook
      <4>3. MadeBy(h)
        BY <2>2, <3>1, <3>3, <4>1, <4>2 DEF CalmOK, Second
      <4>4. QED
        BY <3>1, <4>3 DEF MadeBy
    <3>4. fails = 1 => (\A p \in Path : Clean(p)') /\ \A i \in Item : stage'[i].sound
      BY <2>2, <3>1 DEF CalmOK, Second, Clean
    <3>5. QED
      BY <2>2, <3>1, <3>3, <3>4 DEF CalmOK, Second, Showing
  <2>3. QED
    BY <2>1, <2>2, StepOf
<1>21. ASSUME NEW r \in Run, StartHook(r) PROVE TriesInv'
  <2>1. Step(r)
    BY <1>21
    DEF StartHook, More, Working, screen, world, own, hist, Go, mem, Alive, Step,
      TypeOK, LockOK, RunsOK
  <2>2. ASSUME calm'[r], CalmOK(r) PROVE CalmOK(r)'
    <3>1. /\ pc[r] = "hook" /\ pc'[r] = "run"
          /\ UNCHANGED <<stage, at, ui, stop_file, fails>>
      BY <1>21
      DEF StartHook, More, Working, Go, data, mem, screen, hist, TypeOK, LockOK
    <3>2. fails = 1 => /\ \A p \in Path : Clean(p)'
                       /\ \A h \in Hook : h < at[r] => MadeBy(h)'
      BY <2>2, <3>1 DEF CalmOK, Second, Clean, MadeBy
    <3>3. QED
      BY <2>2, <3>1, <3>2 DEF CalmOK, Second, Showing
  <2>3. QED
    BY <2>1, <2>2, StepOf
<1>22. ASSUME NEW r \in Run, RunHook(r) PROVE TriesInv'
  <2>1. Step(r)
    BY <1>22
    DEF RunHook, Go, Unseen, screen, world, mem, hist, Alive, Step, TypeOK, LockOK,
      RunsOK
  <2>2. ASSUME calm'[r], CalmOK(r) PROVE CalmOK(r)'
    <3>1. /\ pc[r] = "run" /\ pc'[r] = "mark" /\ at[r] \in Hook
          /\ UNCHANGED <<at, ui, stop_file, fails>>
      BY <1>22, HooksHaveTargets
      DEF RunHook, Unseen, Go, mem, screen, hist, TypeOK, RunsOK, LockOK
    <3>2. /\ stage'[Target[at[r]]].sound = stage[1].sound
          /\ stage'[Target[at[r]]].by # 0
          /\ \A p \in Path \ {Target[at[r]]} : stage'[p] = stage[p]
      <4>1. stage' = [stage EXCEPT ![Target[at[r]]] =
                        Hooked(stage[1].of, release, TRUE /\ stage[1].sound)]
        BY <1>22 DEF RunHook, Writes
      <4>2. stage[1].sound \in BOOLEAN /\ release # 0
        BY HooksHaveTargets, InstallAssumption DEF TypeOK, FilesOK, File, Release
      <4>3. QED
        BY <3>1, <4>1, <4>2, HooksHaveTargets DEF Hooked, TypeOK, FilesOK
    <3>3. fails = 1 => stage'[Target[at[r]]].sound
      BY <2>2, <3>1, <3>2, HooksHaveTargets DEF CalmOK, Second
    <3>4. /\ fails = 1 => \A p \in Path : Clean(p)'
          /\ fails = 1 => \A i \in Item : stage'[i].sound
      BY <2>2, <3>1, <3>2, <3>3, HooksHaveTargets DEF CalmOK, Second, Clean
    <3>5. fails = 1 => \A h \in Hook : h < at[r] => MadeBy(h)'
      BY <2>2, <3>1, <3>2, <3>3, HooksHaveTargets DEF CalmOK, Second, MadeBy
    <3>6. fails = 1 => MadeBy(at[r])'
      BY <3>1, <3>2, <3>3 DEF MadeBy
    <3>7. QED
      BY <2>2, <3>1, <3>4, <3>5, <3>6 DEF CalmOK, Second, Showing
  <2>3. QED
    BY <2>1, <2>2, StepOf
<1>23. ASSUME NEW r \in Run, HookStopped(r) PROVE TriesInv'
  <2>1. Step(r)
    BY <1>23
    DEF HookStopped, Raise, Go, NoRun, screen, world, own, mem, hist, Alive, Step,
      TypeOK, LockOK, RunsOK
  <2>2. ASSUME calm'[r], CalmOK(r) PROVE CalmOK(r)'
    BY <1>23, <2>2 DEF HookStopped, Blind, CalmOK
  <2>3. QED
    BY <2>1, <2>2, StepOf
<1>24. ASSUME NEW r \in Run, Mark(r) PROVE TriesInv'
  <2>1. Step(r)
    BY <1>24
    DEF Mark, Go, Quiet, screen, world, own, hist, Alive, Step, TypeOK, LockOK, RunsOK
  <2>2. ASSUME calm'[r], CalmOK(r) PROVE CalmOK(r)'
    <3>1. /\ pc[r] = "mark" /\ pc'[r] = "hook"
          /\ at[r] \in Hook /\ at'[r] = at[r] + 1
          /\ UNCHANGED <<stage, ui, stop_file, fails>>
      BY <1>24 DEF Mark, Quiet, Go, screen, hist, TypeOK, RunsOK, LockOK
    <3>2. ASSUME fails = 1, NEW h \in Hook, h < at'[r] PROVE MadeBy(h)'
      <4>1. h < at[r] \/ h = at[r]
        BY <3>1, <3>2 DEF Hook
      <4>2. MadeBy(h)
        BY <2>2, <3>1, <3>2, <4>1 DEF CalmOK, Second
      <4>3. QED
        BY <3>1, <4>2 DEF MadeBy
    <3>3. fails = 1 => (\A p \in Path : Clean(p)') /\ \A i \in Item : stage'[i].sound
      BY <2>2, <3>1 DEF CalmOK, Second, Clean
    <3>4. QED
      BY <2>2, <3>1, <3>2, <3>3 DEF CalmOK, Second, Showing
  <2>3. QED
    BY <2>1, <2>2, StepOf
<1>25. ASSUME NEW r \in Run, HooksDone(r) PROVE TriesInv'
  <2>1. Step(r)
    BY <1>25
    DEF HooksDone, More, Working, screen, world, own, hist, Go, mem, Alive, Step,
      TypeOK, LockOK, RunsOK
  <2>2. ASSUME calm'[r], CalmOK(r) PROVE CalmOK(r)'
    <3>1. /\ pc[r] = "hook" /\ pc'[r] = "validate" /\ \A h \in Hook : h < at[r]
          /\ UNCHANGED <<stage, release, ui, stop_file, fails>>
      BY <1>25, HooksHaveTargets
      DEF HooksDone, More, Working, Go, data, world, screen, hist, TypeOK, RunsOK, LockOK,
        Hook
    <3>2. ASSUME fails = 1 PROVE ValidOutputs(stage, release)
      BY <2>2, <3>1, <3>2, AllMade DEF CalmOK, Second
    <3>3. ValidOutputs(stage, release) => ValidOutputs(stage, release)'
      BY <3>1 DEF ValidOutputs, Passes
    <3>4. QED
      BY <2>2, <3>1, <3>2, <3>3 DEF CalmOK, Second, Showing
  <2>3. QED
    BY <2>1, <2>2, StepOf
<1>26. ASSUME NEW r \in Run, Validate(r) PROVE TriesInv'
  <2>1. Step(r)
    BY <1>26
    DEF Validate, Go, mem, Quiet, screen, world, own, hist, Alive, Step, TypeOK,
      LockOK, RunsOK
  <2>2. ASSUME calm'[r], CalmOK(r) PROVE CalmOK(r)'
    <3>1. /\ pc[r] = "validate" /\ UNCHANGED <<release, ui, stop_file, fails>>
      BY <1>26 DEF Validate, Quiet, world, screen, hist
    <3>2. CASE ValidOutputs(stage, release)
      <4>1. pc'[r] = "commit" /\ stage' = stage
        BY <1>26, <3>2 DEF Validate, Go, TypeOK, LockOK
      <4>2. ValidOutputs(stage, release)'
        BY <3>1, <3>2, <4>1 DEF ValidOutputs, Passes
      <4>3. QED
        BY <2>2, <3>1, <4>1, <4>2 DEF CalmOK, Second, Showing
    <3>3. CASE ~ValidOutputs(stage, release)
      <4>1. pc'[r] = "reject" /\ stage' = Nowhere
        BY <1>26, <3>3 DEF Validate, Go, TypeOK, LockOK
      <4>2. fails # 1
        BY <2>2, <3>1, <3>3 DEF CalmOK, Second
      <4>3. QED
        BY <2>2, <3>1, <4>1, <4>2 DEF CalmOK, Showing, Nowhere
    <3>4. QED
      BY <3>2, <3>3
  <2>3. QED
    BY <2>1, <2>2, StepOf
<1>27. ASSUME NEW r \in Run, Reject(r) PROVE TriesInv'
  <2>1. Step(r)
    BY <1>27
    DEF Reject, Raise, Go, NoRun, screen, world, own, mem, hist, Alive, Step, TypeOK,
      LockOK, RunsOK
  <2>2. ASSUME calm'[r], CalmOK(r) PROVE CalmOK(r)'
    <3>1. /\ pc[r] = "reject" /\ pc'[r] = "error" /\ state' = NoState
          /\ UNCHANGED <<stage, ui, stop_file, fails>>
      BY <1>27 DEF Reject, Raise, Go, screen, hist, TypeOK, LockOK
    <3>2. stage = Nowhere /\ fails # 1
      BY <2>2, <3>1 DEF CalmOK, Second
    <3>3. QED
      BY <2>2, <3>1, <3>2 DEF CalmOK, Fresh, Showing
  <2>3. QED
    BY <2>1, <2>2, StepOf
<1>28. ASSUME NEW r \in Run, EnterCommit(r) PROVE TriesInv'
  <2>1. Step(r)
    BY <1>28
    DEF EnterCommit, Working, screen, world, own, hist, Go, mem, Alive, Step, TypeOK,
      LockOK, RunsOK
  <2>2. ASSUME calm'[r], CalmOK(r) PROVE CalmOK(r)'
    <3>1. /\ pc[r] = "commit" /\ pc'[r] = "publish"
          /\ UNCHANGED <<stage, release, ui, stop_file, fails>>
      BY <1>28
      DEF EnterCommit, Working, Go, data, world, screen, hist, TypeOK, LockOK
    <3>2. ValidOutputs(stage, release)'
      BY <2>2, <3>1 DEF CalmOK, ValidOutputs, Passes
    <3>3. QED
      BY <2>2, <3>1, <3>2 DEF CalmOK, Second, Showing
  <2>3. QED
    BY <2>1, <2>2, StepOf
<1>29. ASSUME NEW r \in Run, Commit(r) PROVE TriesInv'
  <2>1. Step(r)
    BY <1>29
    DEF Commit, Go, Unseen, screen, world, mem, hist, Alive, Step, TypeOK, LockOK,
      RunsOK
  <2>2. ASSUME calm'[r], CalmOK(r) PROVE CalmOK(r)'
    BY <1>29, <2>2
    DEF Commit, Go, Unseen, screen, world, mem, hist, CalmOK, Second, Fresh, Showing,
      TypeOK, LockOK, RunsOK
  <2>3. QED
    BY <2>1, <2>2, StepOf
<1>30. ASSUME NEW r \in Run, CommitRejected(r) PROVE TriesInv'
  <2>1. Step(r)
    BY <1>30
    DEF CommitRejected, Raise, Go, NoRun, world, screen, own, mem, hist, Alive, Step,
      TypeOK, LockOK, RunsOK
  <2>2. ASSUME calm'[r], CalmOK(r) PROVE CalmOK(r)'
    BY <1>30, <2>2 DEF CommitRejected, CalmOK
  <2>3. QED
    BY <2>1, <2>2, StepOf
<1>31. ASSUME NEW r \in Run, TellDone(r) PROVE TriesInv'
  <2>1. Step(r)
    BY <1>31
    DEF TellDone, Go, world, screen, own, mem, hist, Alive, Step, TypeOK, LockOK,
      RunsOK
  <2>2. ASSUME calm'[r], CalmOK(r) PROVE CalmOK(r)'
    BY <1>31, <2>2
    DEF TellDone, Tell, Go, data, world, screen, own, mem, hist, Blind, CalmOK,
      Second, Fresh, Showing, TypeOK, LockOK, RunsOK
  <2>3. QED
    BY <2>1, <2>2, StepOf
<1>32. ASSUME NEW r \in Run, ScreenLost(r) PROVE TriesInv'
  <2>1. Step(r)
    BY <1>32
    DEF ScreenLost, More, Raise, Go, NoRun, world, screen, own, mem, hist, Alive,
      Step, TypeOK, LockOK, RunsOK
  <2>2. ASSUME calm'[r], CalmOK(r) PROVE CalmOK(r)'
    BY <1>32, <2>2 DEF ScreenLost, Blind, CalmOK
  <2>3. QED
    BY <2>1, <2>2, StepOf
<1>33. ASSUME NEW r \in Run, Stop(r) PROVE TriesInv'
  <2>1. Step(r)
    BY <1>33
    DEF Stop, StopUI, screen, Go, world, own, hist, Alive, Step, TypeOK, LockOK,
      RunsOK
  <2>2. ASSUME calm'[r], CalmOK(r) PROVE CalmOK(r)'
    BY <1>33, <2>2
    DEF Stop, StopUI, screen, Go, data, world, own, hist, mem, CalmOK, Second, Fresh,
      Showing, TypeOK, LockOK, RunsOK
  <2>3. QED
    BY <2>1, <2>2, StepOf
<1>34. ASSUME NEW r \in Run, Unlock(r) PROVE TriesInv'
  <2>1. Step(r)
    BY <1>34
    DEF Unlock, NoRun, Go, world, screen, own, mem, Alive, Step, TypeOK, LockOK,
      RunsOK
  <2>2. ASSUME calm'[r], CalmOK(r) PROVE CalmOK(r)'
    BY <1>34, <2>2
    DEF Unlock, NoRun, Go, data, world, screen, own, mem, CalmOK, Second, Fresh,
      Showing, TypeOK, LockOK, RunsOK
  <2>3. QED
    BY <2>1, <2>2, StepOf
<1>35. ASSUME NEW r \in Run, Error(r) PROVE TriesInv'
  <2>1. Step(r)
    BY <1>35
    DEF Error, StopUI, screen, Go, world, own, Alive, Step, TypeOK, LockOK, RunsOK
  <2>2. ASSUME calm'[r], CalmOK(r) PROVE CalmOK(r)'
    BY <1>35, <2>2
    DEF Error, Tell, StopUI, screen, Go, data, world, own, mem, CalmOK, Second, Fresh,
      Showing, TypeOK, LockOK, RunsOK
  <2>3. QED
    BY <2>1, <2>2, StepOf
<1>36. ASSUME NEW r \in Run, Final(r) PROVE TriesInv'
  <2>1. /\ Alive(r) /\ Leave(r, code[r] = "cut") /\ UNCHANGED <<stage, state, orphan>>
        /\ \A k \in Run \ {r} : ui'[k] = ui[k]
    BY <1>36 DEF Final, Alive, StopUI, screen, data, world, TypeOK, RunsOK
  <2>2. QED
    BY <1>36, <2>1, LeaveOf DEF Final
<1>37. ASSUME NEW r \in Run, NoScreen(r) PROVE TriesInv'
  <2>1. Step(r)
    BY <1>37
    DEF NoScreen, NotInstalled, Raise, Go, NoRun, Mishap, world, own, mem, Alive,
      Step, TypeOK, LockOK, RunsOK
  <2>2. ~calm'[r]
    BY <1>37 DEF NoScreen, Mishap, TypeOK, RunsOK
  <2>3. QED
    BY <2>1, <2>2, StepOf
<1>38. ASSUME NEW r \in Run, HookDefective(r) PROVE TriesInv'
  <2>1. Step(r)
    BY <1>38
    DEF HookDefective, Go, Unseen, screen, world, Mishap, mem, Alive, Step, TypeOK,
      LockOK, RunsOK
  <2>2. ~calm'[r]
    BY <1>38 DEF HookDefective, Mishap, TypeOK, RunsOK
  <2>3. QED
    BY <2>1, <2>2, StepOf
<1>39. ASSUME NEW r \in Run, HookFails(r) PROVE TriesInv'
  <2>1. Step(r)
    BY <1>39
    DEF HookFails, Raise, Go, NoRun, Mishap, screen, world, own, mem, Alive, Step,
      TypeOK, LockOK, RunsOK
  <2>2. ~calm'[r]
    BY <1>39 DEF HookFails, Mishap, TypeOK, RunsOK
  <2>3. QED
    BY <2>1, <2>2, StepOf
<1>40. ASSUME NEW r \in Run, Interrupted(r) PROVE TriesInv'
  <2>1. Step(r)
    BY <1>40
    DEF Interrupted, Raise, Go, NoRun, Mishap, world, screen, own, mem, Alive, Step,
      TypeOK, LockOK, RunsOK, Locked
  <2>2. ~calm'[r]
    BY <1>40 DEF Interrupted, Mishap, TypeOK, RunsOK
  <2>3. QED
    BY <2>1, <2>2, StepOf
<1>41. ASSUME NEW r \in Run, Kill(r) PROVE TriesInv'
  <2>1. /\ Alive(r) /\ Leave(r, TRUE) /\ UNCHANGED <<stage, state>>
        /\ \A k \in Run \ {r} : ui'[k] = ui[k]
    BY <1>41 DEF Kill, data, TypeOK, RunsOK
  <2>2. QED
    BY <1>41, <2>1, LeaveOf
<1>42. ASSUME NEW r \in Run, ErrorRaises(r) PROVE TriesInv'
  <2>1. Step(r)
    BY <1>42
    DEF ErrorRaises, Go, world, screen, own, mem, Alive, Step, TypeOK, LockOK, RunsOK
  <2>2. ASSUME calm'[r], CalmOK(r) PROVE CalmOK(r)'
    BY <1>42, <2>2
    DEF ErrorRaises, Tell, Go, data, world, screen, own, mem, CalmOK, Second, Fresh,
      Showing, TypeOK, LockOK, RunsOK
  <2>3. QED
    BY <2>1, <2>2, StepOf
<1>43. ASSUME NEW r \in Run, FinalRaises(r) PROVE TriesInv'
  <2>1. /\ Alive(r) /\ Leave(r, TRUE) /\ UNCHANGED <<stage, state>>
        /\ \A k \in Run \ {r} : ui'[k] = ui[k]
    BY <1>43 DEF FinalRaises, Alive, data, TypeOK, RunsOK
  <2>2. QED
    BY <1>43, <2>1, LeaveOf
<1>44. ASSUME NEW r \in Run, Publish(r) PROVE TriesInv'
  <2>1. /\ Showing(r)
        /\ UNCHANGED <<stage, state, release, orphan, stop_file, pc, code, fails, at,
                       alone>>
        /\ \A k \in Run : calm'[k] => calm[k]
        /\ \A k \in Run \ {r} : ui'[k] = ui[k]
        /\ calm'[r] /\ Alive(r) /\ ~stop_file => ui'[r] # "dead"
    BY <1>44 DEF Publish, Showing, data, world, mem, hist, TypeOK, RunsOK
  <2>2. QED
    BY <2>1, ScreenOf
<1>45. ASSUME NEW r \in Run, ObeyStop(r) PROVE TriesInv'
  <2>1. /\ Showing(r)
        /\ UNCHANGED <<stage, state, release, orphan, stop_file, pc, code, fails, at,
                       alone>>
        /\ \A k \in Run : calm'[k] => calm[k]
        /\ \A k \in Run \ {r} : ui'[k] = ui[k]
        /\ calm'[r] /\ Alive(r) /\ ~stop_file => ui'[r] # "dead"
    BY <1>45 DEF ObeyStop, Gone, data, world, mem, hist
  <2>2. QED
    BY <2>1, ScreenOf
<1>46. ASSUME NEW r \in Run, UIDies(r) PROVE TriesInv'
  <2>1. /\ Showing(r)
        /\ UNCHANGED <<stage, state, release, orphan, stop_file, pc, code, fails, at,
                       alone>>
        /\ \A k \in Run : calm'[k] => calm[k]
        /\ \A k \in Run \ {r} : ui'[k] = ui[k]
        /\ calm'[r] /\ Alive(r) /\ ~stop_file => ui'[r] # "dead"
    BY <1>46 DEF UIDies, Gone, Mishap, data, world, mem, TypeOK, RunsOK
  <2>2. QED
    BY <2>1, ScreenOf
<1>47. ASSUME NEW o \in orphan, OrphanWrites(o) PROVE TriesInv'
  <2>1. fails # 1 /\ \A r \in Run : ~(calm[r] /\ Alive(r))
    BY DEF TriesInv, ScreenInv, SessionOK
  <2>2. UNCHANGED <<pc, ui, fails, calm, alone>>
    BY <1>47 DEF OrphanWrites, screen, hist
  <2>3. QED
    BY <2>1, <2>2 DEF TriesInv, Alive
<1>48. ASSUME NEW o \in orphan, OrphanEnds(o) PROVE TriesInv'
  <2>1. fails # 1 /\ \A r \in Run : ~(calm[r] /\ Alive(r))
    BY DEF TriesInv, ScreenInv, SessionOK
  <2>2. UNCHANGED <<pc, ui, fails, calm, alone>>
    BY <1>48 DEF OrphanEnds, screen, hist
  <2>3. QED
    BY <2>1, <2>2 DEF TriesInv, Alive
<1>49. CASE Change
  BY <1>49
  DEF Change, Alive, data, screen, own, mem, hist, TriesInv, Fresh
<1>50. CASE UNCHANGED vars
  <2>1. UNCHANGED <<stage, state, release, orphan, ui, stop_file, pc, code, fails, at,
                    calm, alone>>
    BY <1>50 DEF vars, data, world, screen, mem, hist
  <2>2. \A k \in Run : (Alive(k)' <=> Alive(k)) /\ (CalmOK(k) => CalmOK(k)')
    BY <2>1
    DEF Alive, CalmOK, Second, Fresh, Showing, Clean, MadeBy, ValidOutputs, Passes
  <2>3. QED
    BY <2>1, <2>2 DEF TriesInv, Fresh
<1>51. QED
  BY <1>1, <1>2, <1>3, <1>4, <1>5, <1>6, <1>7, <1>8, <1>9, <1>10, <1>11, <1>12, <1>13,
    <1>14, <1>15, <1>16, <1>17, <1>18, <1>19, <1>20, <1>21, <1>22, <1>23, <1>24,
    <1>25, <1>26, <1>27, <1>28, <1>29, <1>30, <1>31, <1>32, <1>33, <1>34, <1>35,
    <1>36, <1>37, <1>38, <1>39, <1>40, <1>41, <1>42, <1>43, <1>44, <1>45, <1>46,
    <1>47, <1>48, <1>49, <1>50
  DEF Next, Stepping, Failing, Screen

-----------------------------------------------------------------------------

\* The screen of a run that is alone is there whenever the run's session is.
THEOREM ScreenCorrect == Spec => []ScreenInv
<1>1. Init => ScreenInv
  BY DEF Init, ScreenInv, SessionOK, Alive, Showing, InSession, AtWork
<1>2. ScreenInv /\ TypeOK /\ [Next]_vars => ScreenInv'
  BY ScreenStep
<1>3. QED
  BY <1>1, <1>2, TypeCorrect, PTL DEF Spec

\* A run that has ended by itself leaves no screen behind.
THEOREM NoScreenLeftBehind == Spec => []NoOrphanUI
<1>1. Init => NoOrphanUI
  BY DEF Init, NoOrphanUI
<1>2. NoOrphanUI /\ TypeOK /\ [Next]_vars => NoOrphanUI'
  BY OrphanStep
<1>3. QED
  BY <1>1, <1>2, TypeCorrect, PTL DEF Spec

\* An extractor that is refused the lock, or that fails without a screen of its
\* own, changes neither data nor another run's screen.
THEOREM LosersHarmNothing == Spec => LoserLeavesAlone
<1>1. TypeOK /\ [Next]_vars =>
        [\A r \in Run :
           /\ pc'[r] # pc[r] /\ pc[r] \in {"lock", "error", "final"}
           /\ lock' # r /\ ui[r] = "none"
           => UNCHANGED <<data, screen, lock>>]_vars
  BY LoserStep DEF LeftAlone
<1>2. QED
  BY <1>1, TypeCorrect, PTL DEF Spec, LoserLeavesAlone

\* Of a run that is alone and requires a screen, the steps that read the payload,
\* write the stage or publish it are taken in sight of that screen, but for the
\* one that was at hand when the screen died.
THEOREM WorkInSight == Spec => SetupInSight
<1>1. ScreenInv =>
        [\A r \in Run :
           /\ require[r] /\ alone[r]
           /\ pc[r] \in {"select", "copy", "run", "publish"}
           /\ pc'[r] \notin {pc[r], "error", "end"}
           => ui[r] = "visible" \/ (ui[r] = "dead" /\ ~dark[r])]_vars
  BY DEF ScreenInv, SessionOK, InSession, AtWork
<1>2. QED
  BY <1>1, ScreenCorrect, PTL DEF SetupInSight

\* What a run leaves to the next one, and how far that one comes.
THEOREM TriesCorrect == ASSUME Complete PROVE Spec => []TriesInv
<1>1. Init => TriesInv
  <2> SUFFICES ASSUME Init PROVE TriesInv
    OBVIOUS
  <2>1. /\ fails = 0
        /\ \A r \in Run : /\ ~Alive(r) /\ ui[r] = "none" /\ alone[r]
    BY DEF Init, Alive
  <2>2. QED
    BY <2>1 DEF TriesInv
<1>2. TriesInv /\ ScreenInv /\ StageInv /\ TypeOK /\ [Next]_vars => TriesInv'
  BY TriesStep
<1>3. QED
  BY <1>1, <1>2, TypeCorrect, ScreenCorrect, StageAndDone, PTL DEF Spec

\* Where the recipe makes every path that it commits, tells what a hook leaves from
\* what is extracted and accepts what it makes itself, two runs without a mishap do
\* not fail in a row, whatever the runs before have left (the handler in
\* install_command that removes what has failed validation).
THEOREM SecondTrySucceeds == ASSUME Complete PROVE Spec => []TwoTries
<1>1. TriesInv => TwoTries
  BY DEF TriesInv, TwoTries
<1>2. QED
  BY <1>1, TriesCorrect, PTL
=============================================================================
