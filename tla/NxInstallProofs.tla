--------------------------- MODULE NxInstallProofs ---------------------------
(***************************************************************************)
(* For any number of extractors, mishaps, payloads, paths, hooks and hooks *)
(* that outlive their extractor: the types, the lock and the files keep    *)
(* together, what is published belongs to the plan of the run that         *)
(* publishes it, and the progress file says that the game data is ready    *)
(* only when it is.                                                        *)
(***************************************************************************)
EXTENDS NxInstall, TLAPS

-----------------------------------------------------------------------------
(* Values *)

\* What the code writes is a file.
LEMMA FilesAreFiles ==
  /\ NoFile \in File /\ Nowhere \in [Path -> File]
  /\ \A p \in Payloads : Raw(p) \in File
  /\ \A p \in Payloads \cup {"none", Stray}, r \in Release, s \in BOOLEAN :
       Hooked(p, r, s) \in File
  BY DEF NoFile, Nowhere, Raw, Hooked, File

\* A hook at hand writes one of the paths, and an item at hand is one of them.
LEMMA HooksHaveTargets ==
  /\ Len(Target) \in Nat
  /\ \A h \in Nat \ {0} : h <= Len(Target) => h \in Hook
  /\ \A h \in Nat \ {0} : h <= NItem => h \in Item
  /\ \A h \in Hook : Target[h] \in Path /\ h \in Nat \ {0}
  /\ \A i \in Nat \ {0} : i + 1 \in Nat \ {0}
  /\ 1 \in Item /\ Item \subseteq Path /\ 1 \in Nat \ {0}
<1> USE InstallAssumption DEF Hook, Path, Item
<1>1. Len(Target) \in Nat
  OBVIOUS
<1>2. \A h \in Hook : Target[h] \in Path
  OBVIOUS
<1>3. QED
  BY <1>1, <1>2

-----------------------------------------------------------------------------
(* Types *)

\* So does a hook, whatever it has found in the stage.
LEMMA WritesFile ==
  ASSUME NEW r \in Run, NEW s \in BOOLEAN, FilesOK, RunsOK, pc[r] = "run", Writes(r, s)
  PROVE  stage' \in [Path -> File]
<1>1. at[r] \in Hook
  BY DEF RunsOK
<1>2. stage[1] \in File
  BY HooksHaveTargets DEF FilesOK
<1>3. stage[1].of \in Payloads \cup {"none", Stray} /\ stage[1].sound \in BOOLEAN
  BY <1>2 DEF File
<1>4. (s /\ stage[1].sound) \in BOOLEAN
  BY <1>3
<1>5. Hooked(stage[1].of, release, s /\ stage[1].sound) \in File
  BY <1>3, <1>4, FilesAreFiles DEF FilesOK
<1>6. QED
  BY <1>1, <1>5, HooksHaveTargets DEF Writes, FilesOK

\* The lock is held by the run that is at work under it, and by nobody else.
LEMMA LockStep == LockOK /\ [Next]_vars => LockOK'
<1> SUFFICES ASSUME LockOK, [Next]_vars PROVE LockOK'
  OBVIOUS
<1>1. ASSUME NEW r \in Run, Start(r) PROVE LockOK'
  BY <1>1
  DEF Start, Run, Alive, Go, data, world, screen, mem, LockOK, Locked, NoRun
<1>2. ASSUME NEW r \in Run, TakeLock(r) PROVE LockOK'
  BY <1>2
  DEF TakeLock, NoRun, Go, data, world, screen, own, mem, hist, LockOK, Locked, Run
<1>3. ASSUME NEW r \in Run, LockBusy(r) PROVE LockOK'
  BY <1>3
  DEF LockBusy, NoRun, Go, data, mem, Quiet, screen, world, own, hist, LockOK, Locked,
    Run
<1>4. ASSUME NEW r \in Run, Fast(r) PROVE LockOK'
  BY <1>4
  DEF Fast, Tell, Go, data, world, screen, own, mem, hist, LockOK, Locked, NoRun, Run
<1>5. ASSUME NEW r \in Run, OpenScreen(r) PROVE LockOK'
  BY <1>5
  DEF OpenScreen, NotInstalled, Go, data, world, own, mem, hist, LockOK, Locked,
    NoRun, Run
<1>6. ASSUME NEW r \in Run, Headless(r) PROVE LockOK'
  BY <1>6
  DEF Headless, NotInstalled, Go, data, mem, Quiet, screen, world, own, hist, LockOK,
    Locked, NoRun, Run
<1>7. ASSUME NEW r \in Run, Confirm(r) PROVE LockOK'
  BY <1>7
  DEF Confirm, Go, data, Quiet, screen, world, own, hist, LockOK, Locked, NoRun, Run
<1>8. ASSUME NEW r \in Run, NotConfirmed(r) PROVE LockOK'
  BY <1>8
  DEF NotConfirmed, Raise, Go, NoRun, data, world, screen, own, mem, LockOK, Locked,
    Run
<1>9. ASSUME NEW r \in Run, Up(r) PROVE LockOK'
  BY <1>9
  DEF Up, Working, Tell, screen, world, own, hist, Go, data, mem, LockOK, Locked,
    NoRun, Run
<1>10. ASSUME NEW r \in Run, Adopt(r) PROVE LockOK'
  BY <1>10
  DEF Adopt, Go, mem, Quiet, screen, world, own, hist, LockOK, Locked, NoRun, Run
<1>11. ASSUME NEW r \in Run, Scan(r) PROVE LockOK'
  BY <1>11
  DEF Scan, Working, Tell, screen, world, own, hist, Go, data, mem, LockOK, Locked,
    NoRun, Run
<1>12. ASSUME NEW r \in Run, Select(r) PROVE LockOK'
  BY <1>12
  DEF Select, Go, Unseen, screen, world, data, hist, LockOK, Locked, NoRun, Run
<1>13. ASSUME NEW r \in Run, Prepare(r) PROVE LockOK'
  BY <1>13
  DEF Prepare, Go, mem, Quiet, screen, world, own, hist, LockOK, Locked, NoRun, Run
<1>14. ASSUME NEW r \in Run, WipeHooks(r) PROVE LockOK'
  BY <1>14
  DEF WipeHooks, Go, mem, Quiet, screen, world, own, hist, LockOK, Locked, NoRun, Run
<1>15. ASSUME NEW r \in Run, WriteState(r) PROVE LockOK'
  BY <1>15
  DEF WriteState, Go, Quiet, screen, world, own, hist, LockOK, Locked, NoRun, Run
<1>16. ASSUME NEW r \in Run, KeepItem(r) PROVE LockOK'
  BY <1>16
  DEF KeepItem, AtItem, data, Quiet, screen, world, own, hist, LockOK, Locked, NoRun,
    Run
<1>17. ASSUME NEW r \in Run, Extract(r) PROVE LockOK'
  BY <1>17
  DEF Extract, AtItem, Working, Tell, screen, world, own, hist, Go, data, mem, LockOK,
    Locked, NoRun, Run
<1>18. ASSUME NEW r \in Run, Copy(r) PROVE LockOK'
  BY <1>18
  DEF Copy, Go, Unseen, screen, world, hist, LockOK, Locked, NoRun, Run
<1>19. ASSUME NEW r \in Run, ItemsDone(r) PROVE LockOK'
  BY <1>19
  DEF ItemsDone, Working, Tell, screen, world, own, hist, Go, data, LockOK, Locked,
    NoRun, Run
<1>20. ASSUME NEW r \in Run, SkipHook(r) PROVE LockOK'
  BY <1>20
  DEF SkipHook, More, data, Quiet, screen, world, own, hist, LockOK, Locked, NoRun,
    Run
<1>21. ASSUME NEW r \in Run, StartHook(r) PROVE LockOK'
  BY <1>21
  DEF StartHook, More, Working, Tell, screen, world, own, hist, Go, data, mem, LockOK,
    Locked, NoRun, Run
<1>22. ASSUME NEW r \in Run, RunHook(r) PROVE LockOK'
  BY <1>22
  DEF RunHook, Go, Unseen, screen, world, mem, hist, LockOK, Locked, NoRun, Run
<1>23. ASSUME NEW r \in Run, HookStopped(r) PROVE LockOK'
  BY <1>23
  DEF HookStopped, Raise, Go, NoRun, screen, world, own, mem, hist, LockOK, Locked,
    Run
<1>24. ASSUME NEW r \in Run, Mark(r) PROVE LockOK'
  BY <1>24
  DEF Mark, Go, Quiet, screen, world, own, hist, LockOK, Locked, NoRun, Run
<1>25. ASSUME NEW r \in Run, HooksDone(r) PROVE LockOK'
  BY <1>25
  DEF HooksDone, More, Working, Tell, screen, world, own, hist, Go, data, mem, LockOK,
    Locked, NoRun, Run
<1>26. ASSUME NEW r \in Run, Validate(r) PROVE LockOK'
  BY <1>26
  DEF Validate, Go, mem, Quiet, screen, world, own, hist, LockOK, Locked, NoRun, Run
<1>27. ASSUME NEW r \in Run, Reject(r) PROVE LockOK'
  BY <1>27
  DEF Reject, Raise, Go, NoRun, screen, world, own, mem, hist, LockOK, Locked, Run
<1>28. ASSUME NEW r \in Run, EnterCommit(r) PROVE LockOK'
  BY <1>28
  DEF EnterCommit, Working, Tell, screen, world, own, hist, Go, data, mem, LockOK,
    Locked, NoRun, Run
<1>29. ASSUME NEW r \in Run, Commit(r) PROVE LockOK'
  BY <1>29
  DEF Commit, Go, Unseen, screen, world, mem, hist, LockOK, Locked, NoRun, Run
<1>30. ASSUME NEW r \in Run, CommitRejected(r) PROVE LockOK'
  BY <1>30
  DEF CommitRejected, Raise, Go, NoRun, data, world, screen, own, mem, hist, LockOK,
    Locked, Run
<1>31. ASSUME NEW r \in Run, TellDone(r) PROVE LockOK'
  BY <1>31
  DEF TellDone, Tell, Go, data, world, screen, own, mem, hist, LockOK, Locked, NoRun,
    Run
<1>32. ASSUME NEW r \in Run, ScreenLost(r) PROVE LockOK'
  BY <1>32
  DEF ScreenLost, More, Raise, Go, NoRun, data, world, screen, own, mem, hist, LockOK,
    Locked, Run
<1>33. ASSUME NEW r \in Run, Stop(r) PROVE LockOK'
  BY <1>33
  DEF Stop, StopUI, screen, Go, data, world, own, hist, LockOK, Locked, NoRun, Run
<1>34. ASSUME NEW r \in Run, Unlock(r) PROVE LockOK'
  BY <1>34
  DEF Unlock, NoRun, Go, data, world, screen, own, mem, LockOK, Locked, Run
<1>35. ASSUME NEW r \in Run, Error(r) PROVE LockOK'
  BY <1>35
  DEF Error, Tell, StopUI, screen, Go, data, world, own, LockOK, Locked, NoRun, Run
<1>36. ASSUME NEW r \in Run, Final(r) PROVE LockOK'
  BY <1>36
  DEF Final, StopUI, screen, Leave, Go, data, world, LockOK, Locked, NoRun, Run
<1>37. ASSUME NEW r \in Run, NoScreen(r) PROVE LockOK'
  BY <1>37
  DEF NoScreen, NotInstalled, Raise, Go, NoRun, Mishap, data, world, own, mem, LockOK,
    Locked, Run
<1>38. ASSUME NEW r \in Run, HookDefective(r) PROVE LockOK'
  BY <1>38
  DEF HookDefective, Go, Unseen, screen, world, Mishap, mem, LockOK, Locked, NoRun,
    Run
<1>39. ASSUME NEW r \in Run, HookFails(r) PROVE LockOK'
  BY <1>39
  DEF HookFails, Raise, Go, NoRun, Mishap, screen, world, own, mem, LockOK, Locked,
    Run
<1>40. ASSUME NEW r \in Run, Interrupted(r) PROVE LockOK'
  BY <1>40
  DEF Interrupted, Raise, Go, NoRun, Mishap, data, world, screen, own, mem, LockOK,
    Locked, Run
<1>41. ASSUME NEW r \in Run, Kill(r) PROVE LockOK'
  BY <1>41
  DEF Kill, Alive, Leave, Go, NoRun, data, LockOK, Locked, Run
<1>42. ASSUME NEW r \in Run, ErrorRaises(r) PROVE LockOK'
  BY <1>42
  DEF ErrorRaises, Tell, Go, data, world, screen, own, mem, LockOK, Locked, NoRun, Run
<1>43. ASSUME NEW r \in Run, FinalRaises(r) PROVE LockOK'
  BY <1>43
  DEF FinalRaises, Leave, Go, data, world, LockOK, Locked, NoRun, Run
<1>44. ASSUME NEW r \in Run, Publish(r) PROVE LockOK'
  BY <1>44
  DEF Publish, data, world, own, mem, hist, LockOK, Locked, NoRun, Run
<1>45. ASSUME NEW r \in Run, ObeyStop(r) PROVE LockOK'
  BY <1>45
  DEF ObeyStop, Gone, Alive, data, world, own, mem, hist, LockOK, Locked, NoRun, Run
<1>46. ASSUME NEW r \in Run, UIDies(r) PROVE LockOK'
  BY <1>46
  DEF UIDies, Gone, Alive, Mishap, data, world, own, mem, LockOK, Locked, NoRun, Run
<1>47. ASSUME NEW o \in orphan, OrphanWrites(o) PROVE LockOK'
  BY <1>47
  DEF OrphanWrites, screen, own, mem, hist, LockOK, Locked, NoRun, Run
<1>48. ASSUME NEW o \in orphan, OrphanEnds(o) PROVE LockOK'
  BY <1>48
  DEF OrphanEnds, data, screen, own, mem, hist, LockOK, Locked, NoRun, Run
<1>49. CASE Change
  BY <1>49
  DEF Change, Run, Alive, data, screen, own, mem, hist, LockOK, Locked, NoRun
<1>50. CASE UNCHANGED vars
  BY <1>50
  DEF vars, data, world, screen, own, mem, hist, LockOK, Locked, NoRun, Run
<1>51. QED
  BY <1>1, <1>2, <1>3, <1>4, <1>5, <1>6, <1>7, <1>8, <1>9, <1>10, <1>11, <1>12, <1>13,
    <1>14, <1>15, <1>16, <1>17, <1>18, <1>19, <1>20, <1>21, <1>22, <1>23, <1>24,
    <1>25, <1>26, <1>27, <1>28, <1>29, <1>30, <1>31, <1>32, <1>33, <1>34, <1>35,
    <1>36, <1>37, <1>38, <1>39, <1>40, <1>41, <1>42, <1>43, <1>44, <1>45, <1>46,
    <1>47, <1>48, <1>49, <1>50
  DEF Next, Stepping, Failing, Screen

\* What a process remembers keeps its type.
LEMMA RunsStep == RunsOK /\ FilesOK /\ LockOK /\ [Next]_vars => RunsOK'
<1> SUFFICES ASSUME RunsOK, FilesOK, LockOK, [Next]_vars PROVE RunsOK'
  OBVIOUS
<1>1. ASSUME NEW r \in Run, Start(r) PROVE RunsOK'
  <2>1. PICK o \in Options[r] : /\ force' = [force EXCEPT ![r] = o[1]]
                               /\ require' = [require EXCEPT ![r] = o[2]]
    BY <1>1 DEF Start
  <2>2. o[1] \in BOOLEAN /\ o[2] \in BOOLEAN
    BY InstallAssumption
  <2>3. force' \in [Run -> BOOLEAN] /\ require' \in [Run -> BOOLEAN]
    BY <2>1, <2>2 DEF RunsOK
  <2>4. alone' \in [Run -> BOOLEAN]
    BY <1>1 DEF Start, RunsOK
  <2>5. calm' \in [Run -> BOOLEAN]
    BY <1>1, <2>4 DEF Start, RunsOK
  <2>6. UNCHANGED <<sel, at, ready, ui, code, dark>>
    BY <1>1 DEF Start, mem, screen
  <2>7. \A k \in Run : pc'[k] \in {"run", "mark", "copy"} => pc'[k] = pc[k]
    BY <1>1 DEF Start, Go, LockOK
  <2>8. QED
    BY <2>3, <2>4, <2>5, <2>6, <2>7 DEF RunsOK
<1>2. ASSUME NEW r \in Run, TakeLock(r) PROVE RunsOK'
  BY <1>2, HooksHaveTargets, InstallAssumption
  DEF TakeLock, NoRun, Go, data, world, screen, own, mem, hist, RunsOK, FilesOK,
    LockOK
<1>3. ASSUME NEW r \in Run, LockBusy(r) PROVE RunsOK'
  BY <1>3, HooksHaveTargets, InstallAssumption
  DEF LockBusy, NoRun, Go, data, mem, Quiet, screen, world, own, hist, RunsOK,
    FilesOK, LockOK
<1>4. ASSUME NEW r \in Run, Fast(r) PROVE RunsOK'
  BY <1>4, HooksHaveTargets, InstallAssumption
  DEF Fast, Tell, Go, data, world, screen, own, mem, hist, RunsOK, FilesOK, LockOK
<1>5. ASSUME NEW r \in Run, OpenScreen(r) PROVE RunsOK'
  BY <1>5, HooksHaveTargets, InstallAssumption
  DEF OpenScreen, NotInstalled, Go, data, world, own, mem, hist, RunsOK, FilesOK,
    LockOK
<1>6. ASSUME NEW r \in Run, Headless(r) PROVE RunsOK'
  BY <1>6, HooksHaveTargets, InstallAssumption
  DEF Headless, NotInstalled, Go, data, mem, Quiet, screen, world, own, hist, RunsOK,
    FilesOK, LockOK
<1>7. ASSUME NEW r \in Run, Confirm(r) PROVE RunsOK'
  BY <1>7, HooksHaveTargets, InstallAssumption
  DEF Confirm, Showing, Go, data, Quiet, screen, world, own, hist, RunsOK, FilesOK,
    LockOK
<1>8. ASSUME NEW r \in Run, NotConfirmed(r) PROVE RunsOK'
  BY <1>8, HooksHaveTargets, InstallAssumption
  DEF NotConfirmed, Raise, Go, NoRun, data, world, screen, own, mem, RunsOK, FilesOK,
    LockOK
<1>9. ASSUME NEW r \in Run, Up(r) PROVE RunsOK'
  BY <1>9, HooksHaveTargets, InstallAssumption
  DEF Up, Working, Blind, Tell, screen, world, own, hist, Go, data, mem, RunsOK,
    FilesOK, LockOK
<1>10. ASSUME NEW r \in Run, Adopt(r) PROVE RunsOK'
  BY <1>10, HooksHaveTargets, InstallAssumption
  DEF Adopt, Go, mem, Quiet, screen, world, own, hist, RunsOK, FilesOK, LockOK
<1>11. ASSUME NEW r \in Run, Scan(r) PROVE RunsOK'
  BY <1>11, HooksHaveTargets, InstallAssumption
  DEF Scan, Working, Blind, Tell, screen, world, own, hist, Go, data, mem, RunsOK,
    FilesOK, LockOK
<1>12. ASSUME NEW r \in Run, Select(r) PROVE RunsOK'
  BY <1>12, HooksHaveTargets, InstallAssumption
  DEF Select, Go, Unseen, screen, world, data, hist, RunsOK, FilesOK, LockOK
<1>13. ASSUME NEW r \in Run, Prepare(r) PROVE RunsOK'
  BY <1>13, HooksHaveTargets, InstallAssumption
  DEF Prepare, Go, mem, Quiet, screen, world, own, hist, RunsOK, FilesOK, LockOK
<1>14. ASSUME NEW r \in Run, WipeHooks(r) PROVE RunsOK'
  BY <1>14, HooksHaveTargets, InstallAssumption
  DEF WipeHooks, Go, mem, Quiet, screen, world, own, hist, RunsOK, FilesOK, LockOK
<1>15. ASSUME NEW r \in Run, WriteState(r) PROVE RunsOK'
  BY <1>15, HooksHaveTargets, InstallAssumption
  DEF WriteState, Go, Quiet, screen, world, own, hist, RunsOK, FilesOK, LockOK
<1>16. ASSUME NEW r \in Run, KeepItem(r) PROVE RunsOK'
  BY <1>16, HooksHaveTargets, InstallAssumption
  DEF KeepItem, AtItem, data, Quiet, screen, world, own, hist, RunsOK, FilesOK, LockOK
<1>17. ASSUME NEW r \in Run, Extract(r) PROVE RunsOK'
  BY <1>17, HooksHaveTargets, InstallAssumption
  DEF Extract, AtItem, Working, Blind, Tell, screen, world, own, hist, Go, data, mem,
    RunsOK, FilesOK, LockOK
<1>18. ASSUME NEW r \in Run, Copy(r) PROVE RunsOK'
  BY <1>18, HooksHaveTargets, InstallAssumption
  DEF Copy, Go, Unseen, screen, world, hist, RunsOK, FilesOK, LockOK
<1>19. ASSUME NEW r \in Run, ItemsDone(r) PROVE RunsOK'
  BY <1>19, HooksHaveTargets, InstallAssumption
  DEF ItemsDone, Working, Blind, Tell, screen, world, own, hist, Go, data, RunsOK,
    FilesOK, LockOK
<1>20. ASSUME NEW r \in Run, SkipHook(r) PROVE RunsOK'
  BY <1>20, HooksHaveTargets, InstallAssumption
  DEF SkipHook, More, data, Quiet, screen, world, own, hist, RunsOK, FilesOK, LockOK
<1>21. ASSUME NEW r \in Run, StartHook(r) PROVE RunsOK'
  BY <1>21, HooksHaveTargets, InstallAssumption
  DEF StartHook, More, Working, Blind, Tell, screen, world, own, hist, Go, data, mem,
    RunsOK, FilesOK, LockOK
<1>22. ASSUME NEW r \in Run, RunHook(r) PROVE RunsOK'
  BY <1>22, HooksHaveTargets, InstallAssumption
  DEF RunHook, Go, Unseen, screen, world, mem, hist, RunsOK, FilesOK, LockOK
<1>23. ASSUME NEW r \in Run, HookStopped(r) PROVE RunsOK'
  BY <1>23, HooksHaveTargets, InstallAssumption
  DEF HookStopped, Blind, Raise, Go, NoRun, screen, world, own, mem, hist, RunsOK,
    FilesOK, LockOK
<1>24. ASSUME NEW r \in Run, Mark(r) PROVE RunsOK'
  BY <1>24, HooksHaveTargets, InstallAssumption
  DEF Mark, Go, Quiet, screen, world, own, hist, RunsOK, FilesOK, LockOK
<1>25. ASSUME NEW r \in Run, HooksDone(r) PROVE RunsOK'
  BY <1>25, HooksHaveTargets, InstallAssumption
  DEF HooksDone, More, Working, Blind, Tell, screen, world, own, hist, Go, data, mem,
    RunsOK, FilesOK, LockOK
<1>26. ASSUME NEW r \in Run, Validate(r) PROVE RunsOK'
  BY <1>26, HooksHaveTargets, InstallAssumption
  DEF Validate, Go, mem, Quiet, screen, world, own, hist, RunsOK, FilesOK, LockOK
<1>27. ASSUME NEW r \in Run, Reject(r) PROVE RunsOK'
  BY <1>27, HooksHaveTargets, InstallAssumption
  DEF Reject, Raise, Go, NoRun, screen, world, own, mem, hist, RunsOK, FilesOK, LockOK
<1>28. ASSUME NEW r \in Run, EnterCommit(r) PROVE RunsOK'
  BY <1>28, HooksHaveTargets, InstallAssumption
  DEF EnterCommit, Working, Blind, Tell, screen, world, own, hist, Go, data, mem,
    RunsOK, FilesOK, LockOK
<1>29. ASSUME NEW r \in Run, Commit(r) PROVE RunsOK'
  BY <1>29, HooksHaveTargets, InstallAssumption
  DEF Commit, Go, Unseen, screen, world, mem, hist, RunsOK, FilesOK, LockOK
<1>30. ASSUME NEW r \in Run, CommitRejected(r) PROVE RunsOK'
  BY <1>30, HooksHaveTargets, InstallAssumption
  DEF CommitRejected, Raise, Go, NoRun, data, world, screen, own, mem, hist, RunsOK,
    FilesOK, LockOK
<1>31. ASSUME NEW r \in Run, TellDone(r) PROVE RunsOK'
  BY <1>31, HooksHaveTargets, InstallAssumption
  DEF TellDone, Blind, Tell, Go, data, world, screen, own, mem, hist, RunsOK, FilesOK,
    LockOK
<1>32. ASSUME NEW r \in Run, ScreenLost(r) PROVE RunsOK'
  BY <1>32, HooksHaveTargets, InstallAssumption
  DEF ScreenLost, More, Blind, Raise, Go, NoRun, data, world, screen, own, mem, hist,
    RunsOK, FilesOK, LockOK
<1>33. ASSUME NEW r \in Run, Stop(r) PROVE RunsOK'
  BY <1>33, HooksHaveTargets, InstallAssumption
  DEF Stop, StopUI, screen, Go, data, world, own, hist, RunsOK, FilesOK, LockOK
<1>34. ASSUME NEW r \in Run, Unlock(r) PROVE RunsOK'
  BY <1>34, HooksHaveTargets, InstallAssumption
  DEF Unlock, NoRun, Go, data, world, screen, own, mem, RunsOK, FilesOK, LockOK
<1>35. ASSUME NEW r \in Run, Error(r) PROVE RunsOK'
  BY <1>35, HooksHaveTargets, InstallAssumption
  DEF Error, Tell, StopUI, screen, Go, data, world, own, RunsOK, FilesOK, LockOK
<1>36. ASSUME NEW r \in Run, Final(r) PROVE RunsOK'
  BY <1>36, HooksHaveTargets, InstallAssumption
  DEF Final, StopUI, screen, Leave, Go, data, world, RunsOK, FilesOK, LockOK
<1>37. ASSUME NEW r \in Run, NoScreen(r) PROVE RunsOK'
  BY <1>37, HooksHaveTargets, InstallAssumption
  DEF NoScreen, NotInstalled, Raise, Go, NoRun, Mishap, data, world, own, mem, RunsOK,
    FilesOK, LockOK
<1>38. ASSUME NEW r \in Run, HookDefective(r) PROVE RunsOK'
  BY <1>38, HooksHaveTargets, InstallAssumption
  DEF HookDefective, Go, Unseen, screen, world, Mishap, mem, RunsOK, FilesOK, LockOK
<1>39. ASSUME NEW r \in Run, HookFails(r) PROVE RunsOK'
  BY <1>39, HooksHaveTargets, InstallAssumption
  DEF HookFails, Raise, Go, NoRun, Mishap, screen, world, own, mem, RunsOK, FilesOK,
    LockOK
<1>40. ASSUME NEW r \in Run, Interrupted(r) PROVE RunsOK'
  BY <1>40, HooksHaveTargets, InstallAssumption
  DEF Interrupted, Raise, Go, NoRun, Mishap, data, world, screen, own, mem, RunsOK,
    FilesOK, LockOK
<1>41. ASSUME NEW r \in Run, Kill(r) PROVE RunsOK'
  BY <1>41, HooksHaveTargets, InstallAssumption
  DEF Kill, Alive, Leave, Go, NoRun, Showing, data, RunsOK, FilesOK, LockOK
<1>42. ASSUME NEW r \in Run, ErrorRaises(r) PROVE RunsOK'
  BY <1>42, HooksHaveTargets, InstallAssumption
  DEF ErrorRaises, Tell, Go, data, world, screen, own, mem, RunsOK, FilesOK, LockOK
<1>43. ASSUME NEW r \in Run, FinalRaises(r) PROVE RunsOK'
  BY <1>43, HooksHaveTargets, InstallAssumption
  DEF FinalRaises, Leave, Go, Showing, data, world, RunsOK, FilesOK, LockOK
<1>44. ASSUME NEW r \in Run, Publish(r) PROVE RunsOK'
  BY <1>44, HooksHaveTargets, InstallAssumption
  DEF Publish, data, world, own, mem, hist, RunsOK, FilesOK, LockOK
<1>45. ASSUME NEW r \in Run, ObeyStop(r) PROVE RunsOK'
  BY <1>45, HooksHaveTargets, InstallAssumption
  DEF ObeyStop, Showing, Gone, Alive, data, world, own, mem, hist, RunsOK, FilesOK,
    LockOK
<1>46. ASSUME NEW r \in Run, UIDies(r) PROVE RunsOK'
  BY <1>46, HooksHaveTargets, InstallAssumption
  DEF UIDies, Showing, Gone, Alive, Mishap, data, world, own, mem, RunsOK, FilesOK,
    LockOK
<1>47. ASSUME NEW o \in orphan, OrphanWrites(o) PROVE RunsOK'
  BY <1>47, HooksHaveTargets, InstallAssumption
  DEF OrphanWrites, screen, own, mem, hist, RunsOK, FilesOK, LockOK
<1>48. ASSUME NEW o \in orphan, OrphanEnds(o) PROVE RunsOK'
  BY <1>48, HooksHaveTargets, InstallAssumption
  DEF OrphanEnds, data, screen, own, mem, hist, RunsOK, FilesOK, LockOK
<1>49. CASE Change
  BY <1>49, HooksHaveTargets, InstallAssumption
  DEF Change, Run, Alive, data, screen, own, mem, hist, RunsOK, FilesOK, LockOK
<1>50. CASE UNCHANGED vars
  BY <1>50
  DEF vars, data, world, screen, own, mem, hist, RunsOK, FilesOK, LockOK
<1>51. QED
  BY <1>1, <1>2, <1>3, <1>4, <1>5, <1>6, <1>7, <1>8, <1>9, <1>10, <1>11, <1>12, <1>13,
    <1>14, <1>15, <1>16, <1>17, <1>18, <1>19, <1>20, <1>21, <1>22, <1>23, <1>24,
    <1>25, <1>26, <1>27, <1>28, <1>29, <1>30, <1>31, <1>32, <1>33, <1>34, <1>35,
    <1>36, <1>37, <1>38, <1>39, <1>40, <1>41, <1>42, <1>43, <1>44, <1>45, <1>46,
    <1>47, <1>48, <1>49, <1>50
  DEF Next, Stepping, Failing, Screen

\* The bounds of the model are kept, and the release never outruns them.
LEMMA CountsStep == CountsOK /\ FilesOK /\ [Next]_vars => CountsOK'
<1> SUFFICES ASSUME CountsOK, FilesOK, [Next]_vars PROVE CountsOK'
  OBVIOUS
<1>1. ASSUME NEW r \in Run, Start(r) PROVE CountsOK'
  BY <1>1, InstallAssumption
  DEF Start, Run, Alive, Go, data, world, screen, mem, CountsOK, FilesOK, Release
<1>2. ASSUME NEW r \in Run, TakeLock(r) PROVE CountsOK'
  BY <1>2, InstallAssumption
  DEF TakeLock, NoRun, Go, data, world, screen, own, mem, hist, CountsOK, FilesOK,
    Release
<1>3. ASSUME NEW r \in Run, LockBusy(r) PROVE CountsOK'
  BY <1>3, InstallAssumption
  DEF LockBusy, NoRun, Go, data, mem, Quiet, screen, world, own, hist, CountsOK,
    FilesOK, Release
<1>4. ASSUME NEW r \in Run, Fast(r) PROVE CountsOK'
  BY <1>4, InstallAssumption
  DEF Fast, Tell, Go, data, world, screen, own, mem, hist, CountsOK, FilesOK, Release
<1>5. ASSUME NEW r \in Run, OpenScreen(r) PROVE CountsOK'
  BY <1>5, InstallAssumption
  DEF OpenScreen, NotInstalled, Go, data, world, own, mem, hist, CountsOK, FilesOK,
    Release
<1>6. ASSUME NEW r \in Run, Headless(r) PROVE CountsOK'
  BY <1>6, InstallAssumption
  DEF Headless, NotInstalled, Go, data, mem, Quiet, screen, world, own, hist,
    CountsOK, FilesOK, Release
<1>7. ASSUME NEW r \in Run, Confirm(r) PROVE CountsOK'
  BY <1>7, InstallAssumption
  DEF Confirm, Go, data, Quiet, screen, world, own, hist, CountsOK, FilesOK, Release
<1>8. ASSUME NEW r \in Run, NotConfirmed(r) PROVE CountsOK'
  BY <1>8, InstallAssumption
  DEF NotConfirmed, Raise, Go, NoRun, data, world, screen, own, mem, CountsOK,
    FilesOK, Release
<1>9. ASSUME NEW r \in Run, Up(r) PROVE CountsOK'
  BY <1>9, InstallAssumption
  DEF Up, Working, Tell, screen, world, own, hist, Go, data, mem, CountsOK, FilesOK,
    Release
<1>10. ASSUME NEW r \in Run, Adopt(r) PROVE CountsOK'
  BY <1>10, InstallAssumption
  DEF Adopt, Go, mem, Quiet, screen, world, own, hist, CountsOK, FilesOK, Release
<1>11. ASSUME NEW r \in Run, Scan(r) PROVE CountsOK'
  BY <1>11, InstallAssumption
  DEF Scan, Working, Tell, screen, world, own, hist, Go, data, mem, CountsOK, FilesOK,
    Release
<1>12. ASSUME NEW r \in Run, Select(r) PROVE CountsOK'
  BY <1>12, InstallAssumption
  DEF Select, Go, Unseen, screen, world, data, hist, CountsOK, FilesOK, Release
<1>13. ASSUME NEW r \in Run, Prepare(r) PROVE CountsOK'
  BY <1>13, InstallAssumption
  DEF Prepare, Go, mem, Quiet, screen, world, own, hist, CountsOK, FilesOK, Release
<1>14. ASSUME NEW r \in Run, WipeHooks(r) PROVE CountsOK'
  BY <1>14, InstallAssumption
  DEF WipeHooks, Go, mem, Quiet, screen, world, own, hist, CountsOK, FilesOK, Release
<1>15. ASSUME NEW r \in Run, WriteState(r) PROVE CountsOK'
  BY <1>15, InstallAssumption
  DEF WriteState, Go, Quiet, screen, world, own, hist, CountsOK, FilesOK, Release
<1>16. ASSUME NEW r \in Run, KeepItem(r) PROVE CountsOK'
  BY <1>16, InstallAssumption
  DEF KeepItem, AtItem, data, Quiet, screen, world, own, hist, CountsOK, FilesOK,
    Release
<1>17. ASSUME NEW r \in Run, Extract(r) PROVE CountsOK'
  BY <1>17, InstallAssumption
  DEF Extract, AtItem, Working, Tell, screen, world, own, hist, Go, data, mem,
    CountsOK, FilesOK, Release
<1>18. ASSUME NEW r \in Run, Copy(r) PROVE CountsOK'
  BY <1>18, InstallAssumption
  DEF Copy, Go, Unseen, screen, world, hist, CountsOK, FilesOK, Release
<1>19. ASSUME NEW r \in Run, ItemsDone(r) PROVE CountsOK'
  BY <1>19, InstallAssumption
  DEF ItemsDone, Working, Tell, screen, world, own, hist, Go, data, CountsOK, FilesOK,
    Release
<1>20. ASSUME NEW r \in Run, SkipHook(r) PROVE CountsOK'
  BY <1>20, InstallAssumption
  DEF SkipHook, More, data, Quiet, screen, world, own, hist, CountsOK, FilesOK,
    Release
<1>21. ASSUME NEW r \in Run, StartHook(r) PROVE CountsOK'
  BY <1>21, InstallAssumption
  DEF StartHook, More, Working, Tell, screen, world, own, hist, Go, data, mem,
    CountsOK, FilesOK, Release
<1>22. ASSUME NEW r \in Run, RunHook(r) PROVE CountsOK'
  BY <1>22, InstallAssumption
  DEF RunHook, Go, Unseen, screen, world, mem, hist, CountsOK, FilesOK, Release
<1>23. ASSUME NEW r \in Run, HookStopped(r) PROVE CountsOK'
  BY <1>23, InstallAssumption
  DEF HookStopped, Raise, Go, NoRun, screen, world, own, mem, hist, CountsOK, FilesOK,
    Release
<1>24. ASSUME NEW r \in Run, Mark(r) PROVE CountsOK'
  BY <1>24, InstallAssumption
  DEF Mark, Go, Quiet, screen, world, own, hist, CountsOK, FilesOK, Release
<1>25. ASSUME NEW r \in Run, HooksDone(r) PROVE CountsOK'
  BY <1>25, InstallAssumption
  DEF HooksDone, More, Working, Tell, screen, world, own, hist, Go, data, mem,
    CountsOK, FilesOK, Release
<1>26. ASSUME NEW r \in Run, Validate(r) PROVE CountsOK'
  BY <1>26, InstallAssumption
  DEF Validate, Go, mem, Quiet, screen, world, own, hist, CountsOK, FilesOK, Release
<1>27. ASSUME NEW r \in Run, Reject(r) PROVE CountsOK'
  BY <1>27, InstallAssumption
  DEF Reject, Raise, Go, NoRun, screen, world, own, mem, hist, CountsOK, FilesOK,
    Release
<1>28. ASSUME NEW r \in Run, EnterCommit(r) PROVE CountsOK'
  BY <1>28, InstallAssumption
  DEF EnterCommit, Working, Tell, screen, world, own, hist, Go, data, mem, CountsOK,
    FilesOK, Release
<1>29. ASSUME NEW r \in Run, Commit(r) PROVE CountsOK'
  BY <1>29, InstallAssumption
  DEF Commit, Go, Unseen, screen, world, mem, hist, CountsOK, FilesOK, Release
<1>30. ASSUME NEW r \in Run, CommitRejected(r) PROVE CountsOK'
  BY <1>30, InstallAssumption
  DEF CommitRejected, Raise, Go, NoRun, data, world, screen, own, mem, hist, CountsOK,
    FilesOK, Release
<1>31. ASSUME NEW r \in Run, TellDone(r) PROVE CountsOK'
  BY <1>31, InstallAssumption
  DEF TellDone, Tell, Go, data, world, screen, own, mem, hist, CountsOK, FilesOK,
    Release
<1>32. ASSUME NEW r \in Run, ScreenLost(r) PROVE CountsOK'
  BY <1>32, InstallAssumption
  DEF ScreenLost, More, Raise, Go, NoRun, data, world, screen, own, mem, hist,
    CountsOK, FilesOK, Release
<1>33. ASSUME NEW r \in Run, Stop(r) PROVE CountsOK'
  BY <1>33, InstallAssumption
  DEF Stop, StopUI, screen, Go, data, world, own, hist, CountsOK, FilesOK, Release
<1>34. ASSUME NEW r \in Run, Unlock(r) PROVE CountsOK'
  BY <1>34, InstallAssumption
  DEF Unlock, NoRun, Go, data, world, screen, own, mem, CountsOK, FilesOK, Release
<1>35. ASSUME NEW r \in Run, Error(r) PROVE CountsOK'
  <2>1. CASE ui[r] = "none"
    BY <1>35, <2>1 DEF Error, Tell, StopUI, world, screen, CountsOK
  <2>2. CASE ~(ui[r] = "none")
    BY <1>35, <2>2 DEF Error, Tell, StopUI, world, screen, CountsOK
  <2>3. QED
    BY <2>1, <2>2
<1>36. ASSUME NEW r \in Run, Final(r) PROVE CountsOK'
  <2>1. CASE ui[r] = "none"
    BY <1>36, <2>1 DEF Final, Leave, StopUI, world, screen, CountsOK
  <2>2. CASE ~(ui[r] = "none")
    BY <1>36, <2>2 DEF Final, Leave, StopUI, world, screen, CountsOK
  <2>3. QED
    BY <2>1, <2>2
<1>37. ASSUME NEW r \in Run, NoScreen(r) PROVE CountsOK'
  <2>1. mishaps' \in 0..MaxMishaps
    BY <1>37, InstallAssumption DEF NoScreen, Mishap, CountsOK
  <2>2. stop_file' \in BOOLEAN /\ ready_file' \in BOOLEAN
    BY <1>37 DEF NoScreen, CountsOK
  <2>3. QED
    BY <1>37, <2>1, <2>2 DEF NoScreen, Mishap, world, CountsOK
<1>38. ASSUME NEW r \in Run, HookDefective(r) PROVE CountsOK'
  BY <1>38, InstallAssumption
  DEF HookDefective, Go, Unseen, screen, world, Mishap, mem, CountsOK, FilesOK,
    Release
<1>39. ASSUME NEW r \in Run, HookFails(r) PROVE CountsOK'
  BY <1>39, InstallAssumption
  DEF HookFails, Raise, Go, NoRun, Mishap, screen, world, own, mem, CountsOK, FilesOK,
    Release
<1>40. ASSUME NEW r \in Run, Interrupted(r) PROVE CountsOK'
  BY <1>40, InstallAssumption
  DEF Interrupted, Raise, Go, NoRun, Mishap, data, world, screen, own, mem, CountsOK,
    FilesOK, Release
<1>41. ASSUME NEW r \in Run, Kill(r) PROVE CountsOK'
  BY <1>41, InstallAssumption
  DEF Kill, Alive, Leave, Go, NoRun, data, CountsOK, FilesOK, Release
<1>42. ASSUME NEW r \in Run, ErrorRaises(r) PROVE CountsOK'
  BY <1>42, InstallAssumption
  DEF ErrorRaises, Tell, Go, data, world, screen, own, mem, CountsOK, FilesOK, Release
<1>43. ASSUME NEW r \in Run, FinalRaises(r) PROVE CountsOK'
  BY <1>43, InstallAssumption
  DEF FinalRaises, Leave, Go, data, world, CountsOK, FilesOK, Release
<1>44. ASSUME NEW r \in Run, Publish(r) PROVE CountsOK'
  BY <1>44, InstallAssumption
  DEF Publish, data, world, own, mem, hist, CountsOK, FilesOK, Release
<1>45. ASSUME NEW r \in Run, ObeyStop(r) PROVE CountsOK'
  BY <1>45, InstallAssumption
  DEF ObeyStop, Gone, Alive, data, world, own, mem, hist, CountsOK, FilesOK, Release
<1>46. ASSUME NEW r \in Run, UIDies(r) PROVE CountsOK'
  BY <1>46, InstallAssumption
  DEF UIDies, Gone, Alive, Mishap, data, world, own, mem, CountsOK, FilesOK, Release
<1>47. ASSUME NEW o \in orphan, OrphanWrites(o) PROVE CountsOK'
  BY <1>47, InstallAssumption
  DEF OrphanWrites, screen, own, mem, hist, CountsOK, FilesOK, Release
<1>48. ASSUME NEW o \in orphan, OrphanEnds(o) PROVE CountsOK'
  BY <1>48, InstallAssumption
  DEF OrphanEnds, data, screen, own, mem, hist, CountsOK, FilesOK, Release
<1>49. CASE Change
  BY <1>49, InstallAssumption
  DEF Change, Run, Alive, data, screen, own, mem, hist, CountsOK, FilesOK, Release
<1>50. CASE UNCHANGED vars
  BY <1>50
  DEF vars, data, world, screen, own, mem, hist, CountsOK, FilesOK, Release
<1>51. QED
  BY <1>1, <1>2, <1>3, <1>4, <1>5, <1>6, <1>7, <1>8, <1>9, <1>10, <1>11, <1>12, <1>13,
    <1>14, <1>15, <1>16, <1>17, <1>18, <1>19, <1>20, <1>21, <1>22, <1>23, <1>24,
    <1>25, <1>26, <1>27, <1>28, <1>29, <1>30, <1>31, <1>32, <1>33, <1>34, <1>35,
    <1>36, <1>37, <1>38, <1>39, <1>40, <1>41, <1>42, <1>43, <1>44, <1>45, <1>46,
    <1>47, <1>48, <1>49, <1>50
  DEF Next, Stepping, Failing, Screen

\* Every file is a file, state.json names a plan and a left hook is a hook.
LEMMA FilesStep == FilesOK /\ RunsOK /\ CountsOK /\ [Next]_vars => FilesOK'
<1> SUFFICES ASSUME FilesOK, RunsOK, CountsOK, [Next]_vars PROVE FilesOK'
  OBVIOUS
<1>1. ASSUME NEW r \in Run, Start(r) PROVE FilesOK'
  BY <1>1, FilesAreFiles, HooksHaveTargets, InstallAssumption
  DEF Start, Run, Go, data, world, screen, mem, FilesOK, RunsOK, CountsOK, Release
<1>2. ASSUME NEW r \in Run, TakeLock(r) PROVE FilesOK'
  BY <1>2, FilesAreFiles, HooksHaveTargets, InstallAssumption
  DEF TakeLock, NoRun, Go, data, world, screen, own, mem, hist, FilesOK, RunsOK,
    CountsOK, Release
<1>3. ASSUME NEW r \in Run, LockBusy(r) PROVE FilesOK'
  BY <1>3, FilesAreFiles, HooksHaveTargets, InstallAssumption
  DEF LockBusy, NoRun, Go, data, mem, Quiet, screen, world, own, hist, FilesOK,
    RunsOK, CountsOK, Release
<1>4. ASSUME NEW r \in Run, Fast(r) PROVE FilesOK'
  BY <1>4, FilesAreFiles, HooksHaveTargets, InstallAssumption
  DEF Fast, Tell, Go, data, world, screen, own, mem, hist, FilesOK, RunsOK, CountsOK,
    Release
<1>5. ASSUME NEW r \in Run, OpenScreen(r) PROVE FilesOK'
  BY <1>5, FilesAreFiles, HooksHaveTargets, InstallAssumption
  DEF OpenScreen, NotInstalled, Go, data, world, own, mem, hist, FilesOK, RunsOK,
    CountsOK, Release
<1>6. ASSUME NEW r \in Run, Headless(r) PROVE FilesOK'
  BY <1>6, FilesAreFiles, HooksHaveTargets, InstallAssumption
  DEF Headless, NotInstalled, Go, data, mem, Quiet, screen, world, own, hist, FilesOK,
    RunsOK, CountsOK, Release
<1>7. ASSUME NEW r \in Run, Confirm(r) PROVE FilesOK'
  BY <1>7, FilesAreFiles, HooksHaveTargets, InstallAssumption
  DEF Confirm, Go, data, Quiet, screen, world, own, hist, FilesOK, RunsOK, CountsOK,
    Release
<1>8. ASSUME NEW r \in Run, NotConfirmed(r) PROVE FilesOK'
  BY <1>8, FilesAreFiles, HooksHaveTargets, InstallAssumption
  DEF NotConfirmed, Raise, Go, NoRun, data, world, screen, own, mem, FilesOK, RunsOK,
    CountsOK, Release
<1>9. ASSUME NEW r \in Run, Up(r) PROVE FilesOK'
  BY <1>9, FilesAreFiles, HooksHaveTargets, InstallAssumption
  DEF Up, Working, Tell, screen, world, own, hist, Go, data, mem, FilesOK, RunsOK,
    CountsOK, Release
<1>10. ASSUME NEW r \in Run, Adopt(r) PROVE FilesOK'
  BY <1>10, FilesAreFiles, HooksHaveTargets, InstallAssumption
  DEF Adopt, Go, mem, Quiet, screen, world, own, hist, FilesOK, RunsOK, CountsOK,
    Release
<1>11. ASSUME NEW r \in Run, Scan(r) PROVE FilesOK'
  BY <1>11, FilesAreFiles, HooksHaveTargets, InstallAssumption
  DEF Scan, Working, Tell, screen, world, own, hist, Go, data, mem, FilesOK, RunsOK,
    CountsOK, Release
<1>12. ASSUME NEW r \in Run, Select(r) PROVE FilesOK'
  BY <1>12, FilesAreFiles, HooksHaveTargets, InstallAssumption
  DEF Select, Go, Unseen, screen, world, data, hist, FilesOK, RunsOK, CountsOK,
    Release
<1>13. ASSUME NEW r \in Run, Prepare(r) PROVE FilesOK'
  BY <1>13, FilesAreFiles, HooksHaveTargets, InstallAssumption
  DEF Prepare, NoState, Expected, Go, mem, Quiet, screen, world, own, hist, FilesOK,
    RunsOK, CountsOK, Release
<1>14. ASSUME NEW r \in Run, WipeHooks(r) PROVE FilesOK'
  BY <1>14 DEF WipeHooks, Quiet, world, FilesOK
<1>15. ASSUME NEW r \in Run, WriteState(r) PROVE FilesOK'
  BY <1>15, FilesAreFiles, HooksHaveTargets, InstallAssumption
  DEF WriteState, Expected, Go, Quiet, screen, world, own, hist, FilesOK, RunsOK,
    CountsOK, Release
<1>16. ASSUME NEW r \in Run, KeepItem(r) PROVE FilesOK'
  BY <1>16, FilesAreFiles, HooksHaveTargets, InstallAssumption
  DEF KeepItem, AtItem, data, Quiet, screen, world, own, hist, FilesOK, RunsOK,
    CountsOK, Release
<1>17. ASSUME NEW r \in Run, Extract(r) PROVE FilesOK'
  BY <1>17, FilesAreFiles, HooksHaveTargets, InstallAssumption
  DEF Extract, AtItem, Working, Tell, screen, world, own, hist, Go, data, mem,
    FilesOK, RunsOK, CountsOK, Release
<1>18. ASSUME NEW r \in Run, Copy(r) PROVE FilesOK'
  <2>1. Raw(sel[r]) \in File /\ at[r] \in Path
    BY <1>18, FilesAreFiles, HooksHaveTargets DEF Copy, RunsOK
  <2>2. QED
    BY <1>18, <2>1 DEF Copy, Unseen, world, FilesOK
<1>19. ASSUME NEW r \in Run, ItemsDone(r) PROVE FilesOK'
  BY <1>19, FilesAreFiles, HooksHaveTargets, InstallAssumption
  DEF ItemsDone, Working, Tell, screen, world, own, hist, Go, data, FilesOK, RunsOK,
    CountsOK, Release
<1>20. ASSUME NEW r \in Run, SkipHook(r) PROVE FilesOK'
  BY <1>20, FilesAreFiles, HooksHaveTargets, InstallAssumption
  DEF SkipHook, More, data, Quiet, screen, world, own, hist, FilesOK, RunsOK,
    CountsOK, Release
<1>21. ASSUME NEW r \in Run, StartHook(r) PROVE FilesOK'
  BY <1>21, FilesAreFiles, HooksHaveTargets, InstallAssumption
  DEF StartHook, More, Working, Tell, screen, world, own, hist, Go, data, mem,
    FilesOK, RunsOK, CountsOK, Release
<1>22. ASSUME NEW r \in Run, RunHook(r) PROVE FilesOK'
  <2>1. stage' \in [Path -> File]
    BY <1>22, WritesFile DEF RunHook, FilesOK
  <2>2. QED
    BY <1>22, <2>1 DEF RunHook, Unseen, world, FilesOK
<1>23. ASSUME NEW r \in Run, HookStopped(r) PROVE FilesOK'
  <2>1. stage' \in [Path -> File]
    BY <1>23, WritesFile DEF HookStopped, HalfDone, FilesOK
  <2>2. QED
    BY <1>23, <2>1 DEF HookStopped, Unseen, world, FilesOK
<1>24. ASSUME NEW r \in Run, Mark(r) PROVE FilesOK'
  BY <1>24, FilesAreFiles, HooksHaveTargets, InstallAssumption
  DEF Mark, Go, Quiet, screen, world, own, hist, FilesOK, RunsOK, CountsOK, Release
<1>25. ASSUME NEW r \in Run, HooksDone(r) PROVE FilesOK'
  BY <1>25, FilesAreFiles, HooksHaveTargets, InstallAssumption
  DEF HooksDone, More, Working, Tell, screen, world, own, hist, Go, data, mem,
    FilesOK, RunsOK, CountsOK, Release
<1>26. ASSUME NEW r \in Run, Validate(r) PROVE FilesOK'
  BY <1>26, FilesAreFiles, HooksHaveTargets, InstallAssumption
  DEF Validate, Go, mem, Quiet, screen, world, own, hist, FilesOK, RunsOK, CountsOK,
    Release
<1>27. ASSUME NEW r \in Run, Reject(r) PROVE FilesOK'
  BY <1>27, FilesAreFiles, HooksHaveTargets, InstallAssumption
  DEF Reject, NoState, Raise, Go, NoRun, screen, world, own, mem, hist, FilesOK,
    RunsOK, CountsOK, Release
<1>28. ASSUME NEW r \in Run, EnterCommit(r) PROVE FilesOK'
  BY <1>28, FilesAreFiles, HooksHaveTargets, InstallAssumption
  DEF EnterCommit, Working, Tell, screen, world, own, hist, Go, data, mem, FilesOK,
    RunsOK, CountsOK, Release
<1>29. ASSUME NEW r \in Run, Commit(r) PROVE FilesOK'
  BY <1>29, FilesAreFiles, HooksHaveTargets, InstallAssumption
  DEF Commit, Go, Unseen, screen, world, mem, hist, FilesOK, RunsOK, CountsOK, Release
<1>30. ASSUME NEW r \in Run, CommitRejected(r) PROVE FilesOK'
  BY <1>30, FilesAreFiles, HooksHaveTargets, InstallAssumption
  DEF CommitRejected, Raise, Go, NoRun, data, world, screen, own, mem, hist, FilesOK,
    RunsOK, CountsOK, Release
<1>31. ASSUME NEW r \in Run, TellDone(r) PROVE FilesOK'
  BY <1>31, FilesAreFiles, HooksHaveTargets, InstallAssumption
  DEF TellDone, Tell, Go, data, world, screen, own, mem, hist, FilesOK, RunsOK,
    CountsOK, Release
<1>32. ASSUME NEW r \in Run, ScreenLost(r) PROVE FilesOK'
  BY <1>32, FilesAreFiles, HooksHaveTargets, InstallAssumption
  DEF ScreenLost, More, Raise, Go, NoRun, data, world, screen, own, mem, hist,
    FilesOK, RunsOK, CountsOK, Release
<1>33. ASSUME NEW r \in Run, Stop(r) PROVE FilesOK'
  BY <1>33, FilesAreFiles, HooksHaveTargets, InstallAssumption
  DEF Stop, StopUI, screen, Go, data, world, own, hist, FilesOK, RunsOK, CountsOK,
    Release
<1>34. ASSUME NEW r \in Run, Unlock(r) PROVE FilesOK'
  BY <1>34, FilesAreFiles, HooksHaveTargets, InstallAssumption
  DEF Unlock, NoRun, Go, data, world, screen, own, mem, FilesOK, RunsOK, CountsOK,
    Release
<1>35. ASSUME NEW r \in Run, Error(r) PROVE FilesOK'
  BY <1>35, FilesAreFiles, HooksHaveTargets, InstallAssumption
  DEF Error, Tell, StopUI, screen, Go, data, world, own, FilesOK, RunsOK, CountsOK,
    Release
<1>36. ASSUME NEW r \in Run, Final(r) PROVE FilesOK'
  BY <1>36, FilesAreFiles, HooksHaveTargets, InstallAssumption
  DEF Final, StopUI, screen, Leave, Go, data, world, FilesOK, RunsOK, CountsOK,
    Release
<1>37. ASSUME NEW r \in Run, NoScreen(r) PROVE FilesOK'
  BY <1>37, FilesAreFiles, HooksHaveTargets, InstallAssumption
  DEF NoScreen, NotInstalled, Raise, Go, NoRun, Mishap, data, world, own, mem,
    FilesOK, RunsOK, CountsOK, Release
<1>38. ASSUME NEW r \in Run, HookDefective(r) PROVE FilesOK'
  <2>1. stage' \in [Path -> File]
    BY <1>38, WritesFile DEF HookDefective, FilesOK
  <2>2. QED
    BY <1>38, <2>1 DEF HookDefective, Unseen, world, FilesOK
<1>39. ASSUME NEW r \in Run, HookFails(r) PROVE FilesOK'
  <2>1. stage' \in [Path -> File]
    BY <1>39, WritesFile DEF HookFails, HalfDone, FilesOK
  <2>2. QED
    BY <1>39, <2>1 DEF HookFails, Unseen, world, FilesOK
<1>40. ASSUME NEW r \in Run, Interrupted(r) PROVE FilesOK'
  BY <1>40, FilesAreFiles, HooksHaveTargets, InstallAssumption
  DEF Interrupted, Raise, Go, NoRun, Mishap, data, world, screen, own, mem, FilesOK,
    RunsOK, CountsOK, Release
<1>41. ASSUME NEW r \in Run, Kill(r) PROVE FilesOK'
  <2>1. pc[r] = "run" => <<at[r], release, MaxWrites>> \in Hook \X Release \X (1..MaxWrites)
    BY InstallAssumption DEF RunsOK, FilesOK
  <2>2. orphan' \subseteq Hook \X Release \X (1..MaxWrites)
    BY <1>41, <2>1 DEF Kill, world, FilesOK
  <2>3. QED
    BY <1>41, <2>2 DEF Kill, data, FilesOK
<1>42. ASSUME NEW r \in Run, ErrorRaises(r) PROVE FilesOK'
  BY <1>42, FilesAreFiles, HooksHaveTargets, InstallAssumption
  DEF ErrorRaises, Tell, Go, data, world, screen, own, mem, FilesOK, RunsOK, CountsOK,
    Release
<1>43. ASSUME NEW r \in Run, FinalRaises(r) PROVE FilesOK'
  BY <1>43, FilesAreFiles, HooksHaveTargets, InstallAssumption
  DEF FinalRaises, Leave, Go, data, world, FilesOK, RunsOK, CountsOK, Release
<1>44. ASSUME NEW r \in Run, Publish(r) PROVE FilesOK'
  BY <1>44, FilesAreFiles, HooksHaveTargets, InstallAssumption
  DEF Publish, data, world, own, mem, hist, FilesOK, RunsOK, CountsOK, Release
<1>45. ASSUME NEW r \in Run, ObeyStop(r) PROVE FilesOK'
  BY <1>45, FilesAreFiles, HooksHaveTargets, InstallAssumption
  DEF ObeyStop, Gone, data, world, own, mem, hist, FilesOK, RunsOK, CountsOK, Release
<1>46. ASSUME NEW r \in Run, UIDies(r) PROVE FilesOK'
  BY <1>46, FilesAreFiles, HooksHaveTargets, InstallAssumption
  DEF UIDies, Gone, Mishap, data, world, own, mem, FilesOK, RunsOK, CountsOK, Release
<1>47. ASSUME NEW o \in orphan, OrphanWrites(o) PROVE FilesOK'
  <2>1. o \in Hook \X Release \X (1..MaxWrites)
    BY DEF FilesOK
  <2>2. PICK s \in BOOLEAN :
          stage' = [stage EXCEPT ![Target[o[1]]] = Hooked(Stray, o[2], s)]
    BY <1>47 DEF OrphanWrites
  <2>3. Hooked(Stray, o[2], s) \in File
    BY <2>1, FilesAreFiles
  <2>4. stage' \in [Path -> File]
    BY <2>2, <2>3 DEF FilesOK
  <2>5. ASSUME NEW n \in {o[3] - 1} \ {0}
        PROVE  <<o[1], o[2], n>> \in Hook \X Release \X (1..MaxWrites)
    BY <2>1, InstallAssumption
  <2>6. orphan' \subseteq Hook \X Release \X (1..MaxWrites)
    BY <1>47, <2>5 DEF OrphanWrites, FilesOK
  <2>7. QED
    BY <1>47, <2>4, <2>6 DEF OrphanWrites, FilesOK
<1>48. ASSUME NEW o \in orphan, OrphanEnds(o) PROVE FilesOK'
  BY <1>48, FilesAreFiles, HooksHaveTargets, InstallAssumption
  DEF OrphanEnds, data, screen, own, mem, hist, FilesOK, RunsOK, CountsOK, Release
<1>49. CASE Change
  BY <1>49, FilesAreFiles, HooksHaveTargets, InstallAssumption
  DEF Change, Run, data, screen, own, mem, hist, FilesOK, RunsOK, CountsOK, Release
<1>50. CASE UNCHANGED vars
  BY <1>50
  DEF vars, data, world, screen, own, mem, hist, FilesOK, RunsOK, CountsOK, Release
<1>51. QED
  BY <1>1, <1>2, <1>3, <1>4, <1>5, <1>6, <1>7, <1>8, <1>9, <1>10, <1>11, <1>12, <1>13,
    <1>14, <1>15, <1>16, <1>17, <1>18, <1>19, <1>20, <1>21, <1>22, <1>23, <1>24,
    <1>25, <1>26, <1>27, <1>28, <1>29, <1>30, <1>31, <1>32, <1>33, <1>34, <1>35,
    <1>36, <1>37, <1>38, <1>39, <1>40, <1>41, <1>42, <1>43, <1>44, <1>45, <1>46,
    <1>47, <1>48, <1>49, <1>50
  DEF Next, Stepping, Failing, Screen

\* The variables keep to their domains and the lock to the runs under it, for
\* any number of extractors, mishaps and changes of the payload or the recipe.
THEOREM TypeCorrect == Spec => []TypeOK
<1>1. Init => TypeOK
  <2> SUFFICES ASSUME Init PROVE TypeOK
    OBVIOUS
  <2>1. FilesOK
    BY FilesAreFiles, InstallAssumption DEF Init, FilesOK, Release
  <2>2. RunsOK
    BY HooksHaveTargets, InstallAssumption DEF Init, RunsOK
  <2>3. LockOK
    BY DEF Init, LockOK, Locked, Run, NoRun
  <2>4. CountsOK
    <3>1. /\ changes = MaxChanges /\ release = 1 /\ mishaps = MaxMishaps
          /\ told = 1 /\ fails = 0 /\ ~stop_file /\ ~ready_file
      BY DEF Init
    <3>2. stop_file \in BOOLEAN /\ ready_file \in BOOLEAN
      BY DEF Init
    <3>3. QED
      BY <3>1, <3>2, InstallAssumption DEF CountsOK
  <2>5. QED
    BY <2>1, <2>2, <2>3, <2>4 DEF TypeOK
<1>2. TypeOK /\ [Next]_vars => TypeOK'
  BY LockStep, RunsStep, CountsStep, FilesStep DEF TypeOK
<1>3. QED
  BY <1>1, <1>2, PTL DEF Spec

-----------------------------------------------------------------------------
(* The stage and the plan *)

\* While a run works under the lock, no other does.
LEMMA OthersIdle ==
  ASSUME TypeOK, NEW r \in Run, pc[r] \in Locked, NEW k \in Run \ {r}
  PROVE  pc[k] \notin Locked
  BY DEF TypeOK, LockOK

\* So nothing is claimed of the others when it takes a step.
LEMMA OthersInStep ==
  ASSUME TypeOK, NEW r \in Run, pc[r] \in Locked, NEW label, Go(r, label),
         NEW k \in Run \ {r}
  PROVE  InStep(k)'
<1>1. pc'[k] \notin Locked
  BY OthersIdle DEF Go, TypeOK, LockOK
<1>2. QED
  BY <1>1 DEF InStep, Locked

\* An empty stage belongs to any plan.
LEMMA NothingBelongs == stage' = Nowhere => Belongs' /\ Cleared'
  BY DEF Nowhere, Belongs, Cleared

\* What a hook writes belongs to the plan that the hook runs for, or was made of
\* what a left hook had written.
LEMMA HookWrites ==
  ASSUME TypeOK, StageInv, NEW r \in Run, NEW s \in BOOLEAN, pc[r] = "run",
         Writes(r, s), state' = state, sel' = sel
  PROVE  /\ Belongs'
         /\ \A i \in Item : Own(stage[i], r)'
<1> DEFINE new == Hooked(stage[1].of, release, s /\ stage[1].sound)
<1>1. state = Expected(r) /\ \A i \in Item : Own(stage[i], r)
  BY DEF StageInv, InStep
<1>2. at[r] \in Hook /\ stage[1].of \in {sel[r], Stray}
  BY <1>1, HooksHaveTargets DEF TypeOK, RunsOK, Own
<1>3. ASSUME NEW p \in Path PROVE stage'[p] \in {stage[p], new}
  BY DEF Writes, TypeOK, FilesOK
<1>4. new.of \in {sel[r], Stray} /\ new.by = release
  BY <1>2 DEF Hooked
<1>5. /\ state # NoState /\ state.plan = Fingerprint[sel[r]] /\ state.recipe = release
      /\ sel[r] \in Payloads
  BY <1>1 DEF Expected, NoState, TypeOK, FilesOK, RunsOK, Release
<1> HIDE DEF new
<1>6. Belongs'
  BY <1>3, <1>4, <1>5 DEF StageInv, Belongs
<1>7. \A i \in Item : Own(stage[i], r)'
  BY <1>1, <1>3, <1>4, HooksHaveTargets DEF Own
<1>8. QED
  BY <1>6, <1>7

\* The stage never holds a file that the plan of state.json does not name, but
\* for those of left hooks.
LEMMA StageStep == StageInv /\ TypeOK /\ [Next]_vars => StageInv'
<1> SUFFICES ASSUME StageInv, TypeOK, [Next]_vars PROVE StageInv'
  OBVIOUS
<1>1. ASSUME NEW r \in Run, Start(r) PROVE StageInv'
  BY <1>1
  DEF Start, Run, Alive, Go, data, world, screen, mem, StageInv, Belongs, InStep,
    Cleared, Own, Expected, TypeOK, LockOK, Locked
<1>2. ASSUME NEW r \in Run, TakeLock(r) PROVE StageInv'
  BY <1>2
  DEF TakeLock, NoRun, Go, data, world, screen, own, mem, hist, StageInv, Belongs,
    InStep, Cleared, Own, Expected, TypeOK, LockOK, Locked
<1>3. ASSUME NEW r \in Run, LockBusy(r) PROVE StageInv'
  BY <1>3
  DEF LockBusy, NoRun, Go, data, mem, Quiet, screen, world, own, hist, StageInv,
    Belongs, InStep, Cleared, Own, Expected, TypeOK, LockOK, Locked
<1>4. ASSUME NEW r \in Run, Fast(r) PROVE StageInv'
  BY <1>4
  DEF Fast, Tell, Go, data, world, screen, own, mem, hist, StageInv, Belongs, InStep,
    Cleared, Own, Expected, TypeOK, LockOK, Locked
<1>5. ASSUME NEW r \in Run, OpenScreen(r) PROVE StageInv'
  BY <1>5
  DEF OpenScreen, NotInstalled, Go, data, world, own, mem, hist, StageInv, Belongs,
    InStep, Cleared, Own, Expected, TypeOK, LockOK, Locked
<1>6. ASSUME NEW r \in Run, Headless(r) PROVE StageInv'
  BY <1>6
  DEF Headless, NotInstalled, Go, data, mem, Quiet, screen, world, own, hist,
    StageInv, Belongs, InStep, Cleared, Own, Expected, TypeOK, LockOK, Locked
<1>7. ASSUME NEW r \in Run, Confirm(r) PROVE StageInv'
  BY <1>7
  DEF Confirm, Go, data, Quiet, screen, world, own, hist, StageInv, Belongs, InStep,
    Cleared, Own, Expected, TypeOK, LockOK, Locked
<1>8. ASSUME NEW r \in Run, NotConfirmed(r) PROVE StageInv'
  BY <1>8
  DEF NotConfirmed, Raise, Go, NoRun, data, world, screen, own, mem, StageInv,
    Belongs, InStep, Cleared, Own, Expected, TypeOK, LockOK, Locked
<1>9. ASSUME NEW r \in Run, Up(r) PROVE StageInv'
  BY <1>9
  DEF Up, Working, Tell, screen, world, own, hist, Go, data, mem, StageInv, Belongs,
    InStep, Cleared, Own, Expected, TypeOK, LockOK, Locked
<1>10. ASSUME NEW r \in Run, Adopt(r) PROVE StageInv'
  BY <1>10
  DEF Adopt, Go, mem, Quiet, screen, world, own, hist, StageInv, Belongs, InStep,
    Cleared, Own, Expected, TypeOK, LockOK, Locked
<1>11. ASSUME NEW r \in Run, Scan(r) PROVE StageInv'
  BY <1>11
  DEF Scan, Working, Tell, screen, world, own, hist, Go, data, mem, StageInv, Belongs,
    InStep, Cleared, Own, Expected, TypeOK, LockOK, Locked
<1>12. ASSUME NEW r \in Run, Select(r) PROVE StageInv'
  BY <1>12
  DEF Select, Go, Unseen, screen, world, data, hist, StageInv, Belongs, InStep,
    Cleared, Own, Expected, TypeOK, LockOK, Locked
<1>13. ASSUME NEW r \in Run, Prepare(r) PROVE StageInv'
  <2>1. pc[r] \in Locked /\ (Go(r, "wipe") \/ Go(r, "record"))
    BY <1>13 DEF Prepare, Locked, Go
  <2>2. Belongs'
    BY <1>13, NothingBelongs DEF Prepare, StageInv, Belongs
  <2>3. InStep(r)'
    <3>1. state = NoState => Cleared
      BY DEF StageInv, Belongs, Cleared
    <3>2. CASE state \notin {NoState, Expected(r)}
      BY <1>13, <3>2, NothingBelongs
      DEF Prepare, Go, Expected, Quiet, world, mem, InStep, TypeOK, LockOK
    <3>3. CASE state \in {NoState, Expected(r)}
      BY <1>13, <3>1, <3>3
      DEF Prepare, Go, Expected, Quiet, world, mem, InStep, Cleared, TypeOK, LockOK
    <3>4. QED
      BY <3>2, <3>3
  <2>4. QED
    BY <2>1, <2>2, <2>3, OthersInStep DEF StageInv
<1>14. ASSUME NEW r \in Run, WipeHooks(r) PROVE StageInv'
  BY <1>14
  DEF WipeHooks, Go, mem, Quiet, screen, world, own, hist, StageInv, Belongs, InStep,
    Cleared, Own, Expected, TypeOK, LockOK, Locked
<1>15. ASSUME NEW r \in Run, WriteState(r) PROVE StageInv'
  <2>1. pc[r] \in Locked /\ Go(r, "extract")
    BY <1>15 DEF WriteState, Locked, Go, Raise
  <2>2. Belongs'
    BY <1>15 DEF WriteState, StageInv, Belongs, InStep, Cleared
  <2>3. InStep(r)'
    BY <1>15, HooksHaveTargets
    DEF WriteState, Go, Expected, Quiet, world, mem, InStep, Item, TypeOK, LockOK, RunsOK
  <2>4. QED
    BY <2>1, <2>2, <2>3, OthersInStep DEF StageInv
<1>16. ASSUME NEW r \in Run, KeepItem(r) PROVE StageInv'
  <2>1. pc[r] \in Locked /\ UNCHANGED <<pc, stage, state, sel, release>>
    BY <1>16 DEF KeepItem, AtItem, Locked, data, Quiet, world
  <2>2. at'[r] = at[r] + 1 /\ at[r] \in Nat /\ at[r] \in Item
    BY <1>16, HooksHaveTargets DEF KeepItem, AtItem, TypeOK, RunsOK
  <2>3. ASSUME NEW i \in Item, i < at'[r] PROVE Own(stage[i], r)'
    <3>1. i = at[r] \/ i < at[r]
      BY <2>2, <2>3 DEF Item
    <3>2. i < at[r] => Own(stage[i], r)
      BY <1>16 DEF KeepItem, AtItem, StageInv, InStep
    <3>3. Own(stage[at[r]], r)
      BY <1>16 DEF KeepItem, Kept, Raw, Own
    <3>4. QED
      BY <2>1, <3>1, <3>2, <3>3 DEF Own
  <2>4. Belongs'
    BY <2>1 DEF StageInv, Belongs
  <2>5. InStep(r)'
    BY <1>16, <2>1, <2>3 DEF KeepItem, AtItem, StageInv, InStep, Expected
  <2>6. ASSUME NEW k \in Run \ {r} PROVE InStep(k)'
    BY <2>1, OthersIdle DEF InStep, Locked
  <2>7. QED
    BY <2>4, <2>5, <2>6 DEF StageInv
<1>17. ASSUME NEW r \in Run, Extract(r) PROVE StageInv'
  BY <1>17
  DEF Extract, AtItem, Working, Tell, screen, world, own, hist, Go, data, mem,
    StageInv, Belongs, InStep, Cleared, Own, Expected, TypeOK, LockOK, Locked
<1>18. ASSUME NEW r \in Run, Copy(r) PROVE StageInv'
  <2>1. pc[r] \in Locked /\ Go(r, "extract") /\ state = Expected(r) /\ at[r] \in Item
    BY <1>18 DEF Copy, Locked, StageInv, InStep, TypeOK, RunsOK
  <2>2. state # NoState /\ state.plan = Fingerprint[sel[r]] /\ sel[r] \in Payloads
    BY <2>1 DEF Expected, NoState, TypeOK, FilesOK, RunsOK, Release
  <2>3. UNCHANGED <<state, sel, release>>
    BY <1>18 DEF Copy, Unseen, world
  <2>4. ASSUME NEW p \in Path
        PROVE  stage'[p] = IF p = at[r] THEN Raw(sel[r]) ELSE stage[p]
    BY <1>18 DEF Copy, TypeOK, FilesOK
  <2>5. Belongs'
    BY <2>2, <2>3, <2>4 DEF StageInv, Belongs, Raw
  <2>6. at'[r] = at[r] + 1 /\ at[r] \in Nat
    BY <1>18 DEF Copy, TypeOK, RunsOK
  <2>7. ASSUME NEW i \in Item, i < at'[r] PROVE Own(stage[i], r)'
    <3>1. i = at[r] \/ i < at[r]
      BY <2>6, <2>7 DEF Item
    <3>2. i < at[r] => Own(stage[i], r)
      BY <1>18 DEF Copy, StageInv, InStep
    <3>3. QED
      BY <2>3, <2>4, <3>1, <3>2, HooksHaveTargets DEF Own, Raw
  <2>8. InStep(r)'
    BY <1>18, <2>1, <2>3, <2>7 DEF Copy, Go, Expected, InStep, TypeOK, LockOK
  <2>9. QED
    BY <2>1, <2>5, <2>8, OthersInStep DEF StageInv
<1>19. ASSUME NEW r \in Run, ItemsDone(r) PROVE StageInv'
  <2>1. pc[r] \in Locked /\ Go(r, "hook") /\ UNCHANGED <<stage, state, sel, release>>
    BY <1>19 DEF ItemsDone, Locked, Working, data, world
  <2>2. \A i \in Item : i < at[r]
    BY <1>19, InstallAssumption DEF ItemsDone, Item, TypeOK, RunsOK
  <2>3. state = Expected(r) /\ \A i \in Item : Own(stage[i], r)
    BY <1>19, <2>2 DEF ItemsDone, StageInv, InStep
  <2>4. Belongs'
    BY <2>1 DEF StageInv, Belongs
  <2>5. InStep(r)'
    BY <2>1, <2>3 DEF Go, InStep, Expected, Own, TypeOK, LockOK
  <2>6. QED
    BY <2>1, <2>4, <2>5, OthersInStep DEF StageInv
<1>20. ASSUME NEW r \in Run, SkipHook(r) PROVE StageInv'
  BY <1>20
  DEF SkipHook, More, data, Quiet, screen, world, own, hist, StageInv, Belongs,
    InStep, Cleared, Own, Expected, TypeOK, LockOK, Locked
<1>21. ASSUME NEW r \in Run, StartHook(r) PROVE StageInv'
  BY <1>21
  DEF StartHook, More, Working, Tell, screen, world, own, hist, Go, data, mem,
    StageInv, Belongs, InStep, Cleared, Own, Expected, TypeOK, LockOK, Locked
<1>22. ASSUME NEW r \in Run, RunHook(r) PROVE StageInv'
  <2>1. pc[r] \in Locked /\ Go(r, "mark")
    BY <1>22 DEF RunHook, Locked, Go, Raise
  <2>2. Belongs'
    BY <1>22, HookWrites DEF RunHook, mem
  <2>3. InStep(r)'
    BY <1>22, HookWrites
    DEF RunHook, Go, Expected, Unseen, world, mem, StageInv, InStep, TypeOK, LockOK
  <2>4. QED
    BY <2>1, <2>2, <2>3, OthersInStep DEF StageInv
<1>23. ASSUME NEW r \in Run, HookStopped(r) PROVE StageInv'
  <2>1. pc[r] \in Locked /\ Go(r, "error")
    BY <1>23 DEF HookStopped, Locked, Go, Raise
  <2>2. Belongs'
    BY <1>23, HookWrites DEF HookStopped, HalfDone, mem, StageInv, Belongs
  <2>3. InStep(r)'
    BY <1>23 DEF HookStopped, Raise, Go, InStep, TypeOK, LockOK
  <2>4. QED
    BY <2>1, <2>2, <2>3, OthersInStep DEF StageInv
<1>24. ASSUME NEW r \in Run, Mark(r) PROVE StageInv'
  BY <1>24
  DEF Mark, Go, Quiet, screen, world, own, hist, StageInv, Belongs, InStep, Cleared,
    Own, Expected, TypeOK, LockOK, Locked
<1>25. ASSUME NEW r \in Run, HooksDone(r) PROVE StageInv'
  BY <1>25
  DEF HooksDone, More, Working, Tell, screen, world, own, hist, Go, data, mem,
    StageInv, Belongs, InStep, Cleared, Own, Expected, TypeOK, LockOK, Locked
<1>26. ASSUME NEW r \in Run, Validate(r) PROVE StageInv'
  <2>1. pc[r] \in Locked /\ (Go(r, "commit") \/ Go(r, "reject"))
    BY <1>26 DEF Validate, Locked, Go, Raise
  <2>2. Belongs'
    BY <1>26, NothingBelongs DEF Validate, StageInv, Belongs
  <2>3. InStep(r)'
    <3>1. CASE ValidOutputs(stage, release)
      BY <1>26, <3>1
      DEF Validate, Quiet, Go, Expected, Own, world, mem, StageInv, InStep, TypeOK, LockOK
    <3>2. CASE ~ValidOutputs(stage, release)
      BY <1>26, <3>2, NothingBelongs DEF Validate, Go, InStep, TypeOK, LockOK
    <3>3. QED
      BY <3>1, <3>2
  <2>4. QED
    BY <2>1, <2>2, <2>3, OthersInStep DEF StageInv
<1>27. ASSUME NEW r \in Run, Reject(r) PROVE StageInv'
  <2>1. pc[r] \in Locked /\ Go(r, "error")
    BY <1>27 DEF Reject, Locked, Go, Raise
  <2>2. Belongs'
    BY <1>27 DEF Reject, StageInv, Belongs, InStep, Cleared
  <2>3. InStep(r)'
    BY <1>27 DEF Reject, Raise, Go, InStep, TypeOK, LockOK
  <2>4. QED
    BY <2>1, <2>2, <2>3, OthersInStep DEF StageInv
<1>28. ASSUME NEW r \in Run, EnterCommit(r) PROVE StageInv'
  BY <1>28
  DEF EnterCommit, Working, Tell, screen, world, own, hist, Go, data, mem, StageInv,
    Belongs, InStep, Cleared, Own, Expected, TypeOK, LockOK, Locked
<1>29. ASSUME NEW r \in Run, Commit(r) PROVE StageInv'
  <2>1. pc[r] \in Locked /\ Go(r, "tell")
    BY <1>29 DEF Commit, Locked, Go, Raise
  <2>2. Belongs'
    BY <1>29, NothingBelongs DEF Commit
  <2>3. InStep(r)'
    BY <1>29 DEF Commit, Go, InStep, TypeOK, LockOK
  <2>4. QED
    BY <2>1, <2>2, <2>3, OthersInStep DEF StageInv
<1>30. ASSUME NEW r \in Run, CommitRejected(r) PROVE StageInv'
  BY <1>30
  DEF CommitRejected, Raise, Go, NoRun, data, world, screen, own, mem, hist, StageInv,
    Belongs, InStep, Cleared, Own, Expected, TypeOK, LockOK, Locked
<1>31. ASSUME NEW r \in Run, TellDone(r) PROVE StageInv'
  BY <1>31
  DEF TellDone, Tell, Go, data, world, screen, own, mem, hist, StageInv, Belongs,
    InStep, Cleared, Own, Expected, TypeOK, LockOK, Locked
<1>32. ASSUME NEW r \in Run, ScreenLost(r) PROVE StageInv'
  BY <1>32
  DEF ScreenLost, More, Raise, Go, NoRun, data, world, screen, own, mem, hist,
    StageInv, Belongs, InStep, Cleared, Own, Expected, TypeOK, LockOK, Locked
<1>33. ASSUME NEW r \in Run, Stop(r) PROVE StageInv'
  BY <1>33
  DEF Stop, StopUI, screen, Go, data, world, own, hist, StageInv, Belongs, InStep,
    Cleared, Own, Expected, TypeOK, LockOK, Locked
<1>34. ASSUME NEW r \in Run, Unlock(r) PROVE StageInv'
  BY <1>34
  DEF Unlock, NoRun, Go, data, world, screen, own, mem, StageInv, Belongs, InStep,
    Cleared, Own, Expected, TypeOK, LockOK, Locked
<1>35. ASSUME NEW r \in Run, Error(r) PROVE StageInv'
  BY <1>35
  DEF Error, Tell, StopUI, screen, Go, data, world, own, StageInv, Belongs, InStep,
    Cleared, Own, Expected, TypeOK, LockOK, Locked
<1>36. ASSUME NEW r \in Run, Final(r) PROVE StageInv'
  BY <1>36
  DEF Final, StopUI, screen, Leave, Go, data, world, StageInv, Belongs, InStep,
    Cleared, Own, Expected, TypeOK, LockOK, Locked
<1>37. ASSUME NEW r \in Run, NoScreen(r) PROVE StageInv'
  BY <1>37
  DEF NoScreen, NotInstalled, Raise, Go, NoRun, Mishap, data, world, own, mem,
    StageInv, Belongs, InStep, Cleared, Own, Expected, TypeOK, LockOK, Locked
<1>38. ASSUME NEW r \in Run, HookDefective(r) PROVE StageInv'
  <2>1. pc[r] \in Locked /\ Go(r, "mark")
    BY <1>38 DEF HookDefective, Locked, Go, Raise
  <2>2. Belongs'
    BY <1>38, HookWrites DEF HookDefective, mem
  <2>3. InStep(r)'
    BY <1>38, HookWrites
    DEF HookDefective, Go, Expected, Unseen, world, mem, StageInv, InStep, TypeOK, LockOK
  <2>4. QED
    BY <2>1, <2>2, <2>3, OthersInStep DEF StageInv
<1>39. ASSUME NEW r \in Run, HookFails(r) PROVE StageInv'
  <2>1. pc[r] \in Locked /\ Go(r, "error")
    BY <1>39 DEF HookFails, Locked, Go, Raise
  <2>2. Belongs'
    BY <1>39, HookWrites DEF HookFails, HalfDone, mem, StageInv, Belongs
  <2>3. InStep(r)'
    BY <1>39 DEF HookFails, Raise, Go, InStep, TypeOK, LockOK
  <2>4. QED
    BY <2>1, <2>2, <2>3, OthersInStep DEF StageInv
<1>40. ASSUME NEW r \in Run, Interrupted(r) PROVE StageInv'
  BY <1>40
  DEF Interrupted, Raise, Go, NoRun, Mishap, data, world, screen, own, mem, StageInv,
    Belongs, InStep, Cleared, Own, Expected, TypeOK, LockOK, Locked
<1>41. ASSUME NEW r \in Run, Kill(r) PROVE StageInv'
  BY <1>41
  DEF Kill, Alive, Leave, Go, NoRun, data, StageInv, Belongs, InStep, Cleared, Own,
    Expected, TypeOK, LockOK, Locked
<1>42. ASSUME NEW r \in Run, ErrorRaises(r) PROVE StageInv'
  BY <1>42
  DEF ErrorRaises, Tell, Go, data, world, screen, own, mem, StageInv, Belongs, InStep,
    Cleared, Own, Expected, TypeOK, LockOK, Locked
<1>43. ASSUME NEW r \in Run, FinalRaises(r) PROVE StageInv'
  BY <1>43
  DEF FinalRaises, Leave, Go, data, world, StageInv, Belongs, InStep, Cleared, Own,
    Expected, TypeOK, LockOK, Locked
<1>44. ASSUME NEW r \in Run, Publish(r) PROVE StageInv'
  BY <1>44
  DEF Publish, data, world, own, mem, hist, StageInv, Belongs, InStep, Cleared, Own,
    Expected, TypeOK, LockOK, Locked
<1>45. ASSUME NEW r \in Run, ObeyStop(r) PROVE StageInv'
  BY <1>45
  DEF ObeyStop, Gone, Alive, data, world, own, mem, hist, StageInv, Belongs, InStep,
    Cleared, Own, Expected, TypeOK, LockOK, Locked
<1>46. ASSUME NEW r \in Run, UIDies(r) PROVE StageInv'
  BY <1>46
  DEF UIDies, Gone, Alive, Mishap, data, world, own, mem, StageInv, Belongs, InStep,
    Cleared, Own, Expected, TypeOK, LockOK, Locked
<1>47. ASSUME NEW o \in orphan, OrphanWrites(o) PROVE StageInv'
  <2>1. PICK s \in BOOLEAN :
          stage' = [stage EXCEPT ![Target[o[1]]] = Hooked(Stray, o[2], s)]
    BY <1>47 DEF OrphanWrites
  <2>2. UNCHANGED <<pc, state, sel, at, release>>
    BY <1>47 DEF OrphanWrites, mem
  <2>3. \A p \in Path : stage'[p] = stage[p] \/ stage'[p].of = Stray
    BY <2>1 DEF Hooked, TypeOK, FilesOK
  <2>4. Belongs'
    BY <2>2, <2>3 DEF StageInv, Belongs
  <2>5. Cleared => Cleared'
    BY <2>3 DEF Cleared
  <2>6. ASSUME NEW r \in Run, NEW i \in Item, Own(stage[i], r) PROVE Own(stage[i], r)'
    BY <2>2, <2>3, <2>6, HooksHaveTargets DEF Own
  <2>7. \A r \in Run : InStep(r)'
    BY <2>2, <2>5, <2>6 DEF StageInv, InStep, Expected
  <2>8. QED
    BY <2>4, <2>7 DEF StageInv
<1>48. ASSUME NEW o \in orphan, OrphanEnds(o) PROVE StageInv'
  BY <1>48
  DEF OrphanEnds, data, screen, own, mem, hist, StageInv, Belongs, InStep, Cleared,
    Own, Expected, TypeOK, LockOK, Locked
<1>49. CASE Change
  BY <1>49
  DEF Change, Run, Alive, data, screen, own, mem, hist, StageInv, Belongs, InStep,
    Cleared, Own, Expected, TypeOK, LockOK, Locked
<1>50. CASE UNCHANGED vars
  BY <1>50
  DEF vars, data, world, screen, own, mem, hist, StageInv, Belongs, InStep, Cleared,
    Own, Expected, TypeOK, LockOK, Locked
<1>51. QED
  BY <1>1, <1>2, <1>3, <1>4, <1>5, <1>6, <1>7, <1>8, <1>9, <1>10, <1>11, <1>12, <1>13,
    <1>14, <1>15, <1>16, <1>17, <1>18, <1>19, <1>20, <1>21, <1>22, <1>23, <1>24,
    <1>25, <1>26, <1>27, <1>28, <1>29, <1>30, <1>31, <1>32, <1>33, <1>34, <1>35,
    <1>36, <1>37, <1>38, <1>39, <1>40, <1>41, <1>42, <1>43, <1>44, <1>45, <1>46,
    <1>47, <1>48, <1>49, <1>50
  DEF Next, Stepping, Failing, Screen

\* The game directory passes validation once anything says so.
LEMMA DoneStep == DoneInv /\ TypeOK /\ [Next]_vars => DoneInv'
<1> SUFFICES ASSUME DoneInv, TypeOK, [Next]_vars PROVE DoneInv'
  OBVIOUS
<1>1. ASSUME NEW r \in Run, Start(r) PROVE DoneInv'
  BY <1>1
  DEF Start, Run, Alive, Go, data, world, screen, mem, DoneInv, TypeOK, LockOK,
    Locked, ValidOutputs, Passes
<1>2. ASSUME NEW r \in Run, TakeLock(r) PROVE DoneInv'
  BY <1>2
  DEF TakeLock, NoRun, Go, data, world, screen, own, mem, hist, DoneInv, TypeOK,
    LockOK, Locked, ValidOutputs, Passes
<1>3. ASSUME NEW r \in Run, LockBusy(r) PROVE DoneInv'
  BY <1>3
  DEF LockBusy, NoRun, Go, data, mem, Quiet, screen, world, own, hist, DoneInv,
    TypeOK, LockOK, Locked, ValidOutputs, Passes
<1>4. ASSUME NEW r \in Run, Fast(r) PROVE DoneInv'
  BY <1>4
  DEF Fast, Tell, Go, data, world, screen, own, mem, hist, DoneInv, TypeOK, LockOK,
    Locked, ValidOutputs, Passes, FilesOK, Release
<1>5. ASSUME NEW r \in Run, OpenScreen(r) PROVE DoneInv'
  BY <1>5
  DEF OpenScreen, NotInstalled, Go, data, world, own, mem, hist, DoneInv, TypeOK,
    LockOK, Locked, ValidOutputs, Passes
<1>6. ASSUME NEW r \in Run, Headless(r) PROVE DoneInv'
  BY <1>6
  DEF Headless, NotInstalled, Go, data, mem, Quiet, screen, world, own, hist, DoneInv,
    TypeOK, LockOK, Locked, ValidOutputs, Passes
<1>7. ASSUME NEW r \in Run, Confirm(r) PROVE DoneInv'
  BY <1>7
  DEF Confirm, Go, data, Quiet, screen, world, own, hist, DoneInv, TypeOK, LockOK,
    Locked, ValidOutputs, Passes
<1>8. ASSUME NEW r \in Run, NotConfirmed(r) PROVE DoneInv'
  BY <1>8
  DEF NotConfirmed, Raise, Go, NoRun, data, world, screen, own, mem, DoneInv, TypeOK,
    LockOK, Locked, ValidOutputs, Passes
<1>9. ASSUME NEW r \in Run, Up(r) PROVE DoneInv'
  BY <1>9
  DEF Up, Working, Tell, screen, world, own, hist, Go, data, mem, DoneInv, TypeOK,
    LockOK, Locked, ValidOutputs, Passes
<1>10. ASSUME NEW r \in Run, Adopt(r) PROVE DoneInv'
  BY <1>10
  DEF Adopt, ValidOutputs, Passes, Go, mem, Quiet, screen, world, own, hist, DoneInv,
    TypeOK, LockOK, Locked, FilesOK, Release
<1>11. ASSUME NEW r \in Run, Scan(r) PROVE DoneInv'
  BY <1>11
  DEF Scan, Working, Tell, screen, world, own, hist, Go, data, mem, DoneInv, TypeOK,
    LockOK, Locked, ValidOutputs, Passes
<1>12. ASSUME NEW r \in Run, Select(r) PROVE DoneInv'
  BY <1>12
  DEF Select, Go, Unseen, screen, world, data, hist, DoneInv, TypeOK, LockOK, Locked,
    ValidOutputs, Passes
<1>13. ASSUME NEW r \in Run, Prepare(r) PROVE DoneInv'
  BY <1>13
  DEF Prepare, Go, mem, Quiet, screen, world, own, hist, DoneInv, TypeOK, LockOK,
    Locked, ValidOutputs, Passes
<1>14. ASSUME NEW r \in Run, WipeHooks(r) PROVE DoneInv'
  BY <1>14
  DEF WipeHooks, Go, mem, Quiet, screen, world, own, hist, DoneInv, TypeOK, LockOK,
    Locked, ValidOutputs, Passes
<1>15. ASSUME NEW r \in Run, WriteState(r) PROVE DoneInv'
  BY <1>15
  DEF WriteState, Go, Quiet, screen, world, own, hist, DoneInv, TypeOK, LockOK,
    Locked, ValidOutputs, Passes
<1>16. ASSUME NEW r \in Run, KeepItem(r) PROVE DoneInv'
  BY <1>16
  DEF KeepItem, AtItem, data, Quiet, screen, world, own, hist, DoneInv, TypeOK,
    LockOK, Locked, ValidOutputs, Passes
<1>17. ASSUME NEW r \in Run, Extract(r) PROVE DoneInv'
  BY <1>17
  DEF Extract, AtItem, Working, Tell, screen, world, own, hist, Go, data, mem,
    DoneInv, TypeOK, LockOK, Locked, ValidOutputs, Passes
<1>18. ASSUME NEW r \in Run, Copy(r) PROVE DoneInv'
  BY <1>18
  DEF Copy, Go, Unseen, screen, world, hist, DoneInv, TypeOK, LockOK, Locked,
    ValidOutputs, Passes
<1>19. ASSUME NEW r \in Run, ItemsDone(r) PROVE DoneInv'
  BY <1>19
  DEF ItemsDone, Working, Tell, screen, world, own, hist, Go, data, DoneInv, TypeOK,
    LockOK, Locked, ValidOutputs, Passes
<1>20. ASSUME NEW r \in Run, SkipHook(r) PROVE DoneInv'
  BY <1>20
  DEF SkipHook, More, data, Quiet, screen, world, own, hist, DoneInv, TypeOK, LockOK,
    Locked, ValidOutputs, Passes
<1>21. ASSUME NEW r \in Run, StartHook(r) PROVE DoneInv'
  BY <1>21
  DEF StartHook, More, Working, Tell, screen, world, own, hist, Go, data, mem,
    DoneInv, TypeOK, LockOK, Locked, ValidOutputs, Passes
<1>22. ASSUME NEW r \in Run, RunHook(r) PROVE DoneInv'
  BY <1>22
  DEF RunHook, Go, Unseen, screen, world, mem, hist, DoneInv, TypeOK, LockOK, Locked,
    ValidOutputs, Passes
<1>23. ASSUME NEW r \in Run, HookStopped(r) PROVE DoneInv'
  BY <1>23
  DEF HookStopped, Raise, Go, NoRun, screen, world, own, mem, hist, DoneInv, TypeOK,
    LockOK, Locked, ValidOutputs, Passes
<1>24. ASSUME NEW r \in Run, Mark(r) PROVE DoneInv'
  BY <1>24
  DEF Mark, Go, Quiet, screen, world, own, hist, DoneInv, TypeOK, LockOK, Locked,
    ValidOutputs, Passes
<1>25. ASSUME NEW r \in Run, HooksDone(r) PROVE DoneInv'
  BY <1>25
  DEF HooksDone, More, Working, Tell, screen, world, own, hist, Go, data, mem,
    DoneInv, TypeOK, LockOK, Locked, ValidOutputs, Passes
<1>26. ASSUME NEW r \in Run, Validate(r) PROVE DoneInv'
  BY <1>26
  DEF Validate, ValidOutputs, Passes, Go, mem, Quiet, screen, world, own, hist,
    DoneInv, TypeOK, LockOK, Locked
<1>27. ASSUME NEW r \in Run, Reject(r) PROVE DoneInv'
  BY <1>27
  DEF Reject, Raise, Go, NoRun, screen, world, own, mem, hist, DoneInv, TypeOK,
    LockOK, Locked, ValidOutputs, Passes
<1>28. ASSUME NEW r \in Run, EnterCommit(r) PROVE DoneInv'
  BY <1>28
  DEF EnterCommit, Working, Tell, screen, world, own, hist, Go, data, mem, DoneInv,
    TypeOK, LockOK, Locked, ValidOutputs, Passes
<1>29. ASSUME NEW r \in Run, Commit(r) PROVE DoneInv'
  BY <1>29
  DEF Commit, ValidOutputs, Passes, Go, Unseen, screen, world, mem, hist, DoneInv,
    TypeOK, LockOK, Locked, FilesOK, Release
<1>30. ASSUME NEW r \in Run, CommitRejected(r) PROVE DoneInv'
  BY <1>30
  DEF CommitRejected, ValidOutputs, Passes, Raise, Go, NoRun, data, world, screen,
    own, mem, hist, DoneInv, TypeOK, LockOK, Locked
<1>31. ASSUME NEW r \in Run, TellDone(r) PROVE DoneInv'
  BY <1>31
  DEF TellDone, Tell, Go, data, world, screen, own, mem, hist, DoneInv, TypeOK,
    LockOK, Locked, ValidOutputs, Passes
<1>32. ASSUME NEW r \in Run, ScreenLost(r) PROVE DoneInv'
  BY <1>32
  DEF ScreenLost, More, Raise, Go, NoRun, data, world, screen, own, mem, hist,
    DoneInv, TypeOK, LockOK, Locked, ValidOutputs, Passes
<1>33. ASSUME NEW r \in Run, Stop(r) PROVE DoneInv'
  BY <1>33
  DEF Stop, StopUI, screen, Go, data, world, own, hist, DoneInv, TypeOK, LockOK,
    Locked, ValidOutputs, Passes
<1>34. ASSUME NEW r \in Run, Unlock(r) PROVE DoneInv'
  BY <1>34
  DEF Unlock, NoRun, Go, data, world, screen, own, mem, DoneInv, TypeOK, LockOK,
    Locked, ValidOutputs, Passes
<1>35. ASSUME NEW r \in Run, Error(r) PROVE DoneInv'
  BY <1>35
  DEF Error, Tell, StopUI, screen, Go, data, world, own, DoneInv, TypeOK, LockOK,
    Locked, ValidOutputs, Passes
<1>36. ASSUME NEW r \in Run, Final(r) PROVE DoneInv'
  BY <1>36
  DEF Final, StopUI, screen, Leave, Go, data, world, DoneInv, TypeOK, LockOK, Locked,
    ValidOutputs, Passes
<1>37. ASSUME NEW r \in Run, NoScreen(r) PROVE DoneInv'
  BY <1>37
  DEF NoScreen, NotInstalled, Raise, Go, NoRun, Mishap, data, world, own, mem,
    DoneInv, TypeOK, LockOK, Locked, ValidOutputs, Passes
<1>38. ASSUME NEW r \in Run, HookDefective(r) PROVE DoneInv'
  BY <1>38
  DEF HookDefective, Go, Unseen, screen, world, Mishap, mem, DoneInv, TypeOK, LockOK,
    Locked, ValidOutputs, Passes
<1>39. ASSUME NEW r \in Run, HookFails(r) PROVE DoneInv'
  BY <1>39
  DEF HookFails, Raise, Go, NoRun, Mishap, screen, world, own, mem, DoneInv, TypeOK,
    LockOK, Locked, ValidOutputs, Passes
<1>40. ASSUME NEW r \in Run, Interrupted(r) PROVE DoneInv'
  BY <1>40
  DEF Interrupted, Raise, Go, NoRun, Mishap, data, world, screen, own, mem, DoneInv,
    TypeOK, LockOK, Locked, ValidOutputs, Passes
<1>41. ASSUME NEW r \in Run, Kill(r) PROVE DoneInv'
  BY <1>41
  DEF Kill, Alive, Leave, Go, NoRun, data, DoneInv, TypeOK, LockOK, Locked,
    ValidOutputs, Passes
<1>42. ASSUME NEW r \in Run, ErrorRaises(r) PROVE DoneInv'
  BY <1>42
  DEF ErrorRaises, Tell, Go, data, world, screen, own, mem, DoneInv, TypeOK, LockOK,
    Locked, ValidOutputs, Passes
<1>43. ASSUME NEW r \in Run, FinalRaises(r) PROVE DoneInv'
  BY <1>43
  DEF FinalRaises, Leave, Go, data, world, DoneInv, TypeOK, LockOK, Locked,
    ValidOutputs, Passes
<1>44. ASSUME NEW r \in Run, Publish(r) PROVE DoneInv'
  BY <1>44
  DEF Publish, data, world, own, mem, hist, DoneInv, TypeOK, LockOK, Locked,
    ValidOutputs, Passes
<1>45. ASSUME NEW r \in Run, ObeyStop(r) PROVE DoneInv'
  BY <1>45
  DEF ObeyStop, Gone, Alive, data, world, own, mem, hist, DoneInv, TypeOK, LockOK,
    Locked, ValidOutputs, Passes
<1>46. ASSUME NEW r \in Run, UIDies(r) PROVE DoneInv'
  BY <1>46
  DEF UIDies, Gone, Alive, Mishap, data, world, own, mem, DoneInv, TypeOK, LockOK,
    Locked, ValidOutputs, Passes
<1>47. ASSUME NEW o \in orphan, OrphanWrites(o) PROVE DoneInv'
  BY <1>47 DEF OrphanWrites, DoneInv, ValidOutputs, Passes
<1>48. ASSUME NEW o \in orphan, OrphanEnds(o) PROVE DoneInv'
  BY <1>48
  DEF OrphanEnds, data, screen, own, mem, hist, DoneInv, TypeOK, LockOK, Locked,
    ValidOutputs, Passes
<1>49. CASE Change
  BY <1>49
  DEF Change, Run, Alive, data, screen, own, mem, hist, DoneInv, TypeOK, LockOK,
    Locked, ValidOutputs, Passes
<1>50. CASE UNCHANGED vars
  BY <1>50
  DEF vars, data, world, screen, own, mem, hist, DoneInv, TypeOK, LockOK, Locked,
    ValidOutputs, Passes
<1>51. QED
  BY <1>1, <1>2, <1>3, <1>4, <1>5, <1>6, <1>7, <1>8, <1>9, <1>10, <1>11, <1>12, <1>13,
    <1>14, <1>15, <1>16, <1>17, <1>18, <1>19, <1>20, <1>21, <1>22, <1>23, <1>24,
    <1>25, <1>26, <1>27, <1>28, <1>29, <1>30, <1>31, <1>32, <1>33, <1>34, <1>35,
    <1>36, <1>37, <1>38, <1>39, <1>40, <1>41, <1>42, <1>43, <1>44, <1>45, <1>46,
    <1>47, <1>48, <1>49, <1>50
  DEF Next, Stepping, Failing, Screen

\* Together they hold in every reachable state.
THEOREM StageAndDone == Spec => []StageInv /\ []DoneInv
<1>1. Init => StageInv /\ DoneInv
  BY DEF Init, StageInv, Belongs, InStep, DoneInv, Nowhere
<1>2. TypeOK /\ StageInv /\ [Next]_vars => StageInv'
  BY StageStep
<1>3. TypeOK /\ DoneInv /\ [Next]_vars => DoneInv'
  BY DoneStep
<1>4. QED
  BY <1>1, <1>2, <1>3, TypeCorrect, PTL DEF Spec

-----------------------------------------------------------------------------
(* The properties *)

\* The progress file says that the game data is ready only when it is, whatever
\* left hooks have written into the stage.
THEOREM DoneAlwaysTrue == Spec => []DoneIsTrue
<1>1. DoneInv => DoneIsTrue
  BY DEF DoneInv, DoneIsTrue
<1>2. QED
  BY <1>1, StageAndDone, PTL

\* What a run publishes is made of the payload of its own plan, or for the hooks'
\* part of one that has the same fingerprint, by the recipe that is shipped,
\* whatever earlier runs have left in the stage; but for the work of left hooks.
\* Nothing is assumed of the fingerprints.
THEOREM PublishesItsPlan == Spec => CommittedIsProcessed
<1>1. ASSUME TypeOK, StageInv, NEW r \in Run, Commit(r)
      PROVE  Processed(stage, r)
  <2>1. state = Expected(r) /\ ValidOutputs(stage, release) /\ \A i \in Item : Own(stage[i], r)
    BY <1>1 DEF StageInv, InStep, Commit
  <2>2. ASSUME NEW p \in Path, stage[p].of # Stray
        PROVE  /\ Fingerprint[stage[p].of] = Fingerprint[sel[r]]
               /\ p \in Item => stage[p].of = sel[r]
               /\ stage[p].by \in {0, release}
    <3>1. stage[p] # NoFile
      BY <2>1 DEF ValidOutputs, NoFile
    <3>2. QED
      BY <1>1, <2>1, <2>2, <3>1 DEF StageInv, Belongs, Expected, Own
  <2>3. QED
    BY <2>2 DEF Processed
<1>2. TypeOK /\ StageInv => [\A r \in Run : Commit(r) => Processed(stage, r)]_vars
  BY <1>1
<1>3. QED
  BY <1>2, TypeCorrect, StageAndDone, PTL DEF CommittedIsProcessed

=============================================================================
